------------------------ MODULE MCDeviceAuthorization ------------------------
(* A small instance of DeviceAuthorization.                                *)
EXTENDS DeviceAuthorization, TLC

CONSTANTS p1, p2, b1, b2, u1, u2

MCPolls == {p1, p2}
MCBrowsers == {b1, b2}
MCUsers == {u1, u2}

RequestSymmetry ==
    Permutations(MCPolls) \cup Permutations(MCBrowsers) \cup Permutations(MCUsers)
=============================================================================
