-------------------------- MODULE CoalescedReadCache --------------------------
(***************************************************************************)
(* The cache in front of slow reads of the market and of the regions       *)
(* (console/utils/coalesced_read_cache.py): threads that ask for the same  *)
(* key at the same time share one load, the flight, and clear() makes sure *)
(* that nothing loaded before it is served to a reader that comes after.   *)
(*                                                                         *)
(* A thread is a request inside get(); a step is what it does between two  *)
(* uses of the lock, the loader or the event.  Whether an entry's time to  *)
(* live is over is left open: a lookup may find any entry expired.  The    *)
(* result of a load is the version of the source it read.                  *)
(***************************************************************************)
EXTENDS Naturals

CONSTANTS
    Threads,
    Keys,
    Flights,        \* flight objects, as many as there are threads
    MaxVersion,     \* bound: changes of a key at its source
    MaxGeneration,  \* bound: calls of clear()
    None

ASSUME CacheAssumption ==
    /\ MaxVersion \in Nat
    /\ MaxGeneration \in Nat
    /\ None \notin Nat \cup Keys \cup Flights

VARIABLES
    entries,    \* _entries
    flights,    \* _flights
    generation, \* _generation
    flight,     \* the flight objects
    reader,     \* the threads
    source,     \* what the loader reads
    floor       \* history: version of every key at the last clear()

cache == <<entries, flights, generation>>
vars == <<cache, flight, reader, source, floor>>

Versions == 0 .. MaxVersion

Flight == [generation : 0 .. MaxGeneration, value : Versions \cup {None},
           error : BOOLEAN, event : BOOLEAN]

Unused == [generation |-> 0, value |-> None, error |-> FALSE, event |-> FALSE]

\* "load" to "wake" belong to the leader of a flight.
Leading == {"load", "loaded", "release", "wake"}
Busy == {"lookup", "direct", "wait"} \cup Leading

Reader == [pc     : {"idle", "returned"} \cup Busy,
           key    : Keys \cup {None},
           flight : Flights \cup {None},
           value  : Versions \cup {None},
           floor  : Versions \cup {None}]   \* history: floor of key at the call

Outside(pc, v) == [pc |-> pc, key |-> None, flight |-> None, value |-> v, floor |-> None]

Idle == Outside("idle", None)

KeyOf(t) == reader[t].key
FlightOf(t) == flight[reader[t].flight]

Goto(t, pc) == reader' = [reader EXCEPT ![t].pc = pc]

\* get() ends: with a value, or with the exception of the load.
Return(t, v) == reader' = [reader EXCEPT ![t] = Outside("returned", v)]

Raise(t) == reader' = [reader EXCEPT ![t] = Idle]

\* Whoever leaves a flight last leaves an object for garbage collection.
Leave(t, fl) ==
    IF \E u \in Threads \ {t} : reader[u].flight = reader[t].flight
    THEN fl ELSE [fl EXCEPT ![reader[t].flight] = Unused]

-----------------------------------------------------------------------------
(* get()                                                                   *)

\* With a time to live of zero the cache is not used at all.
Call(t, k) ==
    /\ reader[t].pc \notin Busy
    /\ \E pc \in {"lookup", "direct"} :
        reader' = [reader EXCEPT ![t] = [pc |-> pc, key |-> k, flight |-> None,
                                         value |-> None, floor |-> floor[k]]]
    /\ UNCHANGED <<cache, flight, source, floor>>

Direct(t) ==
    /\ reader[t].pc = "direct"
    /\ Return(t, source[KeyOf(t)]) \/ Raise(t)
    /\ UNCHANGED <<cache, flight, source, floor>>

Hit(t) ==
    /\ reader[t].pc = "lookup"
    /\ entries[KeyOf(t)] # None
    /\ Return(t, entries[KeyOf(t)])
    /\ UNCHANGED <<cache, flight, source, floor>>

\* A mutant of Join: the thread waits whether or not somebody leads.
JoinBlind(t) ==
    /\ reader[t].pc = "lookup"
    /\ reader' = [reader EXCEPT ![t].pc = "wait", ![t].flight = flights[KeyOf(t)]]
    /\ UNCHANGED <<cache, flight, source, floor>>

\* A miss, or an entry that has expired.
Join(t) ==
    /\ reader[t].pc = "lookup"
    /\ flights[KeyOf(t)] # None
    /\ reader' = [reader EXCEPT ![t].pc = "wait", ![t].flight = flights[KeyOf(t)]]
    /\ UNCHANGED <<cache, flight, source, floor>>

Unreferenced(f) ==
    /\ \A k \in Keys : flights[k] # f
    /\ \A t \in Threads : reader[t].flight # f

\* A new flight object: which one makes no difference.
Fresh == CHOOSE f \in Flights : Unreferenced(f)

Lead(t) ==
    /\ reader[t].pc = "lookup"
    /\ flights[KeyOf(t)] = None
    /\ \E f \in Flights :
        /\ f = Fresh /\ Unreferenced(f)
        /\ flight' = [flight EXCEPT ![f] = [Unused EXCEPT !.generation = generation]]
        /\ flights' = [flights EXCEPT ![KeyOf(t)] = f]
        /\ reader' = [reader EXCEPT ![t].pc = "load", ![t].flight = f]
    /\ UNCHANGED <<entries, generation, source, floor>>

Load(t) ==
    /\ reader[t].pc = "load"
    /\ reader' = [reader EXCEPT ![t].pc = "loaded", ![t].value = source[KeyOf(t)]]
    /\ UNCHANGED <<cache, flight, source, floor>>

\* The loader raises, or the copy of what it returned does.
LoadFails(t) ==
    /\ reader[t].pc = "load"
    /\ flight' = [flight EXCEPT ![reader[t].flight].error = TRUE]
    /\ Goto(t, "release")
    /\ UNCHANGED <<cache, source, floor>>

\* A mutant of Store: the generation is not compared.
StoreAlways(t) ==
    /\ reader[t].pc = "loaded"
    /\ flight' = [flight EXCEPT ![reader[t].flight].value = reader[t].value]
    /\ entries' = [entries EXCEPT ![KeyOf(t)] = reader[t].value]
    /\ Goto(t, "release")
    /\ UNCHANGED <<flights, generation, source, floor>>

\* Only a flight that took off after the last clear() leaves an entry.
Store(t) ==
    /\ reader[t].pc = "loaded"
    /\ flight' = [flight EXCEPT ![reader[t].flight].value = reader[t].value]
    /\ entries' = IF FlightOf(t).generation = generation
                  THEN [entries EXCEPT ![KeyOf(t)] = reader[t].value]
                  ELSE entries
    /\ Goto(t, "release")
    /\ UNCHANGED <<flights, generation, source, floor>>

\* A mutant of Release: whatever flight is registered for the key goes.
ReleaseAny(t) ==
    /\ reader[t].pc = "release"
    /\ flights' = [flights EXCEPT ![KeyOf(t)] = None]
    /\ Goto(t, "wake")
    /\ UNCHANGED <<entries, generation, flight, source, floor>>

\* A clear() may have replaced the flight by a later one.
Release(t) ==
    /\ reader[t].pc = "release"
    /\ flights' = IF flights[KeyOf(t)] = reader[t].flight
                  THEN [flights EXCEPT ![KeyOf(t)] = None] ELSE flights
    /\ Goto(t, "wake")
    /\ UNCHANGED <<entries, generation, flight, source, floor>>

\* A mutant of Wake: a leader whose load failed forgets the waiting threads.
WakeOnSuccess(t) ==
    /\ reader[t].pc = "wake"
    /\ flight' = Leave(t, [flight EXCEPT ![reader[t].flight].event = ~FlightOf(t).error])
    /\ IF FlightOf(t).error THEN Raise(t) ELSE Return(t, reader[t].value)
    /\ UNCHANGED <<cache, source, floor>>

Wake(t) ==
    /\ reader[t].pc = "wake"
    /\ flight' = Leave(t, [flight EXCEPT ![reader[t].flight].event = TRUE])
    /\ IF FlightOf(t).error THEN Raise(t) ELSE Return(t, reader[t].value)
    /\ UNCHANGED <<cache, source, floor>>

Resume(t) ==
    /\ reader[t].pc = "wait"
    /\ FlightOf(t).event
    /\ flight' = Leave(t, flight)
    /\ IF FlightOf(t).error THEN Raise(t) ELSE Return(t, FlightOf(t).value)
    /\ UNCHANGED <<cache, source, floor>>

-----------------------------------------------------------------------------
(* clear(), and the source                                                 *)

Clear ==
    /\ generation < MaxGeneration
    /\ generation' = generation + 1
    /\ entries' = [k \in Keys |-> None]
    /\ flights' = [k \in Keys |-> None]
    /\ floor' = source
    /\ UNCHANGED <<flight, reader, source>>

Update(k) ==
    /\ source[k] < MaxVersion
    /\ source' = [source EXCEPT ![k] = @ + 1]
    /\ UNCHANGED <<cache, flight, reader, floor>>

Init ==
    /\ entries = [k \in Keys |-> None]
    /\ flights = [k \in Keys |-> None]
    /\ generation = 0
    /\ flight = [f \in Flights |-> Unused]
    /\ reader = [t \in Threads |-> Idle]
    /\ source = [k \in Keys |-> 0]
    /\ floor = [k \in Keys |-> 0]

\* What a thread inside get() does next.
Step(t) ==
    \/ Direct(t) \/ Hit(t) \/ Join(t) \/ Lead(t)
    \/ Load(t) \/ LoadFails(t) \/ Store(t) \/ Release(t) \/ Wake(t)
    \/ Resume(t)

Next ==
    \/ \E t \in Threads : Step(t) \/ \E k \in Keys : Call(t, k)
    \/ Clear
    \/ \E k \in Keys : Update(k)

Spec == Init /\ [][Next]_vars

-----------------------------------------------------------------------------
(* Properties                                                              *)

\* Every variable has the shape the class gives it; whoever leads or waits has
\* a flight to refer to.
TypeOK ==
    /\ entries \in [Keys -> Versions \cup {None}]
    /\ flights \in [Keys -> Flights \cup {None}]
    /\ generation \in 0 .. MaxGeneration
    /\ flight \in [Flights -> Flight]
    /\ reader \in [Threads -> Reader]
    /\ \A t \in Threads :
        /\ reader[t].pc \in Busy => KeyOf(t) # None /\ reader[t].floor # None
        /\ reader[t].pc \in {"wait"} \cup Leading => reader[t].flight # None
        /\ reader[t].pc = "loaded" => reader[t].value # None
    /\ source \in [Keys -> Versions]
    /\ floor \in [Keys -> Versions]

\* Threads that ask for the same key share one load: two loads of a key overlap
\* only when a clear() came between their beginnings.
SingleFlight ==
    \A t, u \in {r \in Threads : reader[r].pc \in {"load", "loaded"}} :
        t # u /\ KeyOf(t) = KeyOf(u) => FlightOf(t).generation # FlightOf(u).generation

\* A waiting thread waits for a flight whose leader is still on its way to
\* wake it, or has done so: nobody waits for a flight that ended in silence.
NobodyForgotten ==
    \A t \in Threads : reader[t].pc = "wait" =>
        \/ FlightOf(t).event
        \/ \E u \in Threads : reader[u].pc \in Leading /\ reader[u].flight = reader[t].flight

\* The cache keeps what FreshReads promises: a read that begins after clear()
\* never answers with a version older than that clear(), whichever flight it
\* joined, whoever led it and whatever that flight stored later.
Promise == INSTANCE FreshReads WITH
    call <- [t \in Threads |->
                [status |-> IF reader[t].pc \in Busy THEN "busy" ELSE reader[t].pc,
                 key    |-> reader[t].key,
                 floor  |-> reader[t].floor,
                 value  |-> IF reader[t].pc \in Busy THEN None ELSE reader[t].value]]

KeepsPromise == Promise!Init /\ [][Promise!Next]_(Promise!vars)
=============================================================================
