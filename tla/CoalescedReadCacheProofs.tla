----------------------- MODULE CoalescedReadCacheProofs -----------------------
(***************************************************************************)
(* CoalescedReadCache keeps the promise of FreshReads, for any number of   *)
(* threads, keys, versions and calls of clear().                           *)
(***************************************************************************)
EXTENDS CoalescedReadCache, TLAPS

\* A leader that has a value to hand out: loaded, or stored in its flight.
HasValue(u) ==
    \/ reader[u].pc = "loaded"
    \/ reader[u].pc \in {"release", "wake"} /\ ~FlightOf(u).error

Shares(t, u) == reader[t].pc = "wait" /\ reader[u].pc \in Leading
                /\ reader[t].flight = reader[u].flight

\* Floors lie below what can be answered.
Floors ==
    /\ \A k \in Keys : floor[k] <= source[k]
    /\ \A k \in Keys : entries[k] # None => floor[k] <= entries[k] /\ entries[k] <= source[k]
    /\ \A t \in Threads : reader[t].pc \in Busy => reader[t].floor <= floor[KeyOf(t)]

\* The flights in the table are of this generation and have a leader.
Registered ==
    /\ \A f \in Flights : flight[f].generation <= generation
    /\ \A k \in Keys : flights[k] # None =>
        /\ flight[flights[k]].generation = generation
        /\ \E u \in Threads : /\ reader[u].pc \in Leading \ {"wake"}
                              /\ reader[u].flight = flights[k] /\ KeyOf(u) = k
    /\ \A u \in Threads :
        /\ reader[u].pc \in Leading \ {"wake"} /\ FlightOf(u).generation = generation
        => flights[KeyOf(u)] = reader[u].flight

\* A flight has one leader, and its event is set when that one is gone.
Led ==
    /\ \A t, u \in Threads :
        reader[t].pc \in Leading /\ reader[u].pc \in Leading
        /\ reader[t].flight = reader[u].flight => t = u
    /\ \A u \in Threads : reader[u].pc \in Leading => ~FlightOf(u).event

\* What a leader loaded is fresh enough for itself and for whoever waits, and
\* for everybody who may still find it when no clear() came between.
Loaded ==
    /\ \A u \in Threads : HasValue(u) =>
        /\ reader[u].value # None
        /\ reader[u].floor <= reader[u].value /\ reader[u].value <= source[KeyOf(u)]
        /\ FlightOf(u).generation = generation => floor[KeyOf(u)] <= reader[u].value
        /\ reader[u].pc # "loaded" => FlightOf(u).value = reader[u].value
    /\ \A t, u \in Threads : Shares(t, u) =>
        /\ KeyOf(t) = KeyOf(u)
        /\ HasValue(u) => reader[t].floor <= reader[u].value

\* What a landed flight brings to those who wait for it.
Landed ==
    \A t \in Threads : reader[t].pc = "wait" /\ FlightOf(t).event /\ ~FlightOf(t).error =>
        /\ FlightOf(t).value # None
        /\ reader[t].floor <= FlightOf(t).value /\ FlightOf(t).value <= source[KeyOf(t)]

IInv == TypeOK /\ Floors /\ Registered /\ Led /\ Loaded /\ Landed /\ NobodyForgotten /\ SingleFlight

-----------------------------------------------------------------------------
(* Types                                                                   *)

\* What a thread inside get() refers to exists.
LEMMA ThreadShape == ASSUME TypeOK, NEW t \in Threads PROVE
    /\ reader[t].pc \in Busy => KeyOf(t) \in Keys /\ reader[t].floor \in Versions
    /\ reader[t].pc \in {"wait"} \cup Leading =>
        reader[t].flight \in Flights /\ FlightOf(t) \in Flight
    /\ reader[t].pc = "loaded" => reader[t].value \in Versions
<1>1. reader[t] \in Reader
  BY DEF TypeOK
<1>2. reader[t].pc \in {"wait"} \cup Leading => reader[t].flight \in Flights
  BY <1>1 DEF TypeOK, Reader
<1> QED
  BY <1>1, <1>2 DEF TypeOK, Reader, KeyOf, FlightOf

\* The part of TypeOK that is about threads.
ReadersOK ==
    /\ reader \in [Threads -> Reader]
    /\ \A t \in Threads :
        /\ reader[t].pc \in Busy => KeyOf(t) # None /\ reader[t].floor # None
        /\ reader[t].pc \in {"wait"} \cup Leading => reader[t].flight # None
        /\ reader[t].pc = "loaded" => reader[t].value # None

\* A thread that returns a version has the shape of one that returned.
LEMMA ReturnShape ==
    ASSUME TypeOK, NEW t \in Threads, NEW v \in Versions \cup {None}, Return(t, v)
    PROVE  ReadersOK'
<1> DEFINE r == Outside("returned", v)
<1>1. reader' = [reader EXCEPT ![t] = r]
  BY DEF Return
<1>2. r \in Reader /\ r.pc = "returned"
  BY DEF Reader, Outside
<1>3. reader' \in [Threads -> Reader] /\ \A u \in Threads : reader'[u] = IF u = t THEN r ELSE reader[u]
  BY <1>1, <1>2 DEF TypeOK
<1> QED
  <2>1. ASSUME NEW u \in Threads, u # t PROVE reader'[u] = reader[u]
    BY <1>3, <2>1
  <2>2. reader'[t].pc = "returned" /\ reader'[t].pc \notin {"wait"} \cup Leading \cup Busy
    BY <1>2, <1>3 DEF Busy, Leading
  <2> QED
    BY <1>3, <2>1, <2>2 DEF TypeOK, ReadersOK, KeyOf

\* A thread whose load failed is as good as new.
LEMMA RaiseShape == ASSUME TypeOK, NEW t \in Threads, Raise(t) PROVE ReadersOK'
  BY DEF Raise, Idle, Outside, TypeOK, ReadersOK, Reader, Busy, Leading, KeyOf

\* Leaving a flight keeps the flight objects what they are.
LEMMA LeaveShape == ASSUME NEW t, NEW fl \in [Flights -> Flight]
                    PROVE  Leave(t, fl) \in [Flights -> Flight]
<1>1. Unused \in Flight
  BY CacheAssumption DEF Unused, Flight
<1> QED
  BY <1>1 DEF Leave

\* What the shape of the shared variables is.
SharedOK ==
    /\ entries \in [Keys -> Versions \cup {None}]
    /\ flights \in [Keys -> Flights \cup {None}]
    /\ generation \in 0 .. MaxGeneration
    /\ flight \in [Flights -> Flight]
    /\ source \in [Keys -> Versions]
    /\ floor \in [Keys -> Versions]

\* Every step keeps the shape of the state.
LEMMA TypeStep == TypeOK /\ [Next]_vars => TypeOK'
<1> SUFFICES ASSUME TypeOK, [Next]_vars PROVE TypeOK'
  OBVIOUS
<1> USE CacheAssumption
<1>0. /\ (ReadersOK' /\ SharedOK' => TypeOK')
      /\ ReadersOK /\ SharedOK
  BY DEF TypeOK, ReadersOK, SharedOK
<1>1. ASSUME NEW t \in Threads, NEW k \in Keys, Call(t, k) PROVE TypeOK'
  BY <1>1 DEF Call, cache, KeyOf, FlightOf, Busy, Leading, TypeOK, Reader, Flight, Versions
<1>2. ASSUME NEW t \in Threads, Direct(t) PROVE TypeOK'
  <2>1. source[KeyOf(t)] \in Versions
    BY <1>2, ThreadShape DEF Direct, Busy, TypeOK
  <2>2. ReadersOK'
    BY <1>2, <2>1, ReturnShape, RaiseShape DEF Direct
  <2> QED
    BY <1>0, <1>2, <2>2 DEF Direct, SharedOK, cache
<1>3. ASSUME NEW t \in Threads, Hit(t) PROVE TypeOK'
  BY <1>3 DEF Hit, Return, Outside, cache, KeyOf, FlightOf, Busy, Leading, TypeOK, Reader, Flight, Versions
<1>4. ASSUME NEW t \in Threads, Join(t) PROVE TypeOK'
  BY <1>4, ZenonT(60) DEF Join, cache, KeyOf, FlightOf, Busy, Leading, TypeOK, Reader, Flight, Versions
<1>5. ASSUME NEW t \in Threads, Lead(t) PROVE TypeOK'
  BY <1>5 DEF Lead, Unreferenced, Unused, cache, KeyOf, FlightOf, Busy, Leading, TypeOK, Reader, Flight, Versions
<1>6. ASSUME NEW t \in Threads, Load(t) PROVE TypeOK'
  <2>1. source[KeyOf(t)] \in Versions /\ source[KeyOf(t)] # None
    BY <1>6, ThreadShape DEF Load, Busy, Leading, TypeOK, Versions
  <2>2. ReadersOK'
    BY <1>6, <2>1, ZenonT(60) DEF Load, TypeOK, ReadersOK, Reader, Busy, Leading, KeyOf
  <2> QED
    BY <1>0, <1>6, <2>2 DEF Load, SharedOK, cache
<1>7. ASSUME NEW t \in Threads, LoadFails(t) PROVE TypeOK'
  <2>1. reader[t].flight \in Flights /\ FlightOf(t) \in Flight
    BY <1>7, ThreadShape DEF LoadFails, Leading
  <2>2. flight' \in [Flights -> Flight]
    BY <1>0, <1>7, <2>1 DEF LoadFails, SharedOK, FlightOf, Flight
  <2>3. ReadersOK'
    BY <1>7 DEF LoadFails, Goto, TypeOK, ReadersOK, Reader, Busy, Leading, KeyOf
  <2> QED
    BY <1>0, <1>7, <2>2, <2>3 DEF LoadFails, SharedOK, cache
<1>8. ASSUME NEW t \in Threads, Store(t) PROVE TypeOK'
  <2>1. /\ reader[t].flight \in Flights /\ FlightOf(t) \in Flight
        /\ reader[t].value \in Versions /\ KeyOf(t) \in Keys
    BY <1>8, ThreadShape DEF Store, Leading, Busy
  <2>2. flight' \in [Flights -> Flight]
    BY <1>0, <1>8, <2>1 DEF Store, SharedOK, FlightOf, Flight
  <2>3. entries' \in [Keys -> Versions \cup {None}]
    BY <1>0, <1>8, <2>1 DEF Store, SharedOK
  <2>4. ReadersOK'
    BY <1>8 DEF Store, Goto, TypeOK, ReadersOK, Reader, Busy, Leading, KeyOf
  <2> QED
    BY <1>0, <1>8, <2>2, <2>3, <2>4 DEF Store, SharedOK
<1>9. ASSUME NEW t \in Threads, Release(t) PROVE TypeOK'
  BY <1>9, SMTT(30) DEF Release, Goto, cache, KeyOf, FlightOf, Busy, Leading, TypeOK, Reader, Flight, Versions
<1>10. ASSUME NEW t \in Threads, Wake(t) PROVE TypeOK'
  <2>1. [flight EXCEPT ![reader[t].flight].event = TRUE] \in [Flights -> Flight]
    BY <1>0, <1>10, ThreadShape DEF Wake, Leading, SharedOK, FlightOf, Flight
  <2>2. flight' \in [Flights -> Flight]
    BY <1>10, <2>1, LeaveShape DEF Wake
  <2>3. ReadersOK'
    BY <1>0, <1>10, ReturnShape, RaiseShape DEF Wake, ReadersOK, Reader
  <2> QED
    BY <1>0, <1>10, <2>2, <2>3 DEF Wake, SharedOK, cache
<1>11. ASSUME NEW t \in Threads, Resume(t) PROVE TypeOK'
  <2>2. flight' \in [Flights -> Flight]
    BY <1>0, <1>11, LeaveShape DEF Resume, SharedOK
  <2>3. ReadersOK'
    BY <1>11, ReturnShape, RaiseShape, ThreadShape DEF Resume, Flight
  <2> QED
    BY <1>0, <1>11, <2>2, <2>3 DEF Resume, SharedOK, cache
<1>12. CASE Clear
  BY <1>12 DEF Clear, cache, KeyOf, FlightOf, Busy, Leading, TypeOK, Reader, Flight, Versions
<1>13. ASSUME NEW k \in Keys, Update(k) PROVE TypeOK'
  BY <1>13 DEF Update, cache, KeyOf, FlightOf, Busy, Leading, TypeOK, Reader, Flight, Versions
<1>14. CASE UNCHANGED vars
  BY <1>14 DEF vars, cache, KeyOf, FlightOf, Busy, Leading, TypeOK, Reader, Flight, Versions
<1> QED
  BY <1>1, <1>2, <1>3, <1>4, <1>5, <1>6, <1>7, <1>8, <1>9, <1>10, <1>11, <1>12, <1>13, <1>14 DEF Next, Step

-----------------------------------------------------------------------------
(* The inductive invariant                                                 *)

\* TypeOK as the provers use it: what the state and every thread are made of.
Shape ==
    /\ generation \in Nat
    /\ \A k \in Keys : source[k] \in Nat /\ floor[k] \in Nat
    /\ \A k \in Keys : entries[k] # None => entries[k] \in Nat
    /\ \A k \in Keys : flights[k] # None => flights[k] \in Flights
    /\ \A f \in Flights : flight[f].generation \in Nat
    /\ \A f \in Flights : flight[f].value # None => flight[f].value \in Nat
    /\ \A t \in Threads : reader[t].pc \in Busy => KeyOf(t) \in Keys /\ reader[t].floor \in Nat
    /\ \A t \in Threads : reader[t].pc = "wait" \/ reader[t].pc \in Leading => reader[t].flight \in Flights
    /\ \A t \in Threads : reader[t].value # None => reader[t].value \in Nat
    /\ \A t \in Threads : reader[t].pc = "loaded" => reader[t].value # None

\* Types give the shape that the later steps rely on.
LEMMA TypeShape == TypeOK => Shape
<1> SUFFICES ASSUME TypeOK PROVE Shape
  OBVIOUS
<1> QED
  BY ThreadShape, CacheAssumption DEF TypeOK, Shape, Versions, Reader, Flight, Busy, Leading, KeyOf

\* What leaving a flight does to the flight objects when every thread that
\* refers to the flight goes on finding it.
LEMMA LeaveEffect ==
    ASSUME NEW t \in Threads, NEW fl \in [Flights -> Flight], NEW f \in Flights
    PROVE  /\ f # reader[t].flight => Leave(t, fl)[f] = fl[f]
           /\ Leave(t, fl)[f] = fl[f] \/ Leave(t, fl)[f] = Unused
           /\ (\E u \in Threads : u # t /\ reader[u].flight = f) => Leave(t, fl)[f] = fl[f]
<1>1. Unused \in Flight
  BY CacheAssumption DEF Unused, Flight
<1> QED
  BY <1>1 DEF Leave

\* What a leader does when it wakes the threads that wait.
LEMMA WakeEffect == ASSUME TypeOK, NEW t \in Threads, Wake(t) PROVE
    /\ reader'[t].pc \in {"idle", "returned"}
    /\ \A u \in Threads : u # t => reader'[u] = reader[u]
    /\ reader[t].flight \in Flights
    /\ \A f \in Flights : f # reader[t].flight => flight'[f] = flight[f]
    /\ \A f \in Flights : flight'[f].generation <= flight[f].generation
    /\ \A u \in Threads : u # t /\ reader[u].flight = reader[t].flight =>
        /\ flight'[reader[t].flight].event
        /\ flight'[reader[t].flight].error = flight[reader[t].flight].error
        /\ flight'[reader[t].flight].value = flight[reader[t].flight].value
    /\ reader[t].pc = "wake" /\ UNCHANGED <<entries, flights, generation, source, floor>>
<1> DEFINE woken == [flight EXCEPT ![reader[t].flight].event = TRUE]
<1>1. reader[t].flight \in Flights /\ woken \in [Flights -> Flight]
  BY ThreadShape DEF Wake, Leading, TypeOK, FlightOf, Flight
<1>2. flight' = Leave(t, woken)
  BY DEF Wake
<1>3. /\ reader'[t].pc \in {"idle", "returned"}
      /\ \A u \in Threads : u # t => reader'[u] = reader[u]
  BY DEF Wake, Return, Raise, Idle, Outside, TypeOK
<1>4. \A f \in Flights : f # reader[t].flight => flight'[f] = flight[f]
  BY <1>1, <1>2, LeaveEffect DEF TypeOK
<1>5. \A f \in Flights : flight'[f].generation <= flight[f].generation
  <2>1. \A f \in Flights : woken[f].generation = flight[f].generation /\ flight[f].generation \in Nat
    BY <1>1, CacheAssumption DEF TypeOK, Flight
  <2>2. \A f \in Flights : flight'[f] = woken[f] \/ flight'[f] = Unused
    BY <1>1, <1>2, LeaveEffect
  <2> HIDE DEF woken
  <2> QED
    BY <2>1, <2>2 DEF Unused
<1>6. ASSUME NEW u \in Threads, u # t, reader[u].flight = reader[t].flight
      PROVE  /\ flight'[reader[t].flight].event
             /\ flight'[reader[t].flight].error = flight[reader[t].flight].error
             /\ flight'[reader[t].flight].value = flight[reader[t].flight].value
  <2>0. \E v \in Threads : v # t /\ reader[v].flight = reader[t].flight
    BY <1>6
  <2>1. flight'[reader[t].flight] = woken[reader[t].flight]
    <3> HIDE DEF woken
    <3> QED  BY <1>1, <1>2, <2>0, LeaveEffect
  <2>2. flight[reader[t].flight] \in Flight
    BY <1>1 DEF TypeOK
  <2> QED
    BY <1>1, <2>1, <2>2 DEF TypeOK, Flight
<1>7. reader[t].pc = "wake" /\ UNCHANGED <<entries, flights, generation, source, floor>>
  BY DEF Wake, cache
<1> QED
  BY <1>1, <1>3, <1>4, <1>5, <1>6, <1>7

\* What a waiting thread does when it goes on.
LEMMA ResumeEffect == ASSUME TypeOK, NEW t \in Threads, Resume(t) PROVE
    /\ reader'[t].pc \in {"idle", "returned"}
    /\ \A u \in Threads : u # t => reader'[u] = reader[u]
    /\ \A u \in Threads : u # t /\ reader[u].flight \in Flights =>
        flight'[reader[u].flight] = flight[reader[u].flight]
  BY LeaveEffect DEF Resume, Return, Raise, Idle, Outside, TypeOK


\* Every step keeps Floors.
LEMMA FloorsStep == IInv /\ Shape /\ Shape' /\ [Next]_vars => Floors'
<1> SUFFICES ASSUME IInv, Shape, Shape', [Next]_vars PROVE Floors'
  OBVIOUS
<1> USE DEF IInv, Shape, cache, KeyOf, FlightOf, Busy, Leading, HasValue, Shares, Floors
<1>1. ASSUME NEW t \in Threads, NEW k \in Keys, Call(t, k) PROVE Floors'
  BY <1>1 DEF Call
<1>2. ASSUME NEW t \in Threads, Direct(t) PROVE Floors'
  BY <1>2 DEF Direct, Return, Raise, Idle, Outside, TypeOK
<1>3. ASSUME NEW t \in Threads, Hit(t) PROVE Floors'
  BY <1>3 DEF Hit, Return, Outside
<1>4. ASSUME NEW t \in Threads, Join(t) PROVE Floors'
  BY <1>4 DEF Join, TypeOK
<1>5. ASSUME NEW t \in Threads, Lead(t) PROVE Floors'
  BY <1>5 DEF Lead, Unreferenced, Unused, TypeOK
<1>6. ASSUME NEW t \in Threads, Load(t) PROVE Floors'
  BY <1>6 DEF Load, TypeOK
<1>7. ASSUME NEW t \in Threads, LoadFails(t) PROVE Floors'
  BY <1>7 DEF LoadFails, Goto
<1>8. ASSUME NEW t \in Threads, Store(t) PROVE Floors'
  BY <1>8 DEF Store, Goto, Loaded
<1>9. ASSUME NEW t \in Threads, Release(t) PROVE Floors'
  BY <1>9 DEF Release, Goto
<1>10. ASSUME NEW t \in Threads, Wake(t) PROVE Floors'
  BY <1>10, SMTT(30) DEF Wake, Return, Raise, Idle, Outside, Leave, Unused, TypeOK
<1>11. ASSUME NEW t \in Threads, Resume(t) PROVE Floors'
  BY <1>11 DEF Resume, Return, Raise, Idle, Outside, Leave, Unused, TypeOK
<1>12. CASE Clear
  BY <1>12 DEF Clear
<1>13. ASSUME NEW k \in Keys, Update(k) PROVE Floors'
  BY <1>13 DEF Update
<1>14. CASE UNCHANGED vars
  BY <1>14 DEF vars
<1> QED
  BY <1>1, <1>2, <1>3, <1>4, <1>5, <1>6, <1>7, <1>8, <1>9, <1>10, <1>11, <1>12, <1>13, <1>14 DEF Next, Step

\* Every step keeps Registered.
LEMMA RegisteredStep == IInv /\ Shape /\ Shape' /\ [Next]_vars => Registered'
<1> SUFFICES ASSUME IInv, Shape, Shape', [Next]_vars PROVE Registered'
  OBVIOUS
<1> USE DEF IInv, Shape, cache, KeyOf, FlightOf, Busy, Leading, HasValue, Shares, Registered
<1>1. ASSUME NEW t \in Threads, NEW k \in Keys, Call(t, k) PROVE Registered'
  BY <1>1 DEF Call
<1>2. ASSUME NEW t \in Threads, Direct(t) PROVE Registered'
  BY <1>2 DEF Direct, Return, Raise, Idle, Outside, TypeOK, Landed
<1>3. ASSUME NEW t \in Threads, Hit(t) PROVE Registered'
  BY <1>3 DEF Hit, Return, Outside
<1>4. ASSUME NEW t \in Threads, Join(t) PROVE Registered'
  BY <1>4, SMTT(30) DEF Join, TypeOK
<1>5. ASSUME NEW t \in Threads, Lead(t) PROVE Registered'
  BY <1>5, SMTT(30) DEF Lead, Unreferenced, Unused, TypeOK, Floors
<1>6. ASSUME NEW t \in Threads, Load(t) PROVE Registered'
  BY <1>6 DEF Load, TypeOK
<1>7. ASSUME NEW t \in Threads, LoadFails(t) PROVE Registered'
  BY <1>7 DEF LoadFails, Goto
<1>8. ASSUME NEW t \in Threads, Store(t) PROVE Registered'
  BY <1>8 DEF Store, Goto
<1>9. ASSUME NEW t \in Threads, Release(t) PROVE Registered'
  BY <1>9 DEF Release, Goto, TypeOK, Led
<1>10. ASSUME NEW t \in Threads, Wake(t) PROVE Registered'
  BY <1>10, WakeEffect DEF Led
<1>11. ASSUME NEW t \in Threads, Resume(t) PROVE Registered'
  BY <1>11 DEF Resume, Return, Raise, Idle, Outside, Leave, Unused, TypeOK, Landed
<1>12. CASE Clear
  BY <1>12 DEF Clear
<1>13. ASSUME NEW k \in Keys, Update(k) PROVE Registered'
  BY <1>13 DEF Update
<1>14. CASE UNCHANGED vars
  BY <1>14 DEF vars
<1> QED
  BY <1>1, <1>2, <1>3, <1>4, <1>5, <1>6, <1>7, <1>8, <1>9, <1>10, <1>11, <1>12, <1>13, <1>14 DEF Next, Step

\* Every step keeps Led.
LEMMA LedStep == IInv /\ Shape /\ Shape' /\ [Next]_vars => Led'
<1> SUFFICES ASSUME IInv, Shape, Shape', [Next]_vars PROVE Led'
  OBVIOUS
<1> USE DEF IInv, Shape, cache, KeyOf, FlightOf, Busy, Leading, HasValue, Shares, Led
<1>1. ASSUME NEW t \in Threads, NEW k \in Keys, Call(t, k) PROVE Led'
  BY <1>1 DEF Call
<1>2. ASSUME NEW t \in Threads, Direct(t) PROVE Led'
  BY <1>2 DEF Direct, Return, Raise, Idle, Outside, TypeOK
<1>3. ASSUME NEW t \in Threads, Hit(t) PROVE Led'
  BY <1>3 DEF Hit, Return, Outside
<1>4. ASSUME NEW t \in Threads, Join(t) PROVE Led'
  BY <1>4 DEF Join, TypeOK
<1>5. ASSUME NEW t \in Threads, Lead(t) PROVE Led'
  BY <1>5 DEF Lead, Unreferenced, Unused, TypeOK
<1>6. ASSUME NEW t \in Threads, Load(t) PROVE Led'
  BY <1>6 DEF Load, TypeOK
<1>7. ASSUME NEW t \in Threads, LoadFails(t) PROVE Led'
  BY <1>7 DEF LoadFails, Goto
<1>8. ASSUME NEW t \in Threads, Store(t) PROVE Led'
  BY <1>8 DEF Store, Goto
<1>9. ASSUME NEW t \in Threads, Release(t) PROVE Led'
  BY <1>9 DEF Release, Goto
<1>10. ASSUME NEW t \in Threads, Wake(t) PROVE Led'
  BY <1>10, WakeEffect DEF NobodyForgotten
<1>11. ASSUME NEW t \in Threads, Resume(t) PROVE Led'
  BY <1>11 DEF Resume, Return, Raise, Idle, Outside, Leave, Unused, TypeOK
<1>12. CASE Clear
  BY <1>12 DEF Clear
<1>13. ASSUME NEW k \in Keys, Update(k) PROVE Led'
  BY <1>13 DEF Update
<1>14. CASE UNCHANGED vars
  BY <1>14 DEF vars
<1> QED
  BY <1>1, <1>2, <1>3, <1>4, <1>5, <1>6, <1>7, <1>8, <1>9, <1>10, <1>11, <1>12, <1>13, <1>14 DEF Next, Step

\* Every step keeps Loaded.
LEMMA LoadedStep == IInv /\ Shape /\ Shape' /\ [Next]_vars => Loaded'
<1> SUFFICES ASSUME IInv, Shape, Shape', [Next]_vars PROVE Loaded'
  OBVIOUS
<1> USE DEF IInv, Shape, cache, KeyOf, FlightOf, Busy, Leading, HasValue, Shares, Loaded
<1>1. ASSUME NEW t \in Threads, NEW k \in Keys, Call(t, k) PROVE Loaded'
  BY <1>1 DEF Call
<1>2. ASSUME NEW t \in Threads, Direct(t) PROVE Loaded'
  BY <1>2 DEF Direct, Return, Raise, Idle, Outside, TypeOK
<1>3. ASSUME NEW t \in Threads, Hit(t) PROVE Loaded'
  BY <1>3 DEF Hit, Return, Outside
<1>4. ASSUME NEW t \in Threads, Join(t) PROVE Loaded'
  BY <1>4, SMTT(30) DEF Join, TypeOK, Floors, Registered, Led, Landed
<1>5. ASSUME NEW t \in Threads, Lead(t) PROVE Loaded'
  BY <1>5, SMTT(30) DEF Lead, Unreferenced, Unused, TypeOK, SingleFlight
<1>6. ASSUME NEW t \in Threads, Load(t) PROVE Loaded'
  BY <1>6, SMTT(30) DEF Load, TypeOK, Floors
<1>7. ASSUME NEW t \in Threads, LoadFails(t) PROVE Loaded'
  BY <1>7 DEF LoadFails, Goto, TypeOK
<1>8. ASSUME NEW t \in Threads, Store(t) PROVE Loaded'
  BY <1>8 DEF Store, Goto, TypeOK, Led
<1>9. ASSUME NEW t \in Threads, Release(t) PROVE Loaded'
  BY <1>9 DEF Release, Goto
<1>10. ASSUME NEW t \in Threads, Wake(t) PROVE Loaded'
  BY <1>10, WakeEffect DEF Led
<1>11. ASSUME NEW t \in Threads, Resume(t) PROVE Loaded'
  BY <1>11, ResumeEffect DEF Resume
<1>12. CASE Clear
  BY <1>12 DEF Clear, Registered
<1>13. ASSUME NEW k \in Keys, Update(k) PROVE Loaded'
  BY <1>13 DEF Update
<1>14. CASE UNCHANGED vars
  BY <1>14 DEF vars
<1> QED
  BY <1>1, <1>2, <1>3, <1>4, <1>5, <1>6, <1>7, <1>8, <1>9, <1>10, <1>11, <1>12, <1>13, <1>14 DEF Next, Step

\* Every step keeps Landed.
LEMMA LandedStep == IInv /\ Shape /\ Shape' /\ [Next]_vars => Landed'
<1> SUFFICES ASSUME IInv, Shape, Shape', [Next]_vars PROVE Landed'
  OBVIOUS
<1> USE DEF IInv, Shape, cache, KeyOf, FlightOf, Busy, Leading, HasValue, Shares, Landed
<1>1. ASSUME NEW t \in Threads, NEW k \in Keys, Call(t, k) PROVE Landed'
  BY <1>1 DEF Call
<1>2. ASSUME NEW t \in Threads, Direct(t) PROVE Landed'
  BY <1>2 DEF Direct, Return, Raise, Idle, Outside, TypeOK
<1>3. ASSUME NEW t \in Threads, Hit(t) PROVE Landed'
  BY <1>3 DEF Hit, Return, Outside
<1>4. ASSUME NEW t \in Threads, Join(t) PROVE Landed'
  BY <1>4 DEF Join, TypeOK, Registered, Led
<1>5. ASSUME NEW t \in Threads, Lead(t) PROVE Landed'
  BY <1>5 DEF Lead, Unreferenced, Unused, TypeOK
<1>6. ASSUME NEW t \in Threads, Load(t) PROVE Landed'
  BY <1>6 DEF Load, TypeOK
<1>7. ASSUME NEW t \in Threads, LoadFails(t) PROVE Landed'
  BY <1>7 DEF LoadFails, Goto
<1>8. ASSUME NEW t \in Threads, Store(t) PROVE Landed'
  BY <1>8 DEF Store, Goto, Loaded
<1>9. ASSUME NEW t \in Threads, Release(t) PROVE Landed'
  BY <1>9 DEF Release, Goto
<1>10. ASSUME NEW t \in Threads, Wake(t) PROVE Landed'
  BY <1>10, SMTT(30) DEF Wake, Return, Raise, Idle, Outside, Leave, Unused, TypeOK, Loaded
<1>11. ASSUME NEW t \in Threads, Resume(t) PROVE Landed'
  BY <1>11 DEF Resume, Return, Raise, Idle, Outside, Leave, Unused, TypeOK
<1>12. CASE Clear
  BY <1>12 DEF Clear
<1>13. ASSUME NEW k \in Keys, Update(k) PROVE Landed'
  BY <1>13 DEF Update
<1>14. CASE UNCHANGED vars
  BY <1>14 DEF vars
<1> QED
  BY <1>1, <1>2, <1>3, <1>4, <1>5, <1>6, <1>7, <1>8, <1>9, <1>10, <1>11, <1>12, <1>13, <1>14 DEF Next, Step

\* Every step keeps NobodyForgotten.
LEMMA NobodyForgottenStep == IInv /\ Shape /\ Shape' /\ [Next]_vars => NobodyForgotten'
<1> SUFFICES ASSUME IInv, Shape, Shape', [Next]_vars PROVE NobodyForgotten'
  OBVIOUS
<1> USE DEF IInv, Shape, cache, KeyOf, FlightOf, Busy, Leading, HasValue, Shares, NobodyForgotten
<1>1. ASSUME NEW t \in Threads, NEW k \in Keys, Call(t, k) PROVE NobodyForgotten'
  BY <1>1 DEF Call
<1>2. ASSUME NEW t \in Threads, Direct(t) PROVE NobodyForgotten'
  BY <1>2 DEF Direct, Return, Raise, Idle, Outside, TypeOK, Registered
<1>3. ASSUME NEW t \in Threads, Hit(t) PROVE NobodyForgotten'
  BY <1>3 DEF Hit, Return, Outside
<1>4. ASSUME NEW t \in Threads, Join(t) PROVE NobodyForgotten'
  BY <1>4, SMTT(30) DEF Join, TypeOK, Registered
<1>5. ASSUME NEW t \in Threads, Lead(t) PROVE NobodyForgotten'
  BY <1>5 DEF Lead, Unreferenced, Unused, TypeOK, Floors, Landed
<1>6. ASSUME NEW t \in Threads, Load(t) PROVE NobodyForgotten'
  BY <1>6 DEF Load, TypeOK
<1>7. ASSUME NEW t \in Threads, LoadFails(t) PROVE NobodyForgotten'
  BY <1>7 DEF LoadFails, Goto
<1>8. ASSUME NEW t \in Threads, Store(t) PROVE NobodyForgotten'
  BY <1>8 DEF Store, Goto
<1>9. ASSUME NEW t \in Threads, Release(t) PROVE NobodyForgotten'
  BY <1>9 DEF Release, Goto
<1>10. ASSUME NEW t \in Threads, Wake(t) PROVE NobodyForgotten'
  BY <1>10, WakeEffect DEF NobodyForgotten
<1>11. ASSUME NEW t \in Threads, Resume(t) PROVE NobodyForgotten'
  BY <1>11, SMTT(30) DEF Resume, Return, Raise, Idle, Outside, Leave, Unused, TypeOK
<1>12. CASE Clear
  BY <1>12 DEF Clear
<1>13. ASSUME NEW k \in Keys, Update(k) PROVE NobodyForgotten'
  BY <1>13 DEF Update
<1>14. CASE UNCHANGED vars
  BY <1>14 DEF vars
<1> QED
  BY <1>1, <1>2, <1>3, <1>4, <1>5, <1>6, <1>7, <1>8, <1>9, <1>10, <1>11, <1>12, <1>13, <1>14 DEF Next, Step

\* Every step keeps SingleFlight.
LEMMA SingleFlightStep == IInv /\ Shape /\ Shape' /\ [Next]_vars => SingleFlight'
<1> SUFFICES ASSUME IInv, Shape, Shape', [Next]_vars PROVE SingleFlight'
  OBVIOUS
<1> USE DEF IInv, Shape, cache, KeyOf, FlightOf, Busy, Leading, HasValue, Shares, SingleFlight
<1>1. ASSUME NEW t \in Threads, NEW k \in Keys, Call(t, k) PROVE SingleFlight'
  BY <1>1 DEF Call
<1>2. ASSUME NEW t \in Threads, Direct(t) PROVE SingleFlight'
  BY <1>2 DEF Direct, Return, Raise, Idle, Outside, TypeOK
<1>3. ASSUME NEW t \in Threads, Hit(t) PROVE SingleFlight'
  BY <1>3 DEF Hit, Return, Outside
<1>4. ASSUME NEW t \in Threads, Join(t) PROVE SingleFlight'
  BY <1>4 DEF Join, TypeOK
<1>5. ASSUME NEW t \in Threads, Lead(t) PROVE SingleFlight'
  BY <1>5, SMTT(30) DEF Lead, Unreferenced, Unused, TypeOK, Registered
<1>6. ASSUME NEW t \in Threads, Load(t) PROVE SingleFlight'
  BY <1>6 DEF Load, TypeOK
<1>7. ASSUME NEW t \in Threads, LoadFails(t) PROVE SingleFlight'
  BY <1>7 DEF LoadFails, Goto
<1>8. ASSUME NEW t \in Threads, Store(t) PROVE SingleFlight'
  BY <1>8 DEF Store, Goto
<1>9. ASSUME NEW t \in Threads, Release(t) PROVE SingleFlight'
  BY <1>9 DEF Release, Goto
<1>10. ASSUME NEW t \in Threads, Wake(t) PROVE SingleFlight'
  BY <1>10, SMTT(30) DEF Wake, Return, Raise, Idle, Outside, Leave, Unused, TypeOK
<1>11. ASSUME NEW t \in Threads, Resume(t) PROVE SingleFlight'
  BY <1>11 DEF Resume, Return, Raise, Idle, Outside, Leave, Unused, TypeOK
<1>12. CASE Clear
  BY <1>12 DEF Clear
<1>13. ASSUME NEW k \in Keys, Update(k) PROVE SingleFlight'
  BY <1>13 DEF Update
<1>14. CASE UNCHANGED vars
  BY <1>14 DEF vars
<1> QED
  BY <1>1, <1>2, <1>3, <1>4, <1>5, <1>6, <1>7, <1>8, <1>9, <1>10, <1>11, <1>12, <1>13, <1>14 DEF Next, Step

\* The invariant holds in every state.
LEMMA Inductive == Spec => []IInv
<1>1. Init => IInv
  <2> SUFFICES ASSUME Init PROVE IInv
    OBVIOUS
  <2>1. TypeOK
    BY CacheAssumption DEF Init, TypeOK, Versions, Flight, Reader, Unused, Idle, Outside,
                           Busy, Leading
  <2>2. \A t \in Threads : reader[t].pc = "idle"
    BY DEF Init, Idle, Outside
  <2> QED
    BY <2>1, <2>2, CacheAssumption DEF Init, IInv, Floors, Registered, Led, Loaded, Landed,
        NobodyForgotten, SingleFlight, Busy, Leading, HasValue, Shares, Unused
<1>2. IInv /\ [Next]_vars => IInv'
  <2> SUFFICES ASSUME IInv, [Next]_vars PROVE IInv'
    OBVIOUS
  <2>1. TypeOK' /\ Shape /\ Shape'
    BY TypeStep, TypeShape, PTL DEF IInv
  <2> QED
    BY <2>1, FloorsStep, RegisteredStep, LedStep, LoadedStep, LandedStep,
       NobodyForgottenStep, SingleFlightStep DEF IInv
<1> QED
  BY <1>1, <1>2, PTL DEF Spec

-----------------------------------------------------------------------------
(* What follows                                                            *)

\* The state keeps its shape (get() and clear()).
THEOREM TypeCorrect == Spec => []TypeOK
  BY Inductive, PTL DEF IInv

\* Two threads load the same key at the same time only when clear() came
\* between the beginnings of their flights.
THEOREM SingleFlightCorrect == Spec => []SingleFlight
  BY Inductive, PTL DEF IInv

\* Nobody waits for a flight that ended without waking it.
THEOREM NobodyForgottenCorrect == Spec => []NobodyForgotten
  BY Inductive, PTL DEF IInv

-----------------------------------------------------------------------------
(* The refinement                                                          *)

\* The refinement mapping of CoalescedReadCache, one thread at a time.
CallOf(t) == [status |-> IF reader[t].pc \in Busy THEN "busy" ELSE reader[t].pc,
              key    |-> reader[t].key,
              floor  |-> reader[t].floor,
              value  |-> IF reader[t].pc \in Busy THEN None ELSE reader[t].value]

calls == [t \in Threads |-> CallOf(t)]

\* A step that leaves every thread inside or outside get() as it was, with the
\* key and the floor of its call, is not seen outside.
LEMMA Unseen ==
    ASSUME UNCHANGED <<source, floor>>,
           \A t \in Threads : /\ reader'[t].pc \in Busy <=> reader[t].pc \in Busy
                              /\ reader'[t].key = reader[t].key
                              /\ reader'[t].floor = reader[t].floor
                              /\ reader[t].pc \notin Busy => reader'[t] = reader[t]
    PROVE  UNCHANGED (Promise!vars)
<1>1. calls' = calls
  BY DEF calls, CallOf, Busy, Leading
<1> QED
  BY <1>1 DEF Promise!vars, calls, CallOf

\* A thread that leaves get() is seen to leave it, and nothing else is seen.
LEMMA Left ==
    ASSUME NEW t \in Threads, NEW pc \in {"idle", "returned"}, NEW v, TypeOK,
           reader' = [reader EXCEPT ![t] = Outside(pc, v)]
    PROVE  calls' = [calls EXCEPT ![t] = Promise!Outside(pc, v)]
<1>1. /\ reader'[t] = Outside(pc, v)
      /\ \A u \in Threads : u # t => reader'[u] = reader[u]
  BY DEF TypeOK
<1>2. CallOf(t)' = Promise!Outside(pc, v)
  BY <1>1 DEF CallOf, Outside, Promise!Outside, Busy, Leading
<1>3. \A u \in Threads : u # t => CallOf(u)' = CallOf(u)
  BY <1>1 DEF CallOf, Busy, Leading
<1> QED
  BY <1>2, <1>3 DEF calls

\* A thread returns a version between the floor of its call and the source.
LEMMA Answered ==
    ASSUME NEW t \in Threads, NEW v \in Nat, Shape, TypeOK,
           reader[t].pc \in Busy, Return(t, v),
           reader[t].floor <= v, v <= source[KeyOf(t)], UNCHANGED <<source, floor>>
    PROVE  Promise!Next
<1>1. calls' = [calls EXCEPT ![t] = Promise!Outside("returned", v)]
  BY Left DEF Return
<1>2. /\ calls[t].status = "busy" /\ calls[t].floor = reader[t].floor
      /\ calls[t].key = KeyOf(t)
  BY DEF calls, CallOf, KeyOf
<1>3. v \in calls[t].floor .. source[calls[t].key]
  BY <1>2 DEF Shape
<1>4. Promise!Answer(t)
  BY <1>1, <1>2, <1>3 DEF Promise!Answer, calls, CallOf
<1> QED
  BY <1>4 DEF Promise!Next

\* A thread whose load failed raises what the loader raised.
LEMMA Raised ==
    ASSUME NEW t \in Threads, TypeOK, reader[t].pc \in Busy, Raise(t),
           UNCHANGED <<source, floor>>
    PROVE  Promise!Next
<1>1. calls' = [calls EXCEPT ![t] = Promise!Idle]
  BY Left DEF Raise, Idle, Promise!Idle
<1>2. Promise!Raise(t)
  BY <1>1 DEF Promise!Raise, calls, CallOf
<1> QED
  BY <1>2 DEF Promise!Next

\* Every step is a step of FreshReads or one that it does not see.
LEMMA RefinementStep ==
    IInv /\ [Next]_vars => [Promise!Next]_(Promise!vars)
<1> SUFFICES ASSUME IInv, [Next]_vars PROVE [Promise!Next]_(Promise!vars)
  OBVIOUS
<1>0. TypeOK /\ Shape
  BY TypeShape DEF IInv
<1>1. ASSUME NEW t \in Threads, NEW k \in Keys, Call(t, k) PROVE Promise!Next
  <2>1. PICK pc \in {"lookup", "direct"} :
          reader' = [reader EXCEPT ![t] = [pc |-> pc, key |-> k, flight |-> None,
                                           value |-> None, floor |-> floor[k]]]
    BY <1>1 DEF Call
  <2>2. /\ reader'[t].pc = pc /\ reader'[t].key = k /\ reader'[t].floor = floor[k]
        /\ \A u \in Threads : u # t => reader'[u] = reader[u]
    BY <1>0, <2>1 DEF TypeOK
  <2>3. CallOf(t)' = [status |-> "busy", key |-> k, floor |-> floor[k], value |-> None]
    BY <2>2 DEF CallOf, Busy
  <2>4. \A u \in Threads : u # t => CallOf(u)' = CallOf(u)
    BY <2>2 DEF CallOf, Busy, Leading
  <2>5. calls' = [calls EXCEPT ![t] = [status |-> "busy", key |-> k,
                                       floor |-> floor[k], value |-> None]]
    BY <2>3, <2>4 DEF calls
  <2>6. calls[t].status # "busy"
    <3>1. reader[t].pc \in {"idle", "returned"}
      BY <1>0, <1>1 DEF Call, TypeOK, Reader
    <3> QED
      BY <3>1 DEF calls, CallOf, Busy, Leading
  <2>7. Promise!Begin(t, k)
    BY <1>1, <2>5, <2>6 DEF Promise!Begin, calls, CallOf, Call
  <2> QED
    BY <2>7 DEF Promise!Next
<1>2. ASSUME NEW t \in Threads, Direct(t) PROVE Promise!Next
  <2>1. /\ source[KeyOf(t)] \in Nat /\ reader[t].floor <= source[KeyOf(t)]
        /\ reader[t].pc \in Busy
    BY <1>0, <1>2 DEF Direct, IInv, Floors, Shape, Busy
  <2> QED
    BY <1>0, <1>2, <2>1, Answered, Raised DEF Direct
<1>3. ASSUME NEW t \in Threads, Hit(t) PROVE Promise!Next
  <2>1. /\ entries[KeyOf(t)] \in Nat /\ reader[t].pc \in Busy
        /\ reader[t].floor <= entries[KeyOf(t)] /\ entries[KeyOf(t)] <= source[KeyOf(t)]
    BY <1>0, <1>3 DEF Hit, IInv, Floors, Shape, Busy
  <2> QED
    BY <1>0, <1>3, <2>1, Answered DEF Hit
<1>4. ASSUME NEW t \in Threads, Wake(t) PROVE Promise!Next
  <2>1. reader[t].pc \in Busy /\ UNCHANGED <<source, floor>>
    BY <1>4 DEF Wake, Busy, Leading
  <2>2. CASE FlightOf(t).error
    BY <1>0, <1>4, <2>1, <2>2, Raised DEF Wake
  <2>3. CASE ~FlightOf(t).error
    <3>1. /\ reader[t].value \in Nat
          /\ reader[t].floor <= reader[t].value /\ reader[t].value <= source[KeyOf(t)]
      BY <1>0, <1>4, <2>3 DEF Wake, IInv, Loaded, HasValue, Shape
    <3> QED
      BY <1>0, <1>4, <2>1, <2>3, <3>1, Answered DEF Wake
  <2> QED
    BY <2>2, <2>3
<1>5. ASSUME NEW t \in Threads, Resume(t) PROVE Promise!Next
  <2>1. reader[t].pc \in Busy /\ UNCHANGED <<source, floor>>
    BY <1>5 DEF Resume, Busy
  <2>2. CASE FlightOf(t).error
    BY <1>0, <1>5, <2>1, <2>2, Raised DEF Resume
  <2>3. CASE ~FlightOf(t).error
    <3>1. /\ FlightOf(t).value \in Nat
          /\ reader[t].floor <= FlightOf(t).value /\ FlightOf(t).value <= source[KeyOf(t)]
      BY <1>0, <1>5, <2>3 DEF Resume, IInv, Landed, Shape, FlightOf
    <3> QED
      BY <1>0, <1>5, <2>1, <2>3, <3>1, Answered DEF Resume
  <2> QED
    BY <2>2, <2>3
<1>6. ASSUME NEW t \in Threads,
             Join(t) \/ Lead(t) \/ Load(t) \/ LoadFails(t) \/ Store(t) \/ Release(t)
      PROVE  UNCHANGED (Promise!vars)
  <2>1. /\ UNCHANGED <<source, floor>>
        /\ reader[t].pc \in Busy /\ reader'[t].pc \in Busy
        /\ reader'[t].key = reader[t].key /\ reader'[t].floor = reader[t].floor
        /\ \A u \in Threads : u # t => reader'[u] = reader[u]
    <3>1. reader \in [Threads -> Reader]
      BY <1>0 DEF TypeOK
    <3>2. CASE Join(t)      BY <3>1, <3>2 DEF Join, Busy, Leading
    <3>3. CASE Lead(t)      BY <3>1, <3>3 DEF Lead, Busy, Leading
    <3>4. CASE Load(t)      BY <3>1, <3>4 DEF Load, Busy, Leading
    <3>5. CASE LoadFails(t) BY <3>1, <3>5 DEF LoadFails, Goto, Busy, Leading
    <3>6. CASE Store(t)     BY <3>1, <3>6 DEF Store, Goto, Busy, Leading
    <3>7. CASE Release(t)   BY <3>1, <3>7 DEF Release, Goto, Busy, Leading
    <3> QED
      BY <1>6, <3>2, <3>3, <3>4, <3>5, <3>6, <3>7
  <2> QED
    BY <2>1, Unseen
<1>7. CASE Clear
  <2>1. UNCHANGED calls
    BY <1>7 DEF Clear, calls, CallOf
  <2>2. Promise!Clear
    BY <1>7, <2>1 DEF Clear, Promise!Clear, calls, CallOf
  <2> QED
    BY <2>2 DEF Promise!Next
<1>8. ASSUME NEW k \in Keys, Update(k) PROVE Promise!Next
  <2>1. UNCHANGED calls
    BY <1>8 DEF Update, calls, CallOf
  <2>2. Promise!Update(k)
    BY <1>8, <2>1 DEF Update, Promise!Update, calls, CallOf
  <2> QED
    BY <2>2 DEF Promise!Next
<1>9. CASE UNCHANGED vars
  <2>1. UNCHANGED <<source, floor, calls>>
    BY <1>9 DEF vars, calls, CallOf
  <2> QED
    BY <2>1 DEF Promise!vars, calls, CallOf
<1> QED
  BY <1>1, <1>2, <1>3, <1>4, <1>5, <1>6, <1>7, <1>8, <1>9 DEF Next, Step

\* The cache keeps the promise of FreshReads to every caller of get().
THEOREM Refinement == Spec => KeepsPromise
<1>1. Init => Promise!Init
  BY DEF Init, Promise!Init, Promise!Idle, Promise!Outside, Idle, Outside, Busy, Leading
<1> QED
  BY <1>1, RefinementStep, Inductive, PTL DEF Spec, KeepsPromise

-----------------------------------------------------------------------------
(* What the promise of FreshReads means for a call                         *)

\* A call of get() that answers does so with a version no older than the last clear()
\* before it began, and no newer than the source.
AnswersFresh ==
    \A t \in Threads : reader[t].pc \in Busy /\ reader'[t].pc = "returned" =>
        reader'[t].value \in reader[t].floor .. source[reader[t].key]

LEMMA PromiseFresh == ASSUME [Promise!Next]_(Promise!vars) PROVE AnswersFresh
<1> SUFFICES ASSUME NEW t \in Threads, reader[t].pc \in Busy, reader'[t].pc = "returned"
             PROVE  reader'[t].value \in reader[t].floor .. source[reader[t].key]
  BY DEF AnswersFresh
<1>1. /\ CallOf(t).status = "busy" /\ CallOf(t).floor = reader[t].floor
      /\ CallOf(t).key = reader[t].key
      /\ CallOf(t)'.status = "returned" /\ CallOf(t)'.value = reader'[t].value
  BY DEF CallOf, Busy, Leading
<1>2. calls[t] = CallOf(t) /\ calls'[t] = CallOf(t)'
  BY DEF calls
<1>3. ASSUME NEW u \in Threads, Promise!Answer(u)
      PROVE  reader'[t].value \in reader[t].floor .. source[reader[t].key]
  <2>1. PICK v \in calls[u].floor .. source[calls[u].key] :
               calls' = [calls EXCEPT ![u] = Promise!Outside("returned", v)]
    BY <1>3 DEF Promise!Answer, calls, CallOf
  <2>2. u = t
    BY <1>1, <1>2, <2>1
  <2>3. calls'[t] = Promise!Outside("returned", v)
    BY <2>1, <2>2 DEF calls
  <2> QED
    BY <1>1, <1>2, <2>1, <2>2, <2>3 DEF Promise!Outside
<1>4. ASSUME NEW u \in Threads, Promise!Raise(u) \/ \E k \in Keys : Promise!Begin(u, k)
      PROVE  FALSE
  <2>1. \E x : calls' = [calls EXCEPT ![u] = x] /\ x.status # "returned"
    <3>1. CASE Promise!Raise(u)
      <4>1. calls' = [calls EXCEPT ![u] = Promise!Idle] /\ Promise!Idle.status = "idle"
        BY <3>1 DEF Promise!Raise, Promise!Idle, Promise!Outside, calls, CallOf
      <4> QED
        BY <4>1
    <3>2. ASSUME NEW k \in Keys, Promise!Begin(u, k)
          PROVE  \E x : calls' = [calls EXCEPT ![u] = x] /\ x.status # "returned"
      <4> DEFINE x == [status |-> "busy", key |-> k, floor |-> floor[k], value |-> None]
      <4>1. calls' = [calls EXCEPT ![u] = x] /\ x.status = "busy"
        BY <3>2 DEF Promise!Begin, calls, CallOf
      <4> QED
        BY <4>1
    <3> QED
      BY <1>4, <3>1, <3>2
  <2> QED
    BY <1>1, <1>2, <2>1 DEF calls
<1>5. ASSUME UNCHANGED calls PROVE FALSE
  BY <1>1, <1>2, <1>5
<1>6. Promise!Clear \/ (\E k \in Keys : Promise!Update(k)) \/ UNCHANGED (Promise!vars)
         => UNCHANGED calls
  BY DEF Promise!Clear, Promise!Update, Promise!vars, calls, CallOf
<1> QED
  BY <1>3, <1>4, <1>5, <1>6 DEF Promise!Next

\* No answer of the cache is older than a clear() that came before its call, whoever
\* loaded it (CoalescedReadCache.get, clear).
THEOREM AnswersFreshCorrect == Spec => [][AnswersFresh]_vars
<1>1. Spec => [][Promise!Next]_(Promise!vars)
  BY Refinement, PTL DEF KeepsPromise
<1>2. [Promise!Next]_(Promise!vars) => AnswersFresh
  BY PromiseFresh
<1> QED
  BY <1>1, <1>2, PTL
=============================================================================
