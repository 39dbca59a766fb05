---------------------------- MODULE QueryApiProofs ----------------------------
(***************************************************************************)
(* The safety of the query endpoints, the audit trail and the tabs of the  *)
(* user interface, for any number of requests, streams, events, page       *)
(* sizes, offsets and crashes.                                             *)
(***************************************************************************)
EXTENDS StreamView, SequenceTheorems, FiniteSetTheorems, TLAPS

-------------------------------------------------------------------------------
(* What a cut leaves of the items on a wire.                               *)
LEMMA SubSeqFacts ==
  ASSUME NEW S, NEW s \in Seq(S), NEW m \in Nat \ {0}, NEW n \in 0..Len(s)
  PROVE  LET t == SubSeq(s, m, n)
             l == IF m <= n THEN (n - m) + 1 ELSE 0
         IN  /\ t \in Seq(S) /\ Len(t) = l /\ DOMAIN t = 1..l
             /\ \A i \in 1..l : t[i] = s[(m + i) - 1]
<1>1. \A i \in m..n : s[i] \in S
  OBVIOUS
<1>2. m \in Int /\ n \in Int
  OBVIOUS
<1>3. /\ SubSeq(s, m, n) \in Seq(S)
      /\ Len(SubSeq(s, m, n)) = IF m <= n THEN n - m + 1 ELSE 0
      /\ \A i \in 1..(n - m + 1) : SubSeq(s, m, n)[i] = s[m + i - 1]
  BY <1>1, <1>2, SubSeqProperties
<1> QED
  BY <1>3

LEMMA MinOfTwo ==
  ASSUME NEW a \in Nat, NEW b \in Nat
  PROVE  Min({a, b}) = IF a <= b THEN a ELSE b
<1>1. \A x \in {a, b} : (\A y \in {a, b} : x <= y) <=> x = (IF a <= b THEN a ELSE b)
  OBVIOUS
<1> QED
  BY <1>1 DEF Min

-------------------------------------------------------------------------------
(* What the files say about the requests: a file appears after the run has *)
(* come to its final result, is torn while it is being written or when     *)
(* that went wrong, and is whole when the client is told.                  *)
FileInv ==
  \A r \in Requests :
    /\ disk[r] # "absent" =>
         events[r] > 0 /\ pc[r] \in {"writing", "answering", "complete", "crashed"}
    /\ pc[r] = "writing" => disk[r] = "partial"
    /\ pc[r] = "opening" => events[r] > 0
    /\ pc[r] \in {"answering", "complete"} /\ ~failed[r] => disk[r] = "whole"

(* A listing: what was collected or is owed is whole, and what is owed is  *)
(* collected or still to be read.                                          *)
ReadInv ==
  /\ \A r \in listed \cup owed : disk[r] = "whole"
  /\ IF reader = "reading" THEN owed \subseteq listed \cup page ELSE page = {}

(* While the files are looked at, those that will be sorted before r, for  *)
(* certain or perhaps: ones looked up already are known, the others may    *)
(* still be written.  The former only become more, the latter fewer.       *)
Surely(r) == {q \in DOMAIN stamps :
                IF stamps[q] > 0 THEN stamps[q] > mtime[r] ELSE mtime[q] > mtime[r]}
Perhaps(r) == {q \in DOMAIN stamps :
                 \/ IF stamps[q] > 0 THEN stamps[q] > mtime[r] ELSE mtime[q] > mtime[r]
                 \/ stamps[q] = 0 /\ pc[q] = "writing"}

SortInv == reader = "sorting" =>
  \A r \in owed :
    /\ r \in DOMAIN stamps /\ stamps[r] \in {0, mtime[r]} /\ pc[r] = "complete"
    /\ asked.offset <= Cardinality(Surely(r))
    /\ Cardinality(Perhaps(r)) < asked.offset + asked.limit

(* While somebody is settled on a client, nobody is making another one.    *)
ClientInv ==
  \A r \in Requests : due[r] # None =>
    due[r] = shared /\ \A q \in Requests : pc[q] # "building"

CoreInv == TypeOK /\ FileInv /\ ReadInv /\ ClientInv

IInv == CoreInv /\ IsFiniteSet(Files) /\ SortInv

LEMMA IInvInitially == Init => IInv
<1> SUFFICES ASSUME Init PROVE IInv
  OBVIOUS
<1>1. TypeOK
  <2>1. /\ pc \in [Requests -> {"new", Suspended} \cup Inside \cup Ended]
        /\ events \in [Requests -> 0..MaxEvents]
        /\ due \in [Requests -> Requests \cup {None}] /\ crashes \in 0..MaxCrashes
    BY ApiAssumption DEF Init
  <2>2. /\ gone \in [Requests -> BOOLEAN] /\ failed \in [Requests -> BOOLEAN]
        /\ shared \in Requests \cup {None}
        /\ disk \in [Requests -> {"absent", "partial", "whole"}]
        /\ reader = "idle" /\ asked = Nothing /\ page = {} /\ listed = {} /\ owed = {}
    BY DEF Init
  <2>3. /\ now \in Nat /\ mtime \in [Requests -> 0..now]
        /\ Files = {} /\ {r \in Requests : disk[r] # "absent"} = {}
    BY DEF Init, Files
  <2>4. DOMAIN stamps = {}
    BY DEF Init
  <2> QED
    BY <2>1, <2>2, <2>3, <2>4 DEF TypeOK
<1>2. IsFiniteSet(Files)
  <2>1. Files = {}
    BY DEF Init, Files
  <2> QED
    BY <2>1, FS_EmptySet
<1> QED
  BY <1>1, <1>2 DEF Init, IInv, CoreInv, FileInv, ReadInv, SortInv, ClientInv

(* A request in the hands of the server, or of its client.                 *)
LEMMA RequestKeepsCoreInv ==
  ASSUME CoreInv, NEW r \in Requests, Arrive(r) \/ Serve(r) \/ Disconnect(r)
  PROVE  CoreInv'
<1> USE ApiAssumption DEF CoreInv, Files, TypeOK, FileInv, ReadInv, ClientInv, Goto, Suspended,
        Inside, Ended, clients, request, store, history
<1>1. CASE Arrive(r)
  <2>1. /\ pc[r] = "new"
        /\ UNCHANGED <<events, gone, failed, shared, store, history, crashes>>
        /\ \/ Goto(r, "refused") /\ UNCHANGED due
           \/ /\ shared = None /\ Goto(r, "building")
              /\ due' = [due EXCEPT ![r] = None]
           \/ /\ shared # None /\ Goto(r, "taking")
              /\ \/ due' = [due EXCEPT ![r] = None]
                 \/ /\ \A q \in Requests : pc[q] # "building"
                    /\ due' = [due EXCEPT ![r] = shared]
    <3>1. pc[r] = "new" /\ UNCHANGED <<events, gone, failed, shared, store, history, crashes>>
      BY <1>1 DEF Arrive
    <3>2. CASE Goto(r, "refused") /\ UNCHANGED due
      BY <3>1, <3>2
    <3>3. CASE /\ Goto(r, IF MustBuild THEN "building" ELSE "taking")
               /\ due' = [due EXCEPT ![r] = IF Unsettled THEN None ELSE shared]
      <4>1. CASE shared = None
        <5>1. MustBuild /\ Unsettled
          BY <4>1 DEF MustBuild, Unsettled
        <5> QED
          BY <3>1, <3>3, <4>1, <5>1
      <4>2. CASE shared # None /\ Unsettled
        <5>1. ~MustBuild
          BY <4>2 DEF MustBuild
        <5> QED
          BY <3>1, <3>3, <4>2, <5>1
      <4>3. CASE ~Unsettled
        <5>1. ~MustBuild /\ shared # None /\ \A q \in Requests : pc[q] # "building"
          BY <4>3 DEF MustBuild, Unsettled
        <5> QED
          BY <3>1, <3>3, <4>3, <5>1
      <4> QED
        BY <4>1, <4>2, <4>3
    <3> QED
      BY <1>1, <3>2, <3>3 DEF Arrive
  <2>2. TypeOK'
    <3>1. pc' \in [Requests -> {"new", Suspended} \cup Inside \cup Ended]
      BY <2>1
    <3>2. due' \in [Requests -> Requests \cup {None}]
      <4>1. CASE UNCHANGED due
        BY <4>1
      <4>2. CASE due' = [due EXCEPT ![r] = None]
        BY <4>2
      <4>3. CASE due' = [due EXCEPT ![r] = shared]
        BY <4>3
      <4> QED
        BY <2>1, <4>1, <4>2, <4>3
    <3> QED
      BY <2>1, <3>1, <3>2
  <2>3. FileInv'
    BY <2>1
  <2>4. ReadInv'
    BY <2>1
  <2>5. ClientInv'
    BY <2>1
  <2> QED
    BY <2>2, <2>3, <2>4, <2>5
<1>2. CASE BuildClient(r)
  <2> USE <1>2 DEF BuildClient
  <2>1. TypeOK'
    OBVIOUS
  <2>2. FileInv'
    OBVIOUS
  <2>3. ReadInv'
    OBVIOUS
  <2>4. ClientInv'
    OBVIOUS
  <2> QED
    BY <2>1, <2>2, <2>3, <2>4
<1>3. CASE TakeClient(r)
  <2> USE <1>3 DEF TakeClient
  <2>1. TypeOK'
    OBVIOUS
  <2>2. FileInv'
    OBVIOUS
  <2>3. ReadInv'
    OBVIOUS
  <2>4. ClientInv'
    OBVIOUS
  <2> QED
    BY <2>1, <2>2, <2>3, <2>4
<1>4. CASE Pull(r)
  <2> USE <1>4 DEF Pull
  <2>1. TypeOK'
    OBVIOUS
  <2>2. FileInv'
    OBVIOUS
  <2>3. ReadInv'
    OBVIOUS
  <2>4. ClientInv'
    OBVIOUS
  <2> QED
    BY <2>1, <2>2, <2>3, <2>4
<1>5. CASE Drop(r)
  <2> USE <1>5 DEF Drop
  <2>1. TypeOK'
    OBVIOUS
  <2>2. FileInv'
    OBVIOUS
  <2>3. ReadInv'
    OBVIOUS
  <2>4. ClientInv'
    OBVIOUS
  <2> QED
    BY <2>1, <2>2, <2>3, <2>4
<1>6. CASE RunEvent(r)
  <2> USE <1>6 DEF RunEvent
  <2>1. TypeOK'
    OBVIOUS
  <2>2. FileInv'
    OBVIOUS
  <2>3. ReadInv'
    OBVIOUS
  <2>4. ClientInv'
    OBVIOUS
  <2> QED
    BY <2>1, <2>2, <2>3, <2>4
<1>7. CASE RunFinal(r)
  <2> USE <1>7 DEF RunFinal, AfterFinal
  <2>1. TypeOK'
    OBVIOUS
  <2>2. FileInv'
    OBVIOUS
  <2>3. ReadInv'
    OBVIOUS
  <2>4. ClientInv'
    OBVIOUS
  <2> QED
    BY <2>1, <2>2, <2>3, <2>4
<1>8. CASE RunRaises(r)
  <2> USE <1>8 DEF RunRaises, AfterRaise
  <2>1. TypeOK'
    OBVIOUS
  <2>2. FileInv'
    OBVIOUS
  <2>3. ReadInv'
    OBVIOUS
  <2>4. ClientInv'
    OBVIOUS
  <2> QED
    BY <2>1, <2>2, <2>3, <2>4
<1>9. CASE OpenFile(r)
  <2>1. /\ pc[r] = "opening" /\ Goto(r, "writing") /\ now' = now + 1
        /\ disk' = [disk EXCEPT ![r] = "partial"]
        /\ mtime' = [mtime EXCEPT ![r] = now + 1]
        /\ UNCHANGED <<events, gone, failed, clients, history, crashes>>
    BY <1>9 DEF OpenFile, Truncated, Touched
  <2>2. disk[r] = "absent"
    BY <2>1
  <2>3. TypeOK'
    <3>1. /\ pc' \in [Requests -> {"new", Suspended} \cup Inside \cup Ended]
          /\ disk' \in [Requests -> {"absent", "partial", "whole"}]
      BY <2>1
    <3>2. now' \in Nat /\ mtime' \in [Requests -> 0..now']
      BY <2>1
    <3>3. Files' = {q \in Requests : disk'[q] # "absent"}
      BY <2>1
    <3>4. /\ DOMAIN stamps' \subseteq Files'
          /\ \A q \in DOMAIN stamps' : stamps'[q] \in 0..now'
      BY <2>1
    <3> QED
      BY <2>1, <3>1, <3>2, <3>3, <3>4
  <2>4. FileInv'
    BY <2>1
  <2>5. ReadInv'
    BY <2>1, <2>2
  <2>6. ClientInv'
    BY <2>1
  <2> QED
    BY <2>3, <2>4, <2>5, <2>6
<1>10. CASE WriteFile(r)
  <2>1. /\ pc[r] = "writing" /\ Goto(r, "answering") /\ now' = now + 1
        /\ disk' = [disk EXCEPT ![r] = "whole"]
        /\ mtime' = [mtime EXCEPT ![r] = now + 1]
        /\ UNCHANGED <<events, gone, failed, clients, history, crashes>>
    BY <1>10 DEF WriteFile, Touched
  <2>2. TypeOK'
    <3>1. /\ pc' \in [Requests -> {"new", Suspended} \cup Inside \cup Ended]
          /\ disk' \in [Requests -> {"absent", "partial", "whole"}]
      BY <2>1
    <3>2. now' \in Nat /\ mtime' \in [Requests -> 0..now']
      BY <2>1
    <3>3. Files' = {q \in Requests : disk'[q] # "absent"}
      BY <2>1
    <3>4. /\ DOMAIN stamps' \subseteq Files'
          /\ \A q \in DOMAIN stamps' : stamps'[q] \in 0..now'
      BY <2>1
    <3> QED
      BY <2>1, <3>1, <3>2, <3>3, <3>4
  <2>3. FileInv'
    BY <2>1
  <2>4. ReadInv'
    BY <2>1
  <2>5. ClientInv'
    BY <2>1
  <2> QED
    BY <2>2, <2>3, <2>4, <2>5
<1>11. CASE PersistFails(r)
  <2> USE <1>11 DEF PersistFails
  <2>1. TypeOK'
    OBVIOUS
  <2>2. FileInv'
    OBVIOUS
  <2>3. ReadInv'
    OBVIOUS
  <2>4. ClientInv'
    OBVIOUS
  <2> QED
    BY <2>1, <2>2, <2>3, <2>4
<1>12. CASE Answer(r)
  <2> USE <1>12 DEF Answer
  <2>1. TypeOK'
    OBVIOUS
  <2>2. FileInv'
    OBVIOUS
  <2>3. ReadInv'
    OBVIOUS
  <2>4. ClientInv'
    OBVIOUS
  <2> QED
    BY <2>1, <2>2, <2>3, <2>4
<1>13. CASE Disconnect(r)
  <2> USE <1>13 DEF Disconnect
  <2>1. TypeOK'
    OBVIOUS
  <2>2. FileInv'
    OBVIOUS
  <2>3. ReadInv'
    OBVIOUS
  <2>4. ClientInv'
    OBVIOUS
  <2> QED
    BY <2>1, <2>2, <2>3, <2>4
<1> QED
  BY <1>1, <1>2, <1>3, <1>4, <1>5, <1>6, <1>7, <1>8, <1>9, <1>10, <1>11, <1>12, <1>13 DEF Serve

LEMMA AskedType ==
  ASSUME CoreInv
  PROVE  asked.offset \in Nat /\ asked.limit \in Nat
<1>1. asked \in [limit : Limits, offset : Offsets] \cup {Nothing}
  BY DEF CoreInv, TypeOK
<1>2. CASE asked \in [limit : Limits, offset : Offsets]
  BY <1>2, ApiAssumption
<1>3. CASE asked = Nothing
  BY <1>3 DEF Nothing
<1> QED
  BY <1>1, <1>2, <1>3

(* However the requests go on: a file that is found and being written may  *)
(* get a later time, the others keep theirs.                               *)
LEMMA SortingGoesOn ==
  ASSUME IInv, UNCHANGED history,
         \A q \in Requests :
           /\ pc'[q] = "writing" => pc[q] = "writing" \/ q \notin Files
           /\ pc[q] = "complete" => pc'[q] = "complete" /\ mtime'[q] = mtime[q]
           /\ mtime'[q] # mtime[q] =>
                (pc[q] = "writing" \/ q \notin Files) /\ mtime'[q] = now + 1
  PROVE  SortInv'
<1> SUFFICES ASSUME reader = "sorting", NEW r \in owed
             PROVE  /\ r \in DOMAIN stamps /\ stamps[r] \in {0, mtime'[r]}
                    /\ pc'[r] = "complete" /\ asked.offset <= Cardinality(Surely(r)')
                    /\ Cardinality(Perhaps(r)') < asked.offset + asked.limit
  BY DEF SortInv, history, Surely, Perhaps
<1>1. /\ r \in DOMAIN stamps /\ stamps[r] \in {0, mtime[r]} /\ pc[r] = "complete"
      /\ asked.offset <= Cardinality(Surely(r))
      /\ Cardinality(Perhaps(r)) < asked.offset + asked.limit
  BY DEF IInv, SortInv
<1>2. r \in Requests /\ mtime'[r] = mtime[r] /\ pc'[r] = "complete"
  <2>1. r \in Requests
    BY DEF IInv, CoreInv, TypeOK
  <2> QED
    BY <1>1, <2>1
<1>3. /\ DOMAIN stamps \subseteq Files /\ Files \subseteq Requests /\ now \in Nat
      /\ \A q \in Requests : mtime[q] \in 0..now
      /\ stamps' = stamps
  BY DEF IInv, CoreInv, TypeOK, Files, history
<1>q. ASSUME NEW q \in DOMAIN stamps
      PROVE  /\ q \in Requests /\ q \in Files /\ mtime[q] \in 0..now /\ mtime[r] \in 0..now
             /\ mtime'[q] = mtime[q] \/ (pc[q] = "writing" /\ mtime'[q] = now + 1)
             /\ pc'[q] = "writing" => pc[q] = "writing"
  BY <1>2, <1>3
<1>4. Surely(r) \subseteq Surely(r)'
  <2> SUFFICES ASSUME NEW q \in Surely(r) PROVE q \in Surely(r)'
    OBVIOUS
  <2>1. /\ q \in DOMAIN stamps
        /\ IF stamps[q] > 0 THEN stamps[q] > mtime[r] ELSE mtime[q] > mtime[r]
    BY DEF Surely
  <2>2. IF stamps[q] > 0 THEN stamps[q] > mtime'[r] ELSE mtime'[q] > mtime'[r]
    BY <1>2, <1>3, <1>q, <2>1
  <2> QED
    BY <1>3, <2>1, <2>2 DEF Surely
<1>5. Perhaps(r)' \subseteq Perhaps(r)
  <2> SUFFICES ASSUME NEW q \in DOMAIN stamps,
                      \/ IF stamps[q] > 0 THEN stamps[q] > mtime'[r] ELSE mtime'[q] > mtime'[r]
                      \/ stamps[q] = 0 /\ pc'[q] = "writing"
               PROVE  \/ IF stamps[q] > 0 THEN stamps[q] > mtime[r] ELSE mtime[q] > mtime[r]
                      \/ stamps[q] = 0 /\ pc[q] = "writing"
    BY <1>3 DEF Perhaps
  <2>1. stamps[q] \in Nat
    BY DEF IInv, CoreInv, TypeOK
  <2> QED
    BY <1>2, <1>q, <2>1
<1>6. Surely(r)' \subseteq Files /\ Perhaps(r) \subseteq Files
  BY <1>3 DEF Surely, Perhaps
<1>7. /\ Cardinality(Surely(r)) <= Cardinality(Surely(r)')
      /\ Cardinality(Perhaps(r)') <= Cardinality(Perhaps(r))
      /\ Cardinality(Surely(r)) \in Nat /\ Cardinality(Surely(r)') \in Nat
      /\ Cardinality(Perhaps(r)) \in Nat /\ Cardinality(Perhaps(r)') \in Nat
  BY <1>4, <1>5, <1>6, FS_Subset, FS_CardinalityType DEF IInv
<1>8. asked.offset \in Nat /\ asked.limit \in Nat
  BY AskedType DEF IInv
<1> QED
  BY <1>1, <1>2, <1>7, <1>8

LEMMA RequestKeepsIInv ==
  ASSUME IInv, NEW r \in Requests, Arrive(r) \/ Serve(r) \/ Disconnect(r)
  PROVE  IInv'
<1> USE DEF request, store, clients, Goto, Suspended
<1>t. /\ pc \in [Requests -> {"new", Suspended} \cup Inside \cup Ended]
      /\ now \in Nat /\ mtime \in [Requests -> 0..now]
      /\ Files = {q \in Requests : disk[q] # "absent"}
  BY DEF IInv, CoreInv, TypeOK
<1>1. CoreInv'
  BY RequestKeepsCoreInv DEF IInv
<1>2. CASE OpenFile(r)
  <2>1. /\ pc[r] = "opening" /\ pc' = [pc EXCEPT ![r] = "writing"]
        /\ mtime' = [mtime EXCEPT ![r] = now + 1] /\ UNCHANGED history
    BY <1>2 DEF OpenFile, Touched
  <2>2. r \notin Files
    BY <1>t, <2>1 DEF IInv, CoreInv, FileInv
  <2>3. Files' = Files \cup {r}
    BY <1>t, <2>1 DEF Files
  <2>4. IsFiniteSet(Files')
    BY <2>3, FS_AddElement DEF IInv
  <2>5. SortInv'
    BY <1>t, <2>1, <2>2, SortingGoesOn
  <2> QED
    BY <1>1, <2>4, <2>5 DEF IInv
<1>3. CASE WriteFile(r)
  <2>1. /\ pc[r] = "writing" /\ pc' = [pc EXCEPT ![r] = "answering"]
        /\ mtime' = [mtime EXCEPT ![r] = now + 1] /\ UNCHANGED history
    BY <1>3 DEF WriteFile, Touched
  <2>2. r \in Files
    BY <1>t, <2>1 DEF IInv, CoreInv, FileInv
  <2>3. Files' = Files
    BY <1>t, <2>1, <2>2 DEF Files
  <2>5. SortInv'
    BY <1>t, <2>1, SortingGoesOn
  <2> QED
    BY <1>1, <2>3, <2>5 DEF IInv
<1>4. CASE UNCHANGED mtime
  <2>1. /\ UNCHANGED history
        /\ \/ UNCHANGED pc
           \/ \E there : /\ pc' = [pc EXCEPT ![r] = there]
                         /\ there # "writing" /\ pc[r] # "complete"
    <3>1. CASE Arrive(r)
      BY <3>1 DEF Arrive
    <3>2. CASE BuildClient(r) \/ TakeClient(r) \/ Pull(r) \/ Drop(r) \/ RunEvent(r)
      BY <3>2 DEF BuildClient, TakeClient, Pull, Drop, RunEvent
    <3>3. CASE RunFinal(r) \/ RunRaises(r) \/ PersistFails(r) \/ Answer(r) \/ Disconnect(r)
      BY <3>3 DEF RunFinal, AfterFinal, RunRaises, AfterRaise, PersistFails, Answer,
         Disconnect
    <3>4. CASE OpenFile(r) \/ WriteFile(r)
      BY <1>t, <1>4, <3>4 DEF OpenFile, WriteFile, Touched
    <3> QED
      BY <3>1, <3>2, <3>3, <3>4 DEF Serve
  <2>2. Files' = Files
    BY <1>4 DEF Files
  <2>3. SortInv'
    BY <1>t, <1>4, <2>1, SortingGoesOn
  <2> QED
    BY <1>1, <2>2, <2>3 DEF IInv
<1>5. OpenFile(r) \/ WriteFile(r) \/ UNCHANGED mtime
  BY DEF Arrive, Serve, BuildClient, TakeClient, Pull, Drop, RunEvent, RunFinal,
     RunRaises, PersistFails, Answer, Disconnect
<1> QED
  BY <1>2, <1>3, <1>4, <1>5

(* A listing begins: the files in Newer are in Surely, and those of        *)
(* MayPass besides in Perhaps.                                             *)
LEMMA StartListKeepsIInv ==
  ASSUME IInv, NEW limit \in Limits, NEW offset \in Offsets, StartList(limit, offset)
  PROVE  IInv'
<1> USE ApiAssumption DEF IInv, CoreInv
<1>1. /\ reader' = "sorting" /\ asked' = [limit |-> limit, offset |-> offset]
      /\ stamps' = [r \in Files |-> 0]
      /\ owed' = {r \in Announced :
                    /\ offset <= Cardinality(Newer(r))
                    /\ Cardinality(Newer(r) \cup MayPass(r)) < offset + limit}
      /\ UNCHANGED <<request, store, page, listed, crashes>> /\ reader = "idle"
  BY DEF StartList
<1>2. owed' \subseteq Announced /\ Announced \subseteq {r \in Files : disk[r] = "whole"}
  BY <1>1 DEF Announced, FileInv, TypeOK
<1>3. Files' = Files
  BY <1>1 DEF Files, store
<1>4. page = {}
  BY <1>1 DEF ReadInv
<1>5. DOMAIN stamps' = Files /\ \A r \in Files : stamps'[r] = 0
  BY <1>1
<1>6. TypeOK'
  BY <1>1, <1>2, <1>3, <1>4, <1>5 DEF TypeOK, request, store, clients, Files
<1>7. FileInv' /\ ClientInv'
  BY <1>1 DEF FileInv, ClientInv, request, store, clients
<1>8. ReadInv'
  BY <1>1, <1>2, <1>4 DEF ReadInv, store
<1>9. SortInv'
  <2> SUFFICES ASSUME NEW r \in owed'
               PROVE  /\ r \in DOMAIN stamps' /\ stamps'[r] = 0 /\ pc'[r] = "complete"
                      /\ offset <= Cardinality(Surely(r)')
                      /\ Cardinality(Perhaps(r)') < offset + limit
    BY <1>1 DEF SortInv
  <2>1. Surely(r)' = Newer(r)
    BY <1>1, <1>5 DEF Surely, Newer, store
  <2>2. Perhaps(r)' = Newer(r) \cup MayPass(r)
    BY <1>1, <1>5 DEF Perhaps, Newer, MayPass, store, request
  <2> QED
    BY <1>1, <1>2, <1>5, <2>1, <2>2 DEF Announced, request
<1> QED
  BY <1>3, <1>6, <1>7, <1>8, <1>9

(* One time more is known; who comes before whom does not change by it.    *)
LEMMA StatKeepsIInv ==
  ASSUME IInv, NEW q \in Requests, Stat(q)
  PROVE  IInv'
<1> USE ApiAssumption DEF IInv, CoreInv
<1>1. /\ reader = "sorting" /\ q \in DOMAIN stamps /\ stamps[q] = 0
      /\ stamps' = [stamps EXCEPT ![q] = mtime[q]]
      /\ UNCHANGED <<request, store, reader, asked, page, listed, owed, crashes>>
  BY DEF Stat
<1>2. Files' = Files /\ mtime' = mtime /\ now' = now /\ pc' = pc
  BY <1>1 DEF Files, store, request
<1>3. /\ DOMAIN stamps' = DOMAIN stamps /\ stamps'[q] = mtime[q]
      /\ \A r \in DOMAIN stamps : r # q => stamps'[r] = stamps[r]
  BY <1>1
<1>4. mtime[q] \in 0..now /\ mtime[q] > 0
  BY <1>1 DEF TypeOK, Files
<1>5. TypeOK'
  <2>1. \A r \in DOMAIN stamps' : stamps'[r] \in 0..now
    BY <1>3, <1>4 DEF TypeOK
  <2> QED
    BY <1>1, <1>2, <1>3, <2>1 DEF TypeOK, request, store, clients
<1>6. FileInv' /\ ClientInv'
  BY <1>1 DEF FileInv, ClientInv, request, store, clients
<1>7. ReadInv'
  BY <1>1 DEF ReadInv, store
<1>8. SortInv'
  <2> SUFFICES ASSUME NEW r \in owed
               PROVE  /\ r \in DOMAIN stamps' /\ stamps'[r] \in {0, mtime[r]}
                      /\ pc[r] = "complete"
                      /\ asked.offset <= Cardinality(Surely(r)')
                      /\ Cardinality(Perhaps(r)') < asked.offset + asked.limit
    BY <1>1, <1>2 DEF SortInv
  <2>1. /\ r \in DOMAIN stamps /\ stamps[r] \in {0, mtime[r]} /\ pc[r] = "complete"
        /\ asked.offset <= Cardinality(Surely(r))
        /\ Cardinality(Perhaps(r)) < asked.offset + asked.limit
    BY <1>1 DEF SortInv
  <2>2. Surely(r)' = Surely(r)
    BY <1>1, <1>2, <1>3, <1>4 DEF Surely
  <2>3. Perhaps(r)' \subseteq Perhaps(r) /\ Perhaps(r) \subseteq Files
    BY <1>1, <1>2, <1>3, <1>4 DEF Perhaps, TypeOK
  <2>4. /\ Cardinality(Perhaps(r)') <= Cardinality(Perhaps(r))
        /\ Cardinality(Perhaps(r)) \in Nat /\ Cardinality(Perhaps(r)') \in Nat
    BY <2>3, FS_Subset, FS_CardinalityType
  <2>5. asked.offset \in Nat /\ asked.limit \in Nat
    BY AskedType
  <2> QED
    BY <1>3, <2>1, <2>2, <2>4, <2>5
<1> QED
  BY <1>2, <1>5, <1>6, <1>7, <1>8

(* All times are known, and what is owed is within the page.               *)
LEMMA SortListKeepsIInv ==
  ASSUME IInv, SortList
  PROVE  IInv'
<1> USE ApiAssumption DEF IInv, CoreInv
<1>1. /\ reader = "sorting" /\ \A r \in DOMAIN stamps : stamps[r] > 0
      /\ reader' = "reading"
      /\ page' = {r \in DOMAIN stamps :
             Cardinality(Ahead(r)) \in asked.offset..(asked.offset + asked.limit - 1)}
      /\ stamps' = [r \in page' |-> stamps[r]] /\ asked' = Nothing
      /\ UNCHANGED <<request, store, listed, owed, crashes>>
  BY DEF SortList
<1>2. Files' = Files
  BY <1>1 DEF Files, store
<1>3. TypeOK'
  BY <1>1, <1>2 DEF TypeOK, request, store, clients
<1>4. FileInv' /\ ClientInv'
  BY <1>1 DEF FileInv, ClientInv, request, store, clients
<1>5. owed \subseteq page'
  <2> SUFFICES ASSUME NEW r \in owed PROVE r \in page'
    OBVIOUS
  <2>1. /\ r \in DOMAIN stamps /\ stamps[r] \in {0, mtime[r]}
        /\ asked.offset <= Cardinality(Surely(r))
        /\ Cardinality(Perhaps(r)) < asked.offset + asked.limit
    BY <1>1 DEF SortInv
  <2>2. stamps[r] = mtime[r] /\ \A q \in DOMAIN stamps : stamps[q] > 0 /\ stamps[q] # 0
    BY <1>1, <2>1 DEF TypeOK
  <2>3. Surely(r) = Ahead(r) /\ Perhaps(r) = Ahead(r)
    BY <2>2 DEF Surely, Perhaps, Ahead
  <2>4. Ahead(r) \subseteq Files
    BY DEF Ahead, TypeOK
  <2>5. Cardinality(Ahead(r)) \in Nat /\ asked.offset \in Nat /\ asked.limit \in Nat
    BY <2>4, AskedType, FS_Subset, FS_CardinalityType
  <2>6. Cardinality(Ahead(r)) \in asked.offset..(asked.offset + asked.limit - 1)
    BY <2>1, <2>3, <2>5
  <2> QED
    BY <1>1, <2>1, <2>6
<1>6. ReadInv'
  BY <1>1, <1>5 DEF ReadInv, store
<1> QED
  BY <1>1, <1>2, <1>3, <1>4, <1>6 DEF SortInv

(* The history endpoint.                                                   *)
LEMMA ReaderKeepsIInv ==
  ASSUME IInv, List
  PROVE  IInv'
<1>1. CASE \E limit \in Limits, offset \in Offsets : StartList(limit, offset)
  BY <1>1, StartListKeepsIInv
<1>2. CASE \E r \in Requests : Stat(r)
  BY <1>2, StatKeepsIInv
<1>3. CASE SortList
  BY <1>3, SortListKeepsIInv
<1>4. CASE \E r \in Requests : ReadFile(r)
  <2>1. PICK r \in Requests : ReadFile(r)
    BY <1>4
  <2>2. /\ reader = "reading" /\ r \in page /\ page' = page \ {r}
        /\ listed' = IF disk[r] = "whole" THEN listed \cup {r} ELSE listed
        /\ UNCHANGED <<request, store, reader, asked, stamps, owed, crashes>>
    BY <2>1 DEF ReadFile, Parses, Loads
  <2>3. Files' = Files
    BY <2>2 DEF Files, store
  <2>4. TypeOK'
    BY <2>2, <2>3 DEF IInv, CoreInv, TypeOK, request, store, clients
  <2>5. FileInv' /\ ClientInv'
    BY <2>2 DEF IInv, CoreInv, FileInv, ClientInv, request, store, clients
  <2>6. ReadInv'
    BY <2>2 DEF IInv, CoreInv, ReadInv, store
  <2> QED
    BY <2>2, <2>3, <2>4, <2>5, <2>6 DEF IInv, CoreInv, SortInv
<1>5. CASE EndList
  <2>1. /\ reader' = "idle" /\ asked' = Nothing /\ stamps' = <<>>
        /\ page' = {} /\ listed' = {} /\ owed' = {}
        /\ UNCHANGED <<request, store, crashes>>
    BY <1>5 DEF EndList, NoListing
  <2>2. Files' = Files
    BY <2>1 DEF Files, store
  <2>3. DOMAIN stamps' = {}
    BY <2>1
  <2>4. TypeOK'
    BY <2>1, <2>2, <2>3 DEF IInv, CoreInv, TypeOK, request, store, clients
  <2>5. FileInv' /\ ClientInv' /\ ReadInv' /\ SortInv'
    BY <2>1 DEF IInv, CoreInv, FileInv, ClientInv, ReadInv, SortInv, request, store,
       clients
  <2> QED
    BY <2>2, <2>4, <2>5 DEF IInv, CoreInv
<1> QED
  BY <1>1, <1>2, <1>3, <1>4, <1>5 DEF List

LEMMA CrashKeepsIInv ==
  ASSUME IInv, Crash
  PROVE  IInv'
<1> USE ApiAssumption DEF IInv, CoreInv
<1>1. /\ crashes < MaxCrashes /\ crashes' = crashes + 1
      /\ pc' = [r \in Requests |->
                  IF pc[r] \in Ended \cup {"new"} THEN pc[r] ELSE "crashed"]
      /\ reader' = "idle" /\ asked' = Nothing /\ stamps' = <<>>
      /\ page' = {} /\ listed' = {} /\ owed' = {}
      /\ shared' = None /\ due' = [r \in Requests |-> None]
      /\ UNCHANGED <<events, gone, failed, store>>
  BY DEF Crash, NoListing
<1>2. TypeOK'
  <2>1. pc' \in [Requests -> {"new", Suspended} \cup Inside \cup Ended]
    BY <1>1 DEF TypeOK, Ended
  <2>2. crashes' \in 0..MaxCrashes /\ DOMAIN stamps' = {} /\ Files' = Files
    BY <1>1 DEF TypeOK, Files, store
  <2>3. due' \in [Requests -> Requests \cup {None}] /\ shared' \in Requests \cup {None}
    BY <1>1
  <2> QED
    BY <1>1, <2>1, <2>2, <2>3 DEF TypeOK, store
<1>3. FileInv'
  BY <1>1 DEF FileInv, TypeOK, store, Ended
<1>4. ReadInv' /\ ClientInv' /\ SortInv'
  BY <1>1 DEF ReadInv, ClientInv, SortInv
<1>5. Files' = Files
  BY <1>1 DEF Files, store
<1> QED
  BY <1>2, <1>3, <1>4, <1>5

LEMMA IInvInductive == IInv /\ [Next]_vars => IInv'
<1> SUFFICES ASSUME IInv, [Next]_vars PROVE IInv'
  OBVIOUS
<1>1. CASE \E r \in Requests : Arrive(r) \/ Serve(r) \/ Disconnect(r)
  BY <1>1, RequestKeepsIInv
<1>2. CASE List
  BY <1>2, ReaderKeepsIInv
<1>3. CASE Crash
  BY <1>3, CrashKeepsIInv
<1>4. CASE UNCHANGED vars
  BY <1>4 DEF vars, request, store, history, clients, IInv, CoreInv, TypeOK,
              Files, FileInv, ReadInv, ClientInv, SortInv, Surely, Perhaps
<1> QED
  BY <1>1, <1>2, <1>3, <1>4 DEF Next

(* All of IInv holds throughout; the theorems below read it off.           *)
LEMMA IInvHolds == Spec => []IInv
  BY IInvInitially, IInvInductive, PTL DEF Spec

(* Every variable keeps its type; in particular each file that exists is   *)
(* one that a listing finds.                                               *)
THEOREM TypeCorrect == Spec => []TypeOK
<1>1. IInv => TypeOK
  BY DEF IInv, CoreInv
<1> QED
  BY <1>1, IInvHolds, PTL

(* Whoever was told that a run is complete can load its trace, whatever    *)
(* crashes or is written afterwards, unless the disk failed.               *)
THEOREM CompleteIsStored == Spec => []CompleteMeansStored
<1>1. IInv => CompleteMeansStored
  BY DEF IInv, CoreInv, FileInv, CompleteMeansStored, Loads
<1> QED
  BY <1>1, IInvHolds, PTL

(* No listing shows a torn trace or one of a run without a final result.   *)
THEOREM ListingsAreWhole == Spec => []NothingTornListed
<1>1. IInv => NothingTornListed
  BY DEF IInv, CoreInv, TypeOK, FileInv, ReadInv, NothingTornListed
<1> QED
  BY <1>1, IInvHolds, PTL

(* No listing misses a run it owes, whatever is written while the files    *)
(* are found, looked at and read, and however many torn ones lie between.  *)
THEOREM ListingsAreComplete == Spec => []HistoryComplete
<1>1. IInv => HistoryComplete
  BY DEF IInv, CoreInv, ReadInv, HistoryComplete
<1> QED
  BY <1>1, IInvHolds, PTL

(* Requests that found the model client in place are served by it.         *)
THEOREM ClientIsSettled == Spec => []ClientSettles
<1>1. IInv => ClientSettles
  BY DEF IInv, CoreInv, ClientInv, ClientSettles
<1> QED
  BY <1>1, IInvHolds, PTL

(* A stored trace is never touched again: only the request that owns a     *)
(* file ever opens it, and it does so before the file exists.              *)
THEOREM TracesStayFinal == Spec => TracesAreFinal
<1>1. IInv /\ [Next]_vars =>
        \A r \in Requests : disk[r] = "whole" => disk'[r] = "whole"
  <2> SUFFICES ASSUME IInv, [Next]_vars, NEW r \in Requests, disk[r] = "whole"
               PROVE  disk'[r] = "whole"
    OBVIOUS
  <2>1. CASE \E q \in Requests : OpenFile(q)
    BY <2>1 DEF OpenFile, Truncated, IInv, CoreInv, FileInv, TypeOK
  <2>2. CASE \E q \in Requests : WriteFile(q)
    BY <2>2 DEF WriteFile, IInv, CoreInv, TypeOK
  <2>3. CASE UNCHANGED disk
    BY <2>3
  <2>4. \/ UNCHANGED disk
        \/ \E q \in Requests : OpenFile(q) \/ WriteFile(q)
    BY DEF Next, Serve, List, Arrive, BuildClient, TakeClient, Pull, Drop,
           RunEvent, RunFinal, RunRaises, PersistFails, Answer, Disconnect,
           StartList, Stat, SortList, ReadFile, EndList, Crash, vars, request, store, history,
           clients
  <2> QED
    BY <2>1, <2>2, <2>3, <2>4
<1> QED
  BY <1>1, IInvHolds, PTL DEF Spec, TracesAreFinal

-------------------------------------------------------------------------------
(* The user interface at the streams: the server it watches is a server of *)
(* QueryApi, and what it shows in the end is true.                         *)

Complaints == {"error", "unexplained"}
Items      == {"event", "complete"} \cup Complaints

View ==
  [wire     : Seq(Items),
   broken   : BOOLEAN,
   shown    : Nat,
   response : BOOLEAN,
   detail   : {"none", "unreachable"} \cup Complaints,
   screen   : {"idle", "waiting", "result", "nothing", "error", "left"}]

(* Nothing has come between this view and the server yet.                  *)
InTouch(v) == v.screen \in {"idle", "waiting"} /\ ~v.broken

(* What a view v says of a request that stands at `at` after n events.     *)
(* Only the last item under way may be a final one, and there is one only  *)
(* if none was read before ...                                             *)
OneFinal(v) ==
  /\ \A i \in 1..Len(v.wire) : v.wire[i] # "event" =>
       i = Len(v.wire) /\ ~v.response /\ v.detail \in {"none", "unreachable"}
  /\ v.response => v.wire = <<>> /\ v.detail \in {"none", "unreachable"}
  /\ v.detail \in Complaints => v.wire = <<>>

(* ... a final item says how the run ended and follows all its events ...  *)
FinalsAreTrue(v, at, n) ==
  /\ \A i \in 1..Len(v.wire) :
       /\ v.wire[i] = "complete" => at = "complete" /\ v.shown + i = n + 1
       /\ v.wire[i] \in Complaints => at = "error"
  /\ v.response => at = "complete" /\ v.shown = n
  /\ v.detail \in Complaints => at = "error"

(* ... and a view in touch with the server has or gets all there is.       *)
NothingLost(v, at, n) ==
  InTouch(v) =>
    /\ v.detail # "unreachable"
    /\ at \notin {"complete", "error"} => v.shown + Len(v.wire) = n
    /\ at = "complete" => v.response \/ \E i \in 1..Len(v.wire) : v.wire[i] = "complete"
    /\ at = "error" => \/ v.detail \in Complaints
                       \/ \E i \in 1..Len(v.wire) : v.wire[i] \in Complaints

(* What stays on the screen.                                               *)
ScreenTells(v, at, n) ==
  /\ v.screen = "idle" <=> at = "new"
  /\ v.screen = "idle" => v = Fresh
  /\ v.screen = "result" => at = "complete" /\ v.shown = n
  /\ v.screen = "nothing" => at = "error" /\ v.detail = "unexplained"
  /\ v.screen = "error" /\ v.response => v.broken

Truthful(v, at, n) == /\ v \in View /\ OneFinal(v) /\ FinalsAreTrue(v, at, n)
                      /\ NothingLost(v, at, n) /\ ScreenTells(v, at, n)

ViewInv == /\ view \in [Streams -> View]
           /\ \A r \in Streams : Truthful(view[r], pc[r], events[r])

-------------------------------------------------------------------------------
(* The steps of a view, one by one.                                        *)
LEMMA AtStart == Truthful(Fresh, "new", 0)
  BY DEF Truthful, OneFinal, FinalsAreTrue, NothingLost, ScreenTells, Fresh,
         View, Items, Complaints, InTouch

Moving == {Suspended, "refused", "abandoned", "crashed"} \cup Inside

(* The request moves on and nothing is sent.                               *)
LEMMA RequestMoves ==
  ASSUME NEW v, NEW n \in Nat, NEW a \in Moving, NEW b \in Moving,
         Truthful(v, a, n)
  PROVE  Truthful(v, b, n)
  BY DEF Truthful, OneFinal, FinalsAreTrue, NothingLost, ScreenTells, Moving,
         Suspended, Inside, Complaints

(* It moves on, and nobody listens.                                        *)
LEMMA NobodyListens ==
  ASSUME NEW v, NEW n \in Nat, NEW m \in Nat, NEW a \in Moving,
         NEW b \in Moving \cup {"complete", "error"},
         Truthful(v, a, n), ~(v.screen = "waiting" /\ ~v.broken)
  PROVE  Truthful(v, b, m)
  BY DEF Truthful, OneFinal, FinalsAreTrue, NothingLost, ScreenTells, Moving,
         Suspended, Inside, Complaints, InTouch

(* The form is submitted.                                                  *)
LEMMA FormIsSent ==
  ASSUME NEW v, NEW n \in Nat, NEW b \in Moving, Truthful(v, "new", n)
  PROVE  Truthful([v EXCEPT !.screen = "waiting"], b, n)
<1>1. v = Fresh
  BY DEF Truthful, ScreenTells
<1> DEFINE w == [v EXCEPT !.screen = "waiting"]
<1>v. v \in View
  BY DEF Truthful
<1>f. /\ v.wire = <<>> /\ v.broken = FALSE /\ v.shown = 0
      /\ v.response = FALSE /\ v.detail = "none"
  BY <1>1 DEF Fresh
<1>2. /\ w \in View /\ w.wire = <<>> /\ w.broken = FALSE /\ w.shown = 0
      /\ w.response = FALSE /\ w.detail = "none" /\ w.screen = "waiting"
  BY <1>v, <1>f DEF View
<1>3. n = 0
  BY <1>1 DEF Truthful, NothingLost, InTouch, Fresh
<1> HIDE DEF w
<1>4. Truthful(w, b, n)
  BY <1>2, <1>3 DEF Truthful, OneFinal, FinalsAreTrue, NothingLost, ScreenTells,
     Complaints, InTouch, Moving, Suspended, Inside
<1> QED
  BY <1>4 DEF w

(* An item is put on the wire for somebody who listens.                    *)
LEMMA ItemIsSent ==
  ASSUME NEW v, NEW n \in Nat, NEW a \in Moving, Truthful(v, a, n),
         v.screen = "waiting", ~v.broken, NEW item \in Items,
         NEW b, NEW m \in Nat,
         \/ item = "event" /\ b \in Moving /\ m = n + 1
         \/ item = "complete" /\ b = "complete" /\ m = n
         \/ item \in Complaints /\ b = "error" /\ m = n
  PROVE  Truthful([v EXCEPT !.wire = @ \o <<item>>], b, m)
<1> DEFINE w == [v EXCEPT !.wire = @ \o <<item>>]
           k == Len(v.wire)
<1>1. /\ v \in View /\ ~v.response /\ v.detail = "none" /\ v.shown \in Nat
      /\ v.wire \in Seq(Items) /\ v.shown + k = n
  BY DEF Truthful, OneFinal, FinalsAreTrue, NothingLost, ScreenTells, View,
         Moving, Suspended, Inside, Complaints, InTouch
<1>2. k \in Nat
  BY <1>1
<1>3. \A i \in 1..k : v.wire[i] = "event"
  BY <1>1 DEF Truthful, FinalsAreTrue, Items, Moving, Suspended, Inside, Complaints
<1>q. v.wire \o <<item>> \in Seq(Items)
  BY <1>1
<1>4. /\ w \in View /\ w.wire = v.wire \o <<item>> /\ ~w.broken /\ w.shown = v.shown
      /\ ~w.response /\ w.detail = "none" /\ w.screen = "waiting"
  BY <1>1, <1>q DEF View
<1>5. /\ Len(w.wire) = k + 1 /\ w.wire[k + 1] = item
      /\ \A i \in 1..k : w.wire[i] = "event"
  BY <1>1, <1>3, <1>4
<1> HIDE DEF w, k
<1>6. \A i \in 1..(k + 1) : i \in 1..k \/ i = k + 1
  BY <1>2
<1>7. OneFinal(w)
  BY <1>4, <1>5, <1>6 DEF OneFinal, Complaints
<1>8. FinalsAreTrue(w, b, m)
  <2>1. \A i \in 1..(k + 1) : w.wire[i] = "complete" => i = k + 1 /\ item = "complete"
    BY <1>5, <1>6
  <2>2. \A i \in 1..(k + 1) : w.wire[i] \in Complaints => item \in Complaints
    BY <1>5, <1>6 DEF Complaints
  <2>3. item = "complete" => b = "complete" /\ w.shown + (k + 1) = m + 1
    <3>1. item = "complete" => b = "complete" /\ m = n
      BY DEF Complaints
    <3>2. \A x, y \in Nat : x + y = n => x + (y + 1) = n + 1
      OBVIOUS
    <3>3. w.shown \in Nat /\ w.shown + k = n
      BY <1>1, <1>4
    <3>4. w.shown + (k + 1) = n + 1
      BY <1>2, <3>2, <3>3
    <3> QED
      BY <3>1, <3>4
  <2>4. item \in Complaints => b = "error"
    BY DEF Complaints
  <2> QED
    <3>1. ASSUME NEW i \in 1..(k + 1)
          PROVE  /\ w.wire[i] = "complete" => b = "complete" /\ w.shown + i = m + 1
                 /\ w.wire[i] \in Complaints => b = "error"
      BY <2>1, <2>2, <2>3, <2>4
    <3>2. ~w.response /\ w.detail \notin Complaints /\ Len(w.wire) = k + 1
      BY <1>4, <1>5 DEF Complaints
    <3> QED
      BY <3>1, <3>2 DEF FinalsAreTrue
<1>9. NothingLost(w, b, m)
  BY <1>1, <1>2, <1>4, <1>5 DEF NothingLost, Complaints, Moving, Suspended, Inside
<1> QED
  BY <1>4, <1>7, <1>8, <1>9 DEF Truthful, ScreenTells, Moving, Suspended, Inside,
     Complaints, w

(* The connection breaks: the items up to some point still arrive.         *)
LEMMA CutKeepsTruth ==
  ASSUME NEW v, NEW n \in Nat, NEW a, Truthful(v, a, n), v.screen = "waiting",
         NEW j \in Nat
  PROVE  Truthful(CutAt(v, j), a, n)
<1> DEFINE w == CutAt(v, j)
           k == Len(v.wire)
           l == IF j <= k THEN j ELSE k
           t == SubSeq(v.wire, 1, l)
<1>1. v \in View /\ v.wire \in Seq(Items)
  BY DEF Truthful, View
<1>2. k \in Nat
  BY <1>1
<1>3. l \in 0..k /\ Min({j, k}) = l
  BY <1>2, MinOfTwo
<1>4. /\ t \in Seq(Items) /\ Len(t) = l
      /\ \A i \in 1..l : t[i] = v.wire[i]
  <2>1. /\ t \in Seq(Items) /\ Len(t) = IF 1 <= l THEN (l - 1) + 1 ELSE 0
        /\ \A i \in 1..(IF 1 <= l THEN (l - 1) + 1 ELSE 0) : t[i] = v.wire[(1 + i) - 1]
    <3> HIDE DEF k, l
    <3> QED
      BY <1>1, <1>3, SubSeqFacts DEF k
  <2>2. (IF 1 <= l THEN (l - 1) + 1 ELSE 0) = l
    BY <1>2, <1>3
  <2>3. \A i \in 1..l : (1 + i) - 1 = i
    BY <1>2, <1>3
  <2> HIDE DEF t, l, k
  <2> QED
    BY <2>1, <2>2, <2>3
<1>5. w = [v EXCEPT !.broken = TRUE, !.wire = t]
  BY <1>3 DEF CutAt
<1> HIDE DEF t, w
<1>6. /\ w \in View /\ w.wire = t /\ w.broken = TRUE /\ w.shown = v.shown
      /\ w.response = v.response /\ w.detail = v.detail /\ w.screen = "waiting"
  BY <1>1, <1>4, <1>5 DEF View
<1>7. \A i \in 1..l : i \in 1..k /\ (i = k => i = l)
  BY <1>2, <1>3
<1> HIDE DEF l, k
<1>8. OneFinal(w)
  <2>1. v.wire = <<>> => t = <<>>
    BY <1>2, <1>3, <1>4 DEF k
  <2> QED
    BY <1>4, <1>6, <1>7, <2>1 DEF Truthful, OneFinal, k
<1>9. FinalsAreTrue(w, a, n)
  BY <1>4, <1>6, <1>7 DEF Truthful, FinalsAreTrue, k
<1>10. NothingLost(w, a, n) /\ ScreenTells(w, a, n)
  BY <1>6 DEF Truthful, NothingLost, ScreenTells, InTouch
<1>11. Truthful(w, a, n)
  BY <1>6, <1>8, <1>9, <1>10 DEF Truthful
<1> QED
  BY <1>11 DEF w

(* What the loop makes of the item it reads.                               *)
Taken(v) ==
  CASE Head(v.wire) = "event"    -> [v EXCEPT !.wire = Tail(@), !.shown = @ + 1]
    [] Head(v.wire) = "complete" -> [v EXCEPT !.wire = Tail(@), !.response = TRUE]
    [] OTHER -> [v EXCEPT !.wire = Tail(@), !.detail = Head(v.wire)]

LEMMA ReadKeepsTruth ==
  ASSUME NEW v, NEW n \in Nat, NEW a, Truthful(v, a, n), v.screen = "waiting",
         v.wire # <<>>
  PROVE  Truthful(Taken(v), a, n)
<1> DEFINE t == Tail(v.wire)
           k == Len(v.wire)
           w == Taken(v)
<1>1. /\ v \in View /\ v.wire \in Seq(Items) /\ v.shown \in Nat /\ ~v.response
      /\ v.detail \in {"none", "unreachable"}
  BY DEF Truthful, View, OneFinal, Complaints
<1>2. k \in Nat \ {0}
  BY <1>1
<1>3. /\ t \in Seq(Items) /\ Len(t) = k - 1
      /\ \A i \in 1..(k - 1) : t[i] = v.wire[i + 1]
      /\ Head(v.wire) = v.wire[1] /\ v.wire[1] \in Items
  BY <1>1
<1>4. \A i \in 1..k : i = 1 \/ (i - 1 \in 1..(k - 1) /\ (i - 1) + 1 = i)
  BY <1>2
<1>5. 1 \in 1..k /\ \A i \in 1..(k - 1) : i + 1 \in 1..k /\ (i + 1 = k => i = k - 1)
  BY <1>2
<1> HIDE DEF t, k, w
<1>6. CASE v.wire[1] = "event"
  <2>1. w = [v EXCEPT !.wire = t, !.shown = v.shown + 1]
    BY <1>3, <1>6 DEF w, Taken, t
  <2>2. /\ w \in View /\ w.wire = t /\ w.broken = v.broken /\ w.shown = v.shown + 1
        /\ ~w.response /\ w.detail = v.detail /\ w.screen = "waiting"
    <3>1. PICK u \in Nat : u = v.shown + 1
      BY <1>1
    <3>2. w = [v EXCEPT !.wire = t, !.shown = u]
      BY <2>1, <3>1
    <3>3. /\ w \in View /\ w.wire = t /\ w.broken = v.broken /\ w.shown = u
          /\ w.response = v.response /\ w.detail = v.detail /\ w.screen = v.screen
      BY <1>1, <1>3, <3>2 DEF View
    <3> QED
      BY <1>1, <3>1, <3>3
  <2>3. OneFinal(w)
    BY <1>1, <1>3, <1>5, <2>2 DEF Truthful, OneFinal, Complaints, k
  <2>4. FinalsAreTrue(w, a, n)
    <3>1. \A i \in 1..(k - 1) : (v.shown + 1) + i = v.shown + (i + 1)
      BY <1>1, <1>2
    <3>2. \A i \in 1..(k - 1) :
            /\ t[i] = "complete" => a = "complete" /\ (v.shown + 1) + i = n + 1
            /\ t[i] \in Complaints => a = "error"
      BY <1>3, <1>5, <3>1 DEF Truthful, FinalsAreTrue, k
    <3> QED
      BY <1>1, <1>3, <2>2, <3>2 DEF FinalsAreTrue, Complaints
  <2>5. NothingLost(w, a, n)
    <3>1. (v.shown + 1) + (k - 1) = v.shown + k
      BY <1>1, <1>2
    <3>2. ASSUME NEW S, \E i \in 1..k : v.wire[i] \in S, "event" \notin S
          PROVE  \E i \in 1..(k - 1) : t[i] \in S
      BY <1>3, <1>4, <1>6, <3>2
    <3>3. (\E i \in 1..k : v.wire[i] = "complete") => \E i \in 1..(k - 1) : t[i] = "complete"
      BY <1>3, <1>4, <1>6
    <3>4. (\E i \in 1..k : v.wire[i] \in Complaints) =>
            \E i \in 1..(k - 1) : t[i] \in Complaints
      BY <3>2 DEF Complaints
    <3> QED
      BY <1>1, <1>3, <2>2, <3>1, <3>3, <3>4 DEF Truthful, NothingLost, InTouch, k
  <2>6. ScreenTells(w, a, n)
    BY <2>2 DEF Truthful, ScreenTells
  <2> QED
    BY <2>2, <2>3, <2>4, <2>5, <2>6 DEF Truthful, w
<1>7. CASE v.wire[1] # "event"
  <2>1. k = 1
    BY <1>5, <1>7 DEF Truthful, OneFinal, k
  <2>2. t = <<>>
    BY <1>3, <2>1
  <2>3. CASE v.wire[1] = "complete"
    <3>1. w = [v EXCEPT !.wire = t, !.response = TRUE]
      BY <1>3, <2>3 DEF w, Taken, t
    <3>2. /\ w \in View /\ w.wire = <<>> /\ w.broken = v.broken /\ w.shown = v.shown
          /\ w.response = TRUE /\ w.detail = v.detail /\ w.screen = "waiting"
      BY <1>1, <1>3, <2>2, <3>1 DEF View
    <3>3. a = "complete" /\ v.shown = n
      <4>1. a = "complete" /\ v.shown + 1 = n + 1
        BY <1>5, <2>3 DEF Truthful, FinalsAreTrue, k
      <4> QED
        BY <1>1, <4>1
    <3> QED
      BY <1>1, <3>2, <3>3 DEF Truthful, OneFinal, FinalsAreTrue, NothingLost,
         ScreenTells, InTouch, Complaints, w
  <2>4. CASE v.wire[1] # "complete"
    <3>1. w = [v EXCEPT !.wire = t, !.detail = v.wire[1]]
      BY <1>3, <1>7, <2>4 DEF w, Taken, t
    <3>2. v.wire[1] \in Complaints
      BY <1>3, <1>7, <2>4 DEF Items
    <3>3. /\ w \in View /\ w.wire = <<>> /\ w.broken = v.broken /\ w.shown = v.shown
          /\ ~w.response /\ w.detail \in Complaints /\ w.screen = "waiting"
      BY <1>1, <1>3, <2>2, <3>1, <3>2 DEF View
    <3>4. a = "error"
      BY <1>5, <3>2 DEF Truthful, FinalsAreTrue, k
    <3> QED
      BY <1>1, <3>3, <3>4 DEF Truthful, OneFinal, FinalsAreTrue, NothingLost,
         ScreenTells, InTouch, Complaints, w
  <2> QED
    BY <2>3, <2>4
<1> QED
  BY <1>6, <1>7

(* The script comes to its end.                                            *)
LEMMA FinishTellsTruth ==
  ASSUME NEW v, NEW n \in Nat, NEW a \in {"complete", "error"}, Truthful(v, a, n),
         v.screen = "waiting", v.wire = <<>>, ~v.broken
  PROVE  Truthful([v EXCEPT !.screen = Rendered(v)], a, n)
<1> DEFINE w == [v EXCEPT !.screen = Rendered(v)]
<1>1. v \in View
  BY DEF Truthful
<1>2. /\ v.detail # "unreachable"
      /\ a = "complete" => v.response
      /\ a = "error" => v.detail \in Complaints
  BY <1>1 DEF Truthful, NothingLost, InTouch
<1>r. v.response => v.detail \in {"none", "unreachable"}
  BY DEF Truthful, OneFinal
<1>c. /\ v.response => a = "complete" /\ v.shown = n
      /\ v.detail \in Complaints => a = "error"
  BY DEF Truthful, FinalsAreTrue
<1>3. /\ v.response => a = "complete" /\ v.shown = n /\ v.detail = "none"
      /\ v.detail \in Complaints => a = "error" /\ ~v.response
  BY <1>2, <1>r, <1>c DEF Complaints
<1>4. Rendered(v) \in {"result", "nothing", "error"}
  BY DEF Rendered
<1>5. /\ w \in View /\ w.wire = <<>> /\ ~w.broken /\ w.shown = v.shown
      /\ w.response = v.response /\ w.detail = v.detail /\ w.screen = Rendered(v)
  BY <1>1, <1>4 DEF View
<1> HIDE DEF w
<1>6. ScreenTells(w, a, n)
  BY <1>2, <1>3, <1>4, <1>5 DEF ScreenTells, Rendered, Complaints
<1>7. Truthful(w, a, n)
  BY <1>3, <1>4, <1>5, <1>6 DEF Truthful, OneFinal, FinalsAreTrue, NothingLost,
     InTouch, Complaints
<1> QED
  BY <1>7 DEF w

LEMMA GivingUpTellsTruth ==
  ASSUME NEW v, NEW n \in Nat, NEW a, Truthful(v, a, n),
         v.screen = "waiting", v.wire = <<>>, a = "refused" \/ v.broken
  PROVE  LET u == [v EXCEPT !.detail = "unreachable"]
         IN  Truthful([u EXCEPT !.screen = Rendered(u)], a, n)
<1> DEFINE u == [v EXCEPT !.detail = "unreachable"]
           w == [u EXCEPT !.screen = Rendered(u)]
<1>1. v \in View
  BY DEF Truthful
<1>2. /\ u \in View /\ u.wire = <<>> /\ u.broken = v.broken /\ u.shown = v.shown
      /\ u.response = v.response /\ u.detail = "unreachable"
  BY <1>1 DEF View
<1> HIDE DEF u
<1>3. Rendered(u) = "error"
  BY <1>2 DEF Rendered
<1>4. /\ w \in View /\ w.wire = <<>> /\ w.broken = v.broken /\ w.shown = v.shown
      /\ w.response = v.response /\ w.detail = "unreachable" /\ w.screen = "error"
  BY <1>2, <1>3 DEF View
<1> HIDE DEF w
<1>5. v.response => a = "complete" /\ v.shown = n
  BY DEF Truthful, FinalsAreTrue
<1>6. a # "new"
  BY DEF Truthful, ScreenTells
<1>7. Truthful(w, a, n)
  BY <1>4, <1>5, <1>6 DEF Truthful, OneFinal, FinalsAreTrue, NothingLost, ScreenTells,
     InTouch, Complaints
<1> QED
  BY <1>7 DEF w, u

LEMMA LeavingTellsNothing ==
  ASSUME NEW v, NEW n \in Nat, NEW a, Truthful(v, a, n), v.screen = "waiting"
  PROVE  Truthful([Fresh EXCEPT !.screen = "left"], a, n)
<1> DEFINE w == [Fresh EXCEPT !.screen = "left"]
<1>1. Fresh \in View
  BY DEF Fresh, View
<1>2. /\ Fresh.wire = <<>> /\ Fresh.broken = FALSE /\ Fresh.shown = 0
      /\ Fresh.response = FALSE /\ Fresh.detail = "none"
  BY DEF Fresh
<1>3. /\ w \in View /\ w.wire = <<>> /\ w.response = FALSE /\ w.detail = "none"
      /\ w.screen = "left"
  BY <1>1, <1>2 DEF View
<1>4. a # "new"
  BY DEF Truthful, ScreenTells
<1> HIDE DEF w
<1>5. Truthful(w, a, n)
  BY <1>3, <1>4 DEF Truthful, OneFinal, FinalsAreTrue, NothingLost, ScreenTells,
     InTouch, Complaints
<1> QED
  BY <1>5 DEF w

-------------------------------------------------------------------------------
(* The steps of the whole tab.                                             *)

LEMMA OneViewAtATime ==
  ASSUME ViewInv, NEW r \in Streams, NEW v, view' = [view EXCEPT ![r] = v],
         Truthful(v, pc'[r], events'[r]),
         \A s \in Streams \ {r} : pc'[s] = pc[s] /\ events'[s] = events[s]
  PROVE  ViewInv'
<1>1. v \in View
  BY DEF Truthful
<1>2. view' \in [Streams -> View]
  BY <1>1 DEF ViewInv
<1>3. ASSUME NEW s \in Streams PROVE Truthful(view'[s], pc'[s], events'[s])
  <2>1. CASE s = r
    BY <2>1 DEF ViewInv
  <2>2. CASE s # r
    <3>1. view'[s] = view[s] /\ pc'[s] = pc[s] /\ events'[s] = events[s]
      BY <2>2 DEF ViewInv
    <3> QED
      BY <3>1 DEF ViewInv
  <2> QED
    BY <2>1, <2>2
<1> QED
  BY <1>2, <1>3 DEF ViewInv

LEMMA WatchKeepsViewInv ==
  ASSUME IInv, ViewInv, NEW r \in Streams, Watch(r)
  PROVE  ViewInv' /\ UNCHANGED vars
<1> DEFINE v == view[r]
<1>1. /\ r \in Requests /\ events[r] \in Nat /\ Truthful(v, pc[r], events[r])
      /\ UNCHANGED vars /\ v.screen = "waiting"
  BY ApiAssumption DEF ViewInv, Watch, Read, Finish, GiveUp, Open, IInv, CoreInv, TypeOK
<1>2. UNCHANGED <<pc, events>>
  BY <1>1 DEF vars, request
<1>3. \E w : Truthful(w, pc[r], events[r]) /\ view' = [view EXCEPT ![r] = w]
  <2>1. CASE Read(r)
    <3>1. v.wire # <<>> /\ view' = [view EXCEPT ![r] = Taken(v)]
      BY <2>1 DEF Read, Update, Taken
    <3> QED
      BY <1>1, <3>1, ReadKeepsTruth
  <2>2. CASE Finish(r)
    <3>1. /\ v.wire = <<>> /\ ~v.broken /\ pc[r] \in {"complete", "error"}
          /\ view' = [view EXCEPT ![r] = [v EXCEPT !.screen = Rendered(v)]]
      BY <2>2 DEF Finish, Update
    <3> QED
      BY <1>1, <3>1, FinishTellsTruth
  <2>3. CASE GiveUp(r)
    <3> DEFINE u == [v EXCEPT !.detail = "unreachable"]
    <3>1. /\ v.wire = <<>>
          /\ pc[r] = "refused" \/ v.broken
          /\ view' = [view EXCEPT ![r] = [u EXCEPT !.screen = Rendered(u)]]
      BY <2>3 DEF GiveUp, Update, CallFails
    <3> QED
      BY <1>1, <3>1, GivingUpTellsTruth
  <2> QED
    BY <2>1, <2>2, <2>3 DEF Watch
<1> QED
  BY <1>1, <1>2, <1>3, OneViewAtATime

LEMMA HangUpOnlyTells ==
  ASSUME NEW r \in Streams, HangUp(r)
  PROVE  [Next]_vars /\ UNCHANGED <<pc, events>>
<1>1. CASE UNCHANGED vars
  BY <1>1 DEF vars, request
<1>2. CASE Disconnect(r)
  BY <1>2, ApiAssumption DEF Disconnect, Next
<1> QED
  BY <1>1, <1>2 DEF HangUp

LEMMA LeavingKeepsViewInv ==
  ASSUME IInv, ViewInv, NEW r \in Streams, Leave(r) \/ Break(r)
  PROVE  ViewInv' /\ [Next]_vars
<1> DEFINE v == view[r]
<1>1. /\ r \in Requests /\ events[r] \in Nat /\ Truthful(v, pc[r], events[r])
      /\ v.screen = "waiting" /\ HangUp(r)
  BY ApiAssumption DEF ViewInv, Leave, Break, Open, IInv, CoreInv, TypeOK
<1>2. [Next]_vars /\ UNCHANGED <<pc, events>>
  BY <1>1, HangUpOnlyTells
<1>3. \E w : Truthful(w, pc[r], events[r]) /\ view' = [view EXCEPT ![r] = w]
  <2>1. CASE Leave(r)
    <3>1. view' = [view EXCEPT ![r] = [Fresh EXCEPT !.screen = "left"]]
      BY <2>1 DEF Leave, Update
    <3> QED
      BY <1>1, <3>1, LeavingTellsNothing
  <2>2. CASE Break(r)
    <3>1. PICK n \in 0..Len(v.wire) : view' = [view EXCEPT ![r] = CutAt(v, n)]
      BY <2>2 DEF Break, Update
    <3>2. Truthful(CutAt(v, n), pc[r], events[r])
      BY <1>1, CutKeepsTruth
    <3> QED
      BY <3>1, <3>2
  <2> QED
    BY <2>1, <2>2
<1> QED
  BY <1>2, <1>3, OneViewAtATime

(* One request moves, and says so to whoever watches it.                   *)
LEMMA YieldKeepsViewInv ==
  ASSUME ViewInv, NEW r \in Requests, NEW item \in Items, Yield(r, <<item>>),
         pc[r] \in Moving, events[r] \in Nat, events'[r] \in Nat,
         \/ item = "event" /\ pc'[r] \in Moving /\ events'[r] = events[r] + 1
         \/ item = "complete" /\ pc'[r] = "complete" /\ events'[r] = events[r]
         \/ item \in Complaints /\ pc'[r] = "error" /\ events'[r] = events[r],
         \A s \in Streams \ {r} : pc'[s] = pc[s] /\ events'[s] = events[s]
  PROVE  ViewInv'
<1>1. ASSUME NEW s \in Streams
      PROVE  Truthful(view'[s], pc'[s], events'[s])
  <2>1. CASE s # r
    <3>1. view'[s] = view[s]
      BY <2>1 DEF Yield
    <3> QED
      BY <2>1, <3>1 DEF ViewInv
  <2>2. CASE s = r /\ Open(r) /\ ~view[r].broken
    <3>1. view'[r] = [view[r] EXCEPT !.wire = @ \o <<item>>]
      BY <2>2 DEF Yield
    <3>2. /\ view[r].screen = "waiting" /\ ~view[r].broken
          /\ Truthful(view[r], pc[r], events[r])
      BY <2>2 DEF Open, ViewInv
    <3>3. Truthful([view[r] EXCEPT !.wire = @ \o <<item>>], pc'[r], events'[r])
      BY <3>2, ItemIsSent
    <3> QED
      BY <2>2, <3>1, <3>3
  <2>3. CASE s = r /\ ~(Open(r) /\ ~view[r].broken)
    <3>1. view'[r] = view[r] /\ Truthful(view[r], pc[r], events[r])
      BY <2>3 DEF Yield, ViewInv
    <3>2. pc'[r] \in Moving \cup {"complete", "error"}
      OBVIOUS
    <3> QED
      BY <2>3, <3>1, <3>2, NobodyListens DEF Open
  <2> QED
    BY <2>1, <2>2, <2>3
<1>2. view' \in [Streams -> View]
  <2>1. view' = [s \in Streams |-> view'[s]]
    BY DEF Yield
  <2> QED
    BY <1>1, <2>1 DEF Truthful
<1> QED
  BY <1>1, <1>2 DEF ViewInv

LEMMA ProduceKeepsViewInv ==
  ASSUME IInv, ViewInv, NEW r \in Requests, Produce(r)
  PROVE  ViewInv' /\ Serve(r)
<1>1. /\ pc \in [Requests -> {"new", Suspended} \cup Inside \cup Ended]
      /\ events \in [Requests -> Nat] /\ Streams \subseteq Requests
  BY ApiAssumption DEF IInv, CoreInv, TypeOK
<1>2. CASE RunEvent(r) /\ Yield(r, <<"event">>)
  <2>1. /\ pc[r] \in Moving /\ pc'[r] \in Moving /\ events'[r] = events[r] + 1
        /\ \A s \in Streams \ {r} : pc'[s] = pc[s] /\ events'[s] = events[s]
    BY <1>1, <1>2 DEF RunEvent, Goto, Moving, Inside, Suspended
  <2>2. events[r] \in Nat /\ events'[r] \in Nat /\ "event" \in Items
    BY <1>1, <2>1 DEF Items
  <2> QED
    BY <1>2, <2>1, <2>2, YieldKeepsViewInv DEF Serve
<1>3. CASE RunRaises(r) /\ \E items \in Complaint : Yield(r, items)
  <2>1. /\ pc[r] \in Moving /\ pc'[r] = "error" /\ events' = events
        /\ \A s \in Streams \ {r} : pc'[s] = pc[s] /\ events'[s] = events[s]
    BY <1>1, <1>3 DEF RunRaises, AfterRaise, Goto, Moving, Inside
  <2>2. PICK item \in Complaints : Yield(r, <<item>>)
    BY <1>3 DEF Complaint, Complaints
  <2>3. events[r] \in Nat /\ events'[r] = events[r] /\ item \in Items
    BY <1>1, <2>1 DEF Items
  <2> QED
    BY <1>3, <2>1, <2>2, <2>3, YieldKeepsViewInv DEF Serve
<1>4. CASE Answer(r) /\ Yield(r, <<"complete">>)
  <2>1. /\ pc[r] \in Moving /\ pc'[r] = "complete" /\ events' = events
        /\ \A s \in Streams \ {r} : pc'[s] = pc[s] /\ events'[s] = events[s]
    BY <1>1, <1>4 DEF Answer, Goto, Moving, Inside
  <2>2. events[r] \in Nat /\ events'[r] = events[r] /\ "complete" \in Items
    BY <1>1, <2>1 DEF Items
  <2> QED
    BY <1>4, <2>1, <2>2, YieldKeepsViewInv DEF Serve
<1>5. CASE /\ \/ BuildClient(r) \/ TakeClient(r) \/ Pull(r) \/ Drop(r)
              \/ RunFinal(r) \/ OpenFile(r) \/ WriteFile(r) \/ PersistFails(r)
           /\ UNCHANGED view
  <2>1. /\ pc[r] \in Moving /\ pc'[r] \in Moving /\ events' = events
        /\ \A s \in Streams \ {r} : pc'[s] = pc[s]
    BY <1>1, <1>5 DEF BuildClient, TakeClient, Pull, Drop, RunFinal, AfterFinal,
       OpenFile, WriteFile, PersistFails, Goto, Moving, Inside, Suspended
  <2>2. ASSUME NEW s \in Streams PROVE Truthful(view'[s], pc'[s], events'[s])
    <3>1. view'[s] = view[s] /\ events'[s] = events[s] /\ events[s] \in Nat
      BY <1>1, <1>5, <2>1
    <3>2. CASE s # r
      BY <2>1, <3>1, <3>2 DEF ViewInv
    <3>3. CASE s = r
      <4>1. Truthful(view[s], pc[s], events[s])
        BY DEF ViewInv
      <4> QED
        BY <2>1, <3>1, <3>3, <4>1, RequestMoves
    <3> QED
      BY <3>2, <3>3
  <2> QED
    BY <1>5, <2>2 DEF ViewInv, Serve
<1> QED
  BY <1>2, <1>3, <1>4, <1>5 DEF Produce

LEMMA SubmitKeepsViewInv ==
  ASSUME IInv, ViewInv, NEW r \in Streams, Submit(r)
  PROVE  ViewInv' /\ Arrive(r)
<1> DEFINE v == [view[r] EXCEPT !.screen = "waiting"]
<1>1. /\ pc \in [Requests -> {"new", Suspended} \cup Inside \cup Ended]
      /\ r \in Requests /\ Streams \subseteq Requests /\ Arrive(r)
  BY ApiAssumption DEF IInv, CoreInv, TypeOK, Submit
<1>2. /\ pc[r] = "new" /\ events' = events
      /\ \E there \in {"refused", "building", "taking"} : Goto(r, there)
  BY <1>1 DEF Arrive
<1>3. /\ pc'[r] \in Moving /\ events[r] \in Nat
      /\ \A s \in Streams \ {r} : pc'[s] = pc[s] /\ events'[s] = events[s]
  BY <1>1, <1>2 DEF Goto, Moving, Inside, IInv, CoreInv, TypeOK
<1>4. view' = [view EXCEPT ![r] = v]
  BY DEF Submit, ViewInv
<1>5. Truthful(view[r], "new", events[r])
  BY <1>2 DEF ViewInv
<1>6. Truthful(v, pc'[r], events'[r])
  BY <1>2, <1>3, <1>5, FormIsSent
<1> QED
  BY <1>1, <1>3, <1>4, <1>6, OneViewAtATime

(* The process dies, and the streams it was serving with it.               *)
LEMMA DeathKeepsViewInv ==
  ASSUME IInv, ViewInv, Die
  PROVE  ViewInv'
<1>1. PICK kept \in [Streams -> 0..MaxEvents] :
        view' = [s \in Streams |-> IF Open(s) /\ pc'[s] = "crashed"
                                     THEN CutAt(view[s], kept[s]) ELSE view[s]]
  BY DEF Die
<1>2. /\ pc' = [r \in Requests |->
                  IF pc[r] \in Ended \cup {"new"} THEN pc[r] ELSE "crashed"]
      /\ events' = events
  BY DEF Die, Crash
<1>3. ASSUME NEW s \in Streams PROVE Truthful(view'[s], pc'[s], events'[s])
  <2>1. /\ s \in Requests /\ events'[s] = events[s] /\ events[s] \in Nat
        /\ kept[s] \in Nat /\ Truthful(view[s], pc[s], events[s])
        /\ pc[s] \in {"new", Suspended} \cup Inside \cup Ended
    BY <1>2, ApiAssumption DEF IInv, CoreInv, TypeOK, ViewInv
  <2>2. pc'[s] = pc[s] \/ (pc[s] \in Moving /\ pc'[s] = "crashed")
    BY <1>2, <2>1 DEF Moving, Ended
  <2>3. Truthful(view[s], pc'[s], events[s])
    <3>1. "crashed" \in Moving
      BY DEF Moving
    <3> QED
      BY <2>1, <2>2, <3>1, RequestMoves
  <2>4. CASE Open(s) /\ pc'[s] = "crashed"
    <3>1. view'[s] = CutAt(view[s], kept[s])
      BY <1>1, <2>4
    <3> QED
      BY <2>1, <2>3, <2>4, <3>1, CutKeepsTruth DEF Open
  <2>5. CASE ~(Open(s) /\ pc'[s] = "crashed")
    <3>1. view'[s] = view[s]
      BY <1>1, <2>5
    <3> QED
      BY <2>1, <2>3, <3>1
  <2> QED
    BY <2>4, <2>5
<1>4. view' \in [Streams -> View]
  <2>1. view' = [s \in Streams |-> view'[s]]
    BY <1>1
  <2> QED
    BY <1>3, <2>1 DEF Truthful
<1> QED
  BY <1>3, <1>4 DEF ViewInv

-------------------------------------------------------------------------------
TabInv == IInv /\ ViewInv

LEMMA TabInvInitially == ViewInit => TabInv
<1> SUFFICES ASSUME ViewInit PROVE TabInv
  OBVIOUS
<1>1. Init /\ view = [r \in Streams |-> Fresh]
  BY DEF ViewInit
<1>2. \A r \in Streams : view[r] = Fresh /\ pc[r] = "new" /\ events[r] = 0
  BY <1>1, ApiAssumption DEF Init
<1>3. ViewInv
  <2>1. Fresh \in View
    BY AtStart DEF Truthful
  <2> QED
    BY <1>1, <1>2, <2>1, AtStart DEF ViewInv
<1> QED
  BY <1>1, <1>3, IInvInitially DEF TabInv

(* Every step of the tab keeps the invariant and is one of QueryApi, or    *)
(* none to it.                                                             *)
LEMMA TabSteps ==
  ASSUME TabInv, [TabNext]_tab
  PROVE  ViewInv' /\ [Next]_vars
<1> USE DEF TabInv
<1>1. ASSUME NEW r \in Streams, Submit(r) \/ Watch(r) \/ Leave(r) \/ Break(r)
      PROVE  ViewInv' /\ [Next]_vars
  <2>1. r \in Requests
    BY ApiAssumption
  <2> QED
    BY <1>1, <2>1, SubmitKeepsViewInv, WatchKeepsViewInv, LeavingKeepsViewInv DEF Next
<1>2. ASSUME NEW r \in Requests, Produce(r)
      PROVE  ViewInv' /\ [Next]_vars
  BY <1>2, ProduceKeepsViewInv DEF Next
<1>3. ASSUME NEW r \in Requests \ Streams, Arrive(r) \/ Disconnect(r), UNCHANGED view
      PROVE  ViewInv' /\ [Next]_vars
  <2>1. \A s \in Streams : pc'[s] = pc[s] /\ events'[s] = events[s]
    <3>1. /\ events' = events
          /\ \/ UNCHANGED pc \/ \E there : Goto(r, there)
      BY <1>3 DEF Arrive, Disconnect
    <3> QED
      BY <3>1, ApiAssumption DEF Goto, IInv, CoreInv, TypeOK
  <2> QED
    BY <1>3, <2>1 DEF ViewInv, Next
<1>4. CASE List /\ UNCHANGED view
  <2>1. UNCHANGED <<pc, events>>
    BY <1>4 DEF List, StartList, Stat, SortList, ReadFile, EndList, request
  <2> QED
    BY <1>4, <2>1 DEF ViewInv, Next
<1>5. CASE Die
  BY <1>5, DeathKeepsViewInv DEF Die, Next
<1>6. CASE UNCHANGED tab
  BY <1>6 DEF tab, vars, request, ViewInv
<1> QED
  BY <1>1, <1>2, <1>3, <1>4, <1>5, <1>6 DEF TabNext

LEMMA TabInvHolds == TabSpec => []TabInv
<1>1. TabInv /\ [TabNext]_tab => TabInv'
  BY TabSteps, IInvInductive DEF TabInv
<1> QED
  BY <1>1, TabInvInitially, PTL DEF TabSpec

(* The tab hides nothing of the server and adds nothing to it: a server    *)
(* with browsers at its streams does what QueryApi describes, so every     *)
(* theorem about Spec is one about TabSpec.                                *)
THEOREM TabRefinesApi == TabSpec => Spec
<1>1. ViewInit => Init
  BY DEF ViewInit
<1>2. TabInv /\ [TabNext]_tab => [Next]_vars
  BY TabSteps
<1> QED
  BY <1>1, <1>2, TabInvHolds, PTL DEF TabSpec, Spec

(* What the user sees is what happened: no result but that of a completed  *)
(* run with all its events, stored unless the disk failed; "no response"   *)
(* only for an exception without a message; no result withheld but over a  *)
(* broken connection.                                                      *)
THEOREM ScreensAreTrue == TabSpec => []ScreenIsTrue
<1>1. TabInv => ScreenIsTrue
  <2> SUFFICES ASSUME TabInv, NEW r \in Streams
               PROVE  /\ view[r].screen = "result" =>
                           /\ pc[r] = "complete" /\ view[r].shown = events[r]
                           /\ Loads(r) \/ failed[r]
                      /\ view[r].screen = "nothing" =>
                           pc[r] = "error" /\ view[r].detail = "unexplained"
                      /\ view[r].screen = "error" /\ view[r].response => view[r].broken
    BY DEF ScreenIsTrue
  <2>1. ScreenTells(view[r], pc[r], events[r])
    BY DEF TabInv, ViewInv, Truthful
  <2>2. r \in Requests /\ (pc[r] = "complete" => disk[r] = "whole" \/ failed[r])
    BY ApiAssumption DEF TabInv, IInv, CoreInv, FileInv
  <2> QED
    BY <2>1, <2>2 DEF ScreenTells, Loads
<1> QED
  BY <1>1, TabInvHolds, PTL
===============================================================================
