---------------------------- MODULE CoversProofs ----------------------------
(***************************************************************************)
(* The safety invariants of Covers, for every database, trace, set of      *)
(* documents and cache size: the cache stays coherent, the maximum of a    *)
(* type covers what can still be used, and an accepted reply is the block. *)
(***************************************************************************)
EXTENDS Covers, FiniteSetTheorems, SequenceTheorems, TLAPS

-----------------------------------------------------------------------------
(* Largest and smallest elements.  The induction is in the library: strict *)
(* inclusion is well founded on the finite subsets of a set.               *)

(* A finite set of numbers that is not empty has a largest element.        *)
LEMMA FiniteMax ==
    ASSUME NEW S \in SUBSET Int, IsFiniteSet(S), S # {}
    PROVE  \E x \in S : \A y \in S : y <= x
<1> DEFINE Above(x) == {y \in S : y > x}
           F == {Above(x) : x \in S}
<1>1. F \subseteq FiniteSubsetsOf(S)
  BY FS_Subset DEF FiniteSubsetsOf
<1>2. F # {}
  OBVIOUS
<1>3. IsWellFoundedOn(StrictSubsetOrdering(S), FiniteSubsetsOf(S))
  BY FS_StrictSubsetOrderingWellFounded
<1> HIDE DEF F
<1>4. PICK m \in F : \A y \in F : <<y, m>> \notin StrictSubsetOrdering(S)
  BY <1>1, <1>2, <1>3, WFMin
<1> USE DEF F
<1>5. PICK x \in S : m = Above(x)
  OBVIOUS
<1>6. ASSUME NEW y \in S, ~(y <= x) PROVE FALSE
  <2>1. Above(y) \in F
    OBVIOUS
  <2>2. Above(y) \subseteq Above(x)
    <3>1. ASSUME NEW z \in S, z > y PROVE z > x
      <4>1. x \in Int /\ y \in Int /\ z \in Int
        OBVIOUS
      <4> QED
        BY <4>1, <3>1, <1>6
    <3> QED
      BY <3>1
  <2>4. y \in Above(x) /\ y \notin Above(y)
    BY <1>6
  <2>5. Above(y) # Above(x)
    BY <2>4
  <2>3. <<Above(y), m>> \in StrictSubsetOrdering(S)
    BY <2>2, <2>5, <1>5 DEF StrictSubsetOrdering
  <2> QED
    BY <2>1, <2>3, <1>4
<1> QED
  BY <1>6

(* A set of positions that is not empty has a first one.                   *)
LEMMA FirstPosition ==
    ASSUME NEW n \in Nat, NEW S \in SUBSET (1..n), S # {}
    PROVE  Min(S) \in S /\ \A y \in S : Min(S) <= y
<1> DEFINE T == {n - y : y \in S}
<1>1. T \in SUBSET (0..n) /\ T # {}
  <2>1. ASSUME NEW y \in S PROVE n - y \in 0..n
    OBVIOUS
  <2>2. PICK y \in S : TRUE
    OBVIOUS
  <2> QED
    BY <2>1, <2>2
<1>2. IsFiniteSet(T)
  <2>1. IsFiniteSet(0..n)
    BY FS_Interval
  <2> HIDE DEF T
  <2> QED
    BY <1>1, <2>1, FS_Subset
<1> HIDE DEF T
<1>3. PICK x \in T : \A y \in T : y <= x
  BY <1>1, <1>2, FiniteMax
<1> USE DEF T
<1>4. n - x \in S /\ \A y \in S : n - x <= y
  BY <1>3
<1> QED
  BY <1>4 DEF Min

(* Largest is a bound of a finite set of capacities, and a capacity.       *)
LEMMA LargestBounds ==
    ASSUME NEW S \in SUBSET Nat, IsFiniteSet(S)
    PROVE  Largest(S) \in Nat /\ \A y \in S : y <= Largest(S)
<1>1. CASE S = {}
  BY <1>1 DEF Largest
<1>2. CASE S # {}
  <2>1. PICK x \in S : \A y \in S : y <= x
    BY <1>2, FiniteMax
  <2>2. x \in S \cup {0}
    BY <2>1
  <2> DEFINE P(z) == \A y \in S : y <= z
  <2>3. Largest(S) = CHOOSE z \in S \cup {0} : P(z)
    BY DEF Largest
  <2>4. P(x)
    BY <2>1
  <2> HIDE DEF P
  <2>5. Largest(S) \in S \cup {0} /\ P(Largest(S))
    BY <2>2, <2>3, <2>4
  <2>6. S \cup {0} \subseteq Nat
    OBVIOUS
  <2>7. Largest(S) \in Nat
    BY <2>5, <2>6
  <2> QED
    BY <2>5, <2>7 DEF P
<1> QED
  BY <1>1, <1>2

-----------------------------------------------------------------------------
(* The payload database.                                                   *)

PayloadRecs == [hash : Hashes, type : Types, capacity : Nat, length : Nat]

(* A hash of the database stands for one of its records.                   *)
LEMMA PayloadKnown ==
    ASSUME NEW h \in Hashes
    PROVE  /\ Payload(h) \in PayloadRecs
           /\ \E i \in DOMAIN Database : Payload(h) = Database[i]
<1> DEFINE I == {i \in 1..Len(Database) : Database[i].hash = h}
<1>1. Database \in Seq(PayloadRecs)
  BY DatabaseAssumption DEF PayloadRecs
<1>2. DOMAIN Database = 1..Len(Database) /\ Len(Database) \in Nat
  BY <1>1
<1>3. I # {}
  BY <1>2 DEF Hashes
<1>4. Min(I) \in I
  <2> HIDE DEF I
  <2>1. I \in SUBSET (1..Len(Database))
    BY DEF I
  <2> QED
    BY <2>1, <1>2, <1>3, FirstPosition
<1>5. Payload(h) = Database[Min(I)]
  BY <1>3 DEF Payload, SelectInSeq
<1>6. Min(I) \in DOMAIN Database
  BY <1>2, <1>4
<1>7. \A i \in DOMAIN Database : Database[i] \in PayloadRecs
  BY <1>1
<1> QED
  BY <1>5, <1>6, <1>7

(* Any set of capacities of the database is finite.                        *)
LEMMA CapacitiesFinite ==
    ASSUME NEW S, \A x \in S : \E i \in DOMAIN Database : x = Database[i].capacity
    PROVE  S \in SUBSET Nat /\ IsFiniteSet(S)
<1> DEFINE D == DOMAIN Database
           f == [i \in D |-> Database[i].capacity]
           R == {Database[i].capacity : i \in D}
<1>1. Database \in Seq(PayloadRecs)
  BY DatabaseAssumption DEF PayloadRecs
<1>2. D = 1..Len(Database) /\ Len(Database) \in Nat
  BY <1>1
<1>3. IsFiniteSet(D)
  BY <1>2, FS_Interval
<1>4. f \in Surjection(D, R)
  BY DEF Surjection
<1>5. IsFiniteSet(R)
  <2> HIDE DEF D, f, R
  <2> QED
    BY <1>3, <1>4, FS_Surjection
<1>6. S \in SUBSET R
  OBVIOUS
<1>7. R \in SUBSET Nat
  <2>1. \A i \in D : Database[i] \in PayloadRecs
    BY <1>1
  <2>2. \A i \in D : Database[i].capacity \in Nat
    BY <2>1 DEF PayloadRecs
  <2> QED
    BY <2>2
<1> HIDE DEF R
<1> QED
  BY <1>5, <1>6, <1>7, FS_Subset

-----------------------------------------------------------------------------
(* Capacities.                                                             *)

Usable == Hashes \ corrupted

CapInv == Apache => /\ max_capacity \in [Types -> Nat]
                    /\ \A h \in Usable : Payload(h).capacity <= max_capacity[Payload(h).type]

LEMMA InitCap == ASSUME Init PROVE CapInv
<1> SUFFICES ASSUME Apache PROVE CapInv
  BY DEF CapInv
<1> DEFINE Of(t) == {Database[i].capacity : i \in {j \in DOMAIN Database : Database[j].type = t}}
<1>1. max_capacity = [t \in Types |-> Largest(Of(t))]
  BY DEF Init, LoadDatabase
<1>2. ASSUME NEW t PROVE Of(t) \in SUBSET Nat /\ IsFiniteSet(Of(t))
  <2>1. \A x \in Of(t) : \E i \in DOMAIN Database : x = Database[i].capacity
    OBVIOUS
  <2> HIDE DEF Of
  <2> QED
    BY <2>1, CapacitiesFinite
<1>3. ASSUME NEW t PROVE Largest(Of(t)) \in Nat /\ \A y \in Of(t) : y <= Largest(Of(t))
  <2> HIDE DEF Of
  <2> QED
    BY <1>2, LargestBounds
<1>4. max_capacity \in [Types -> Nat]
  <2> HIDE DEF Of
  <2> QED
    BY <1>1, <1>3
<1>5. ASSUME NEW h \in Usable
      PROVE  Payload(h).capacity <= max_capacity[Payload(h).type]
  <2>1. h \in Hashes
    BY DEF Usable
  <2>2. Payload(h) \in PayloadRecs
    BY <2>1, PayloadKnown
  <2>3. PICK i \in DOMAIN Database : Payload(h) = Database[i]
    BY <2>1, PayloadKnown
  <2>4. Payload(h).capacity \in Of(Payload(h).type)
    BY <2>3
  <2>5. Payload(h).type \in Types
    BY <2>2 DEF PayloadRecs
  <2> HIDE DEF Of
  <2> QED
    BY <1>1, <1>3, <2>4, <2>5
<1> QED
  BY <1>4, <1>5 DEF CapInv

(* adjust_type_max_capacity looks at every cover of the type that is still *)
(* good, so it finds a bound of theirs; other types keep their maximum.    *)
LEMMA DisqualifyCap ==
    ASSUME CapInv, NEW h, DisqualifyPayload(h), UNCHANGED kind
    PROVE  CapInv'
<1>1. CASE ~Apache
  BY <1>1 DEF CapInv, Apache
<1>2. CASE Apache
  <2> DEFINE t == Payload(h).type
             bad == corrupted \cup {h}
             Left == {Payload(g).capacity : g \in {g \in Hashes \ bad : Payload(g).type = t}}
  <2>1. /\ corrupted' = bad
        /\ max_capacity' = AdjustTypeMaxCapacity(h, bad)
    BY <1>2 DEF DisqualifyPayload
  <2>2. max_capacity \in [Types -> Nat]
    BY <1>2 DEF CapInv
  <2>3. Left \in SUBSET Nat /\ IsFiniteSet(Left)
    <3>1. \A x \in Left : \E i \in DOMAIN Database : x = Database[i].capacity
      <4>1. ASSUME NEW g \in Hashes
            PROVE  \E i \in DOMAIN Database : Payload(g).capacity = Database[i].capacity
        <5>1. PICK i \in DOMAIN Database : Payload(g) = Database[i]
          BY PayloadKnown
        <5> QED
          BY <5>1
      <4> QED
        BY <4>1
    <3> HIDE DEF Left
    <3> QED
      BY <3>1, CapacitiesFinite
  <2>4. Largest(Left) \in Nat /\ \A y \in Left : y <= Largest(Left)
    <3> HIDE DEF Left
    <3> QED
      BY <2>3, LargestBounds
  <2>5. \/ max_capacity' = max_capacity
        \/ max_capacity' = [max_capacity EXCEPT ![t] = Largest(Left)]
    BY <2>1 DEF AdjustTypeMaxCapacity
  <2>6. max_capacity' \in [Types -> Nat]
    <3> HIDE DEF Left, t
    <3> QED
      BY <2>2, <2>4, <2>5
  <2>7. ASSUME NEW g \in Hashes, g \notin bad
        PROVE  Payload(g).capacity <= max_capacity'[Payload(g).type]
    <3>1. Payload(g).type \in Types
      BY PayloadKnown DEF PayloadRecs
    <3>2. Payload(g).capacity <= max_capacity[Payload(g).type]
      BY <1>2, <2>7 DEF CapInv, Usable
    <3>3. Payload(g).type = t => Payload(g).capacity <= Largest(Left)
      <4>1. Payload(g).type = t => Payload(g).capacity \in Left
        BY <2>7
      <4> HIDE DEF Left
      <4> QED
        BY <4>1, <2>4
    <3> HIDE DEF Left, t
    <3> QED
      BY <2>2, <2>5, <3>1, <3>2, <3>3
  <2> QED
    BY <1>2, <2>1, <2>6, <2>7 DEF CapInv, Usable, Apache
<1> QED
  BY <1>1, <1>2

(* What a step does to the database and to the settings.                   *)
LEMMA DatabaseSteps ==
    ASSUME Next
    PROVE  /\ UNCHANGED <<kind, debug>>
           /\ \/ UNCHANGED <<corrupted, max_capacity>>
              \/ DisqualifyPayload(cur.cover)
              \/ corrupted \subseteq corrupted' /\ UNCHANGED max_capacity
<1> USE DEF Fixed, DatabaseKept
<1>1. ASSUME NEW c \in Conns, Request(c) \/ Transmit(c) \/ Receive(c)
      PROVE  UNCHANGED <<kind, debug, corrupted, max_capacity>>
  BY <1>1 DEF Request, Transmit, Receive
<1>2. CASE FetchGivenUp
  BY <1>2 DEF FetchGivenUp
<1>3. CASE EmbedHeaderless \/ EmbedTooLarge \/ EmbedRefused
  BY <1>3 DEF EmbedHeaderless, EmbedTooLarge, EmbedRefused
<1>4. CASE EmitResized
  BY <1>4 DEF EmitResized
<1>5. CASE PickAppropriateCoverPayload \/ Search \/ FetchHit \/ FetchMiss \/ FetchDrop
  BY <1>5 DEF PickAppropriateCoverPayload, Search, FetchHit, FetchMiss, FetchDrop
<1>6. CASE TraceSearch \/ EmbedDone \/ EmitNothing \/ EmitSelfTestFails \/ EmitSame
  BY <1>6 DEF TraceSearch, EmbedDone, EmitNothing, EmitSelfTestFails, EmitSame
<1> QED
  BY <1>1, <1>2, <1>3, <1>4, <1>5, <1>6 DEF Next, Step

LEMMA NextCap == ASSUME CapInv, [Next]_vars PROVE CapInv'
<1>1. CASE UNCHANGED vars
  BY <1>1 DEF vars, CapInv, Usable, Apache
<1>2. CASE Next
  <2>1. CASE UNCHANGED <<corrupted, max_capacity>>
    BY <1>2, <2>1, DatabaseSteps DEF CapInv, Usable, Apache
  <2>2. CASE DisqualifyPayload(cur.cover)
    BY <1>2, <2>2, DatabaseSteps, DisqualifyCap
  <2>3. CASE corrupted \subseteq corrupted' /\ UNCHANGED max_capacity
    BY <1>2, <2>3, DatabaseSteps DEF CapInv, Usable, Apache
  <2> QED
    BY <1>2, <2>1, <2>2, <2>3, DatabaseSteps
<1> QED
  BY <1>1, <1>2

(* Disqualifying covers never lowers the maximum of a type below a cover   *)
(* that can still be used (PayloadDatabase::adjust_type_max_capacity):     *)
(* transmit_room never refuses a block that some good cover would hold.    *)
THEOREM MaximumBoundsUsable == Spec => []UsableFits
<1>1. CapInv => UsableFits
  BY DEF CapInv, UsableFits, Usable
<1> QED
  BY <1>1, InitCap, NextCap, PTL DEF Spec

-----------------------------------------------------------------------------
(* The running call and the connections.  Covers and documents are values  *)
(* the invariant says nothing about: they are in some set D.               *)

Outs == {"zero", "negative", "positive"}

CurRecs(D) ==
    {Idle}
    \cup [pc : {"pick"}, conn : Conns, len : Int, out : Outs]
    \cup [pc : {"search", "trace"}, conn : Conns, len : Int, out : Outs, searches : Int]
    \cup [pc : {"fetch", "drop"}, conn : Conns, len : Int, out : Outs, searches : Int,
          cover : D, fetches : Int]
    \cup [pc : {"embed", "emit"}, conn : Conns, len : Int, out : Outs, cover : D, doc : D]

ConnRecs(D) ==
    [type : Types \cup {"none"}, state : {"new", "ready", "sent", "failed"},
     drained : Int, reply : {"none", "nothing", "document"}, carries : Int,
     has_length : D, garbled : BOOLEAN, arrived : ToSet(Stages),
     result : {"none", "good", "bad"}, got : Int]

CurInv == \E D : cur \in CurRecs(D)

(* A reply is only for a connection that has none; what it carries was     *)
(* drained, and is garbled only when the self-test is off; only a document *)
(* is looked at by the client.                                             *)
Honest(r) ==
    /\ r.state # "sent" => r.reply = "none"
    /\ r.reply # "document" => r.result = "none"
    /\ r.reply = "document" => r.carries = r.drained /\ (r.garbled => ~debug)
    /\ r.result = "good" => r.got = r.drained \/ (r.garbled /\ ~debug)

ConnInv == /\ \E D : conn \in [Conns -> ConnRecs(D)]
           /\ cur.pc # "idle" => conn[cur.conn].state = "ready"
           /\ \A c \in Conns : Honest(conn[c])

LEMMA CurConn ==
    ASSUME CurInv, cur.pc # "idle"
    PROVE  cur.conn \in Conns /\ cur.len \in Int /\ cur.out \in Outs
<1>1. PICK D : cur \in CurRecs(D)
  BY DEF CurInv
<1> QED
  BY <1>1 DEF CurRecs, Idle

LEMMA InitConn == ASSUME Init PROVE CurInv /\ ConnInv
<1>1. CurInv
  <2>1. cur \in CurRecs({})
    BY DEF Init, CurRecs
  <2> QED
    BY <2>1 DEF CurInv
<1>2. conn \in [Conns -> ConnRecs({FALSE})]
  <2>1. NoConn \in ConnRecs({FALSE})
    BY DEF NoConn, ConnRecs, ToSet, Stages
  <2> QED
    BY <2>1 DEF Init
<1>3. \A c \in Conns : Honest(conn[c])
  BY DEF Init, NoConn, Honest
<1> QED
  BY <1>1, <1>2, <1>3 DEF ConnInv, Init, Idle

(* A step that leaves the connections alone and goes on with the same one. *)
LEMMA ContinueKeeps ==
    ASSUME ConnInv, UNCHANGED <<conn, debug>>,
           cur'.pc # "idle" => cur.pc # "idle" /\ cur'.conn = cur.conn
    PROVE  ConnInv'
  BY DEF ConnInv, Honest

LEMMA ReturnErrorKeeps ==
    ASSUME CurInv, ConnInv, ReturnError, UNCHANGED debug, cur.pc # "idle"
    PROVE  CurInv' /\ ConnInv'
<1>1. cur' = Idle /\ cur'.pc = "idle"
  BY DEF ReturnError, Idle
<1>2. CurInv'
  <2>1. cur' \in CurRecs({})
    BY <1>1 DEF CurRecs
  <2> QED
    BY <2>1 DEF CurInv
<1>3. PICK D : conn \in [Conns -> ConnRecs(D)]
  BY DEF ConnInv
<1>4. cur.conn \in Conns
  BY CurConn
<1> DEFINE r == conn[cur.conn]
           q == [r EXCEPT !.state = "failed"]
<1>5. conn' = [conn EXCEPT ![cur.conn] = q]
  BY <1>3, <1>4 DEF ReturnError
<1>6. r \in ConnRecs(D) /\ r.state = "ready" /\ Honest(r)
  BY <1>3, <1>4 DEF ConnInv
<1>7. q \in ConnRecs(D)
  BY <1>6 DEF ConnRecs
<1>8. q.reply = "none" /\ q.result = "none"
  BY <1>6 DEF ConnRecs, Honest
<1> HIDE DEF q
<1>9. conn' \in [Conns -> ConnRecs(D)]
  BY <1>3, <1>5, <1>7
<1>10. \A c \in Conns : conn'[c] = IF c = cur.conn THEN q ELSE conn[c]
  BY <1>3, <1>4, <1>5
<1>11. \A c \in Conns : Honest(conn[c])'
  BY <1>8, <1>10 DEF ConnInv, Honest
<1> QED
  BY <1>1, <1>2, <1>9, <1>11 DEF ConnInv

LEMMA AbortKeeps ==
    ASSUME ConnInv, NEW why, Abort(why), UNCHANGED debug
    PROVE  CurInv' /\ ConnInv'
<1>1. cur' = Idle /\ cur'.pc = "idle"
  BY DEF Abort, Idle
<1>2. cur' \in CurRecs({})
  BY <1>1 DEF CurRecs
<1> QED
  BY <1>1, <1>2, ContinueKeeps DEF Abort, CurInv

(* The reply of a call that is not a lie: a document carries the block.    *)
LEMMA ReplyKeeps ==
    ASSUME CurInv, ConnInv, cur.pc # "idle", UNCHANGED debug,
           NEW reply \in {"nothing", "document"}, NEW carries \in Int, NEW has_length,
           NEW garbled \in BOOLEAN, Reply(reply, carries, has_length, garbled),
           reply = "document" => carries = cur.len /\ (garbled => ~debug)
    PROVE  CurInv' /\ ConnInv'
<1>1. cur' = Idle /\ cur'.pc = "idle"
  BY DEF Reply, Idle
<1>2. CurInv'
  <2>1. cur' \in CurRecs({})
    BY <1>1 DEF CurRecs
  <2> QED
    BY <2>1 DEF CurInv
<1>3. PICK D : conn \in [Conns -> ConnRecs(D)]
  BY DEF ConnInv
<1>4. cur.conn \in Conns /\ cur.len \in Int
  BY CurConn
<1> DEFINE r == conn[cur.conn]
           q == [r EXCEPT !.state = "sent", !.drained = cur.len, !.reply = reply,
                          !.carries = carries, !.has_length = has_length,
                          !.garbled = garbled]
           E == D \cup {has_length}
<1>5. conn' = [conn EXCEPT ![cur.conn] = q]
  BY <1>3, <1>4 DEF Reply
<1>6. r \in ConnRecs(D) /\ r.state = "ready" /\ Honest(r)
  BY <1>3, <1>4 DEF ConnInv
<1>7. r.result = "none"
  BY <1>6 DEF Honest
<1>8. q \in ConnRecs(E)
  BY <1>4, <1>6 DEF ConnRecs
<1>9. q.reply = reply /\ q.carries = carries /\ q.drained = cur.len
      /\ q.garbled = garbled /\ q.result = "none" /\ q.state = "sent"
  BY <1>6, <1>7 DEF ConnRecs
<1>10. ConnRecs(D) \subseteq ConnRecs(E)
  BY DEF ConnRecs
<1> HIDE DEF q, E
<1>11. conn' \in [Conns -> ConnRecs(E)]
  BY <1>3, <1>5, <1>8, <1>10
<1>12. \A c \in Conns : conn'[c] = IF c = cur.conn THEN q ELSE conn[c]
  BY <1>3, <1>4, <1>5
<1>13. \A c \in Conns : Honest(conn[c])'
  BY <1>9, <1>12 DEF ConnInv, Honest
<1> QED
  BY <1>1, <1>2, <1>11, <1>13 DEF ConnInv

(* The call goes on: its new record is one of the shapes.                  *)
LEMMA GoesOn ==
    ASSUME ConnInv, cur.pc # "idle", NEW rec, Continue(rec), UNCHANGED debug,
           NEW D, rec \in CurRecs(D), rec.pc # "idle", rec.conn = cur.conn
    PROVE  CurInv' /\ ConnInv'
<1>1. cur' = rec /\ conn' = conn
  BY DEF Continue
<1>2. CurInv'
  BY <1>1 DEF CurInv
<1> QED
  BY <1>1, <1>2, ContinueKeeps

LEMMA RequestConn ==
    ASSUME CurInv, ConnInv, NEW c \in Conns, Request(c) PROVE CurInv' /\ ConnInv'
<1>1. UNCHANGED <<cur, debug>> /\ cur.pc = "idle" /\ conn[c].state = "new"
  BY DEF Request, Fixed, Idle
<1>2. PICK D : conn \in [Conns -> ConnRecs(D)]
  BY DEF ConnInv
<1>3. PICK t \in Types : conn' = [conn EXCEPT ![c].type = t, ![c].state = "ready"]
  BY DEF Request
<1> DEFINE r == conn[c]
           q == [r EXCEPT !.type = t, !.state = "ready"]
<1>4. conn' = [conn EXCEPT ![c] = q]
  BY <1>2, <1>3
<1>5. r \in ConnRecs(D) /\ Honest(r)
  BY <1>2 DEF ConnInv
<1>6. q \in ConnRecs(D) /\ q.reply = r.reply /\ q.result = r.result
  BY <1>5 DEF ConnRecs
<1>7. r.reply = "none" /\ r.result = "none"
  BY <1>1, <1>5 DEF Honest
<1> HIDE DEF q
<1>8. conn' \in [Conns -> ConnRecs(D)]
  BY <1>2, <1>4, <1>6
<1>9. \A d \in Conns : conn'[d] = IF d = c THEN q ELSE conn[d]
  BY <1>2, <1>4
<1>10. \A d \in Conns : Honest(conn[d])'
  BY <1>1, <1>6, <1>7, <1>9 DEF ConnInv, Honest
<1> QED
  BY <1>1, <1>8, <1>10 DEF ConnInv, CurInv

LEMMA TransmitConn ==
    ASSUME CurInv, ConnInv, NEW c \in Conns, Transmit(c) PROVE CurInv' /\ ConnInv'
<1>1. UNCHANGED <<conn, debug>>
  BY DEF Transmit, Continue, Fixed
<1>2. PICK n \in TransmitRoom(c) :
        cur' = [pc |-> "pick", conn |-> c, len |-> n, out |-> "zero"]
  BY DEF Transmit, Continue
<1>3. n \in Int /\ conn[c].state = "ready"
  BY DEF TransmitRoom
<1>4. cur' \in CurRecs({})
  BY <1>2, <1>3 DEF CurRecs, Outs
<1>5. cur'.conn = c
  BY <1>2
<1> QED
  BY <1>1, <1>3, <1>4, <1>5 DEF CurInv, ConnInv, Honest

(* The client reads more of a reply: it accepts what was carried, and that *)
(* was drained.                                                            *)
LEMMA ReceiveConn ==
    ASSUME CurInv, ConnInv, NEW c \in Conns, Receive(c) PROVE CurInv' /\ ConnInv'
<1>1. UNCHANGED <<cur, debug>> /\ conn[c].reply = "document" /\ conn[c].result = "none"
  BY DEF Receive, Fixed
<1>2. PICK D : conn \in [Conns -> ConnRecs(D)]
  BY DEF ConnInv
<1> DEFINE r == conn[c]
<1>3. r \in ConnRecs(D) /\ Honest(r)
  BY <1>2 DEF ConnInv
<1>4. PICK s \in ToSet(Stages), bad \in BOOLEAN :
        LET new == [r EXCEPT !.arrived = s]
        IN  conn' = [conn EXCEPT ![c] =
                   IF s = "some" THEN new
                   ELSE IF ~new.has_length \/ bad THEN [new EXCEPT !.result = "bad"]
                   ELSE IF s = "header" THEN new
                   ELSE [new EXCEPT !.result = "good",
                                    !.got = IF new.garbled THEN 0 ELSE new.carries]]
  BY DEF Receive
<1> DEFINE new == [r EXCEPT !.arrived = s]
           taken == IF new.garbled THEN 0 ELSE new.carries
           good == [new EXCEPT !.result = "good", !.got = taken]
           refused == [new EXCEPT !.result = "bad"]
<1>5. PICK q \in {new, good, refused} : conn' = [conn EXCEPT ![c] = q]
  BY <1>4
<1>6. /\ new \in ConnRecs(D) /\ new.reply = "document" /\ new.state = r.state
      /\ new.result = "none" /\ new.carries = r.carries /\ new.drained = r.drained
      /\ new.garbled = r.garbled
  BY <1>1, <1>3 DEF ConnRecs
<1>15. taken \in Int /\ taken = IF r.garbled THEN 0 ELSE r.carries
  <2>1. new.carries \in Int
    BY <1>6 DEF ConnRecs
  <2> QED
    BY <1>6, <2>1
<1> HIDE DEF new, taken
<1>7. /\ refused \in ConnRecs(D) /\ refused.reply = "document" /\ refused.state = r.state
      /\ refused.result = "bad" /\ refused.carries = r.carries
      /\ refused.drained = r.drained /\ refused.garbled = r.garbled
  BY <1>6 DEF ConnRecs
<1>8. /\ good \in ConnRecs(D) /\ good.reply = "document" /\ good.state = r.state
      /\ good.carries = r.carries /\ good.drained = r.drained
      /\ good.garbled = r.garbled /\ good.got = taken
  BY <1>6, <1>15 DEF ConnRecs
<1>9. r.state = "sent" /\ r.carries = r.drained /\ (r.garbled => ~debug)
  BY <1>1, <1>3 DEF Honest, ConnRecs
<1> HIDE DEF good, refused, r
<1>10. Honest(q) /\ q \in ConnRecs(D) /\ q.state = r.state
  <2>1. CASE q = new
    BY <2>1, <1>6, <1>9 DEF Honest
  <2>2. CASE q = refused
    BY <2>2, <1>7, <1>9 DEF Honest
  <2>3. CASE q = good
    BY <2>3, <1>8, <1>9, <1>15 DEF Honest
  <2> QED
    BY <2>1, <2>2, <2>3
<1>11. conn' \in [Conns -> ConnRecs(D)]
  BY <1>2, <1>5, <1>10
<1>12. \A d \in Conns : conn'[d] = IF d = c THEN q ELSE conn[d]
  BY <1>2, <1>5
<1>13. \A d \in Conns : Honest(conn[d])'
  BY <1>1, <1>10, <1>12 DEF ConnInv, Honest
<1>14. cur'.pc # "idle" => conn'[cur'.conn].state = "ready"
  BY <1>1, <1>2, <1>9, <1>12, CurConn DEF ConnInv, r
<1> QED
  BY <1>1, <1>11, <1>13, <1>14 DEF ConnInv, CurInv

(* Shapes of the record that a step goes on with.                          *)
LEMMA EmbeddingShape ==
    ASSUME CurInv, cur.pc # "idle", NEW h, NEW doc
    PROVE  /\ Embedding(h, doc) \in CurRecs({h, doc})
           /\ Embedding(h, doc).pc = "embed" /\ Embedding(h, doc).conn = cur.conn
  BY CurConn DEF Embedding, CurRecs, Outs

LEMMA AgainKeeps ==
    ASSUME CurInv, ConnInv, cur.pc # "idle", Again, UNCHANGED debug
    PROVE  CurInv' /\ ConnInv'
<1> DEFINE rec == [pc |-> "pick", conn |-> cur.conn, len |-> cur.len, out |-> "negative"]
<1>1. Continue(rec)
  BY DEF Again
<1>2. rec \in CurRecs({}) /\ rec.pc # "idle" /\ rec.conn = cur.conn
  BY CurConn DEF CurRecs, Outs
<1> QED
  BY <1>1, <1>2, GoesOn

LEMMA SearchingConn ==
    ASSUME CurInv, ConnInv, PickAppropriateCoverPayload \/ Search
    PROVE  CurInv' /\ ConnInv'
<1>1. cur.pc # "idle" /\ UNCHANGED debug
  BY DEF PickAppropriateCoverPayload, Search, Fixed
<1>2. cur.conn \in Conns /\ cur.len \in Int /\ cur.out \in Outs
  BY <1>1, CurConn
<1>3. CASE PickAppropriateCoverPayload
  <2> DEFINE rec == [pc |-> IF Apache THEN "search" ELSE "trace", conn |-> cur.conn,
                     len |-> cur.len, out |-> cur.out, searches |-> 0]
  <2>1. Abort("no cover is large enough") \/ Continue(rec)
    BY <1>3 DEF PickAppropriateCoverPayload
  <2>2. rec \in CurRecs({}) /\ rec.pc # "idle" /\ rec.conn = cur.conn
    BY <1>2 DEF CurRecs
  <2> HIDE DEF rec
  <2> QED
    BY <1>1, <2>1, <2>2, AbortKeeps, GoesOn
<1>4. CASE Search
  <2> DEFINE h == SortedPayloads[MostEfficient]
             rec == [pc |-> "fetch", conn |-> cur.conn, len |-> cur.len,
                     out |-> cur.out, searches |-> cur.searches + 1,
                     cover |-> h, fetches |-> 0]
  <2>1. ReturnError \/ Abort("read past the end of the database") \/ Continue(rec)
    BY <1>4 DEF Search
  <2>2. cur.searches \in Int
    <3>1. PICK D : cur \in CurRecs(D)
      BY DEF CurInv
    <3>2. cur.pc = "search"
      BY <1>4 DEF Search
    <3>3. cur \in [pc : {"search", "trace"}, conn : Conns, len : Int, out : Outs,
                   searches : Int]
      BY <3>1, <3>2 DEF CurRecs, Idle
    <3> QED
      BY <3>3
  <2>3. rec \in CurRecs({h}) /\ rec.pc # "idle" /\ rec.conn = cur.conn
    <3> HIDE DEF h
    <3> QED
      BY <1>2, <2>2 DEF CurRecs
  <2> HIDE DEF rec, h
  <2> QED
    BY <1>1, <2>1, <2>3, AbortKeeps, ReturnErrorKeeps, GoesOn
<1> QED
  BY <1>3, <1>4

(* What is known of the record while a cover is fetched.                   *)
LEMMA FetchShape ==
    ASSUME CurInv, cur.pc \in {"fetch", "drop"}
    PROVE  \E D : cur \in [pc : {"fetch", "drop"}, conn : Conns, len : Int, out : Outs,
                           searches : Int, cover : D, fetches : Int]
<1>1. PICK D : cur \in CurRecs(D)
  BY DEF CurInv
<1> QED
  BY <1>1 DEF CurRecs, Idle

LEMMA EmbedShape ==
    ASSUME CurInv, cur.pc \in {"embed", "emit"}
    PROVE  \E D : cur \in [pc : {"embed", "emit"}, conn : Conns, len : Int, out : Outs,
                           cover : D, doc : D]
<1>1. PICK D : cur \in CurRecs(D)
  BY DEF CurInv
<1> QED
  BY <1>1 DEF CurRecs, Idle

LEMMA FetchConn ==
    ASSUME CurInv, ConnInv, FetchHit \/ FetchMiss \/ FetchDrop \/ FetchGivenUp
    PROVE  CurInv' /\ ConnInv'
<1>1. cur.pc \in {"fetch", "drop"} /\ UNCHANGED debug
  BY DEF FetchHit, FetchMiss, FetchDrop, FetchGivenUp, Fixed
<1>2. PICK D : cur \in [pc : {"fetch", "drop"}, conn : Conns, len : Int, out : Outs,
                        searches : Int, cover : D, fetches : Int]
  BY <1>1, FetchShape
<1> DEFINE dropping == [cur EXCEPT !.pc = "drop"]
           retrying == [cur EXCEPT !.pc = "fetch", !.fetches = @ + 1]
           searching == [pc |-> "search", conn |-> cur.conn, len |-> cur.len,
                         out |-> cur.out, searches |-> cur.searches]
<1>3. \/ \E doc : Continue(Embedding(cur.cover, doc))
      \/ Continue(dropping) \/ Continue(retrying) \/ Continue(searching)
  BY DEF FetchHit, FetchMiss, FetchDrop, FetchGivenUp
<1>4. dropping \in CurRecs(D) /\ dropping.pc # "idle" /\ dropping.conn = cur.conn
  BY <1>2 DEF CurRecs
<1>5. retrying \in CurRecs(D) /\ retrying.pc # "idle" /\ retrying.conn = cur.conn
  <2> DEFINE n == cur.fetches + 1
  <2>1. n \in Int /\ retrying = [cur EXCEPT !.pc = "fetch", !.fetches = n]
    BY <1>2
  <2> HIDE DEF n, retrying
  <2> QED
    BY <1>2, <2>1 DEF CurRecs
<1>6. searching \in CurRecs(D) /\ searching.pc # "idle" /\ searching.conn = cur.conn
  BY <1>2 DEF CurRecs
<1> HIDE DEF dropping, retrying, searching
<1>7. ASSUME NEW doc, Continue(Embedding(cur.cover, doc)) PROVE CurInv' /\ ConnInv'
  BY <1>1, <1>7, EmbeddingShape, GoesOn
<1> QED
  BY <1>1, <1>3, <1>4, <1>5, <1>6, <1>7, GoesOn

LEMMA TraceConn ==
    ASSUME CurInv, ConnInv, TraceSearch PROVE CurInv' /\ ConnInv'
<1>1. cur.pc # "idle" /\ UNCHANGED debug
  BY DEF TraceSearch, Fixed
<1>2. ReturnError \/ \E h, doc : Continue(Embedding(h, doc))
  BY Zenon DEF TraceSearch
<1>3. ASSUME NEW h, NEW doc, Continue(Embedding(h, doc)) PROVE CurInv' /\ ConnInv'
  BY <1>1, <1>3, EmbeddingShape, GoesOn
<1> QED
  BY <1>1, <1>2, <1>3, ReturnErrorKeeps

LEMMA EmbedConn ==
    ASSUME CurInv, ConnInv,
           EmbedHeaderless \/ EmbedTooLarge \/ EmbedRefused \/ EmbedDone
    PROVE  CurInv' /\ ConnInv'
<1>1. cur.pc \in {"embed", "emit"} /\ UNCHANGED debug
  BY DEF EmbedHeaderless, EmbedTooLarge, EmbedRefused, EmbedDone, Fixed
<1>2. PICK D : cur \in [pc : {"embed", "emit"}, conn : Conns, len : Int, out : Outs,
                        cover : D, doc : D]
  BY <1>1, EmbedShape
<1> DEFINE bare == [cur EXCEPT !.pc = "emit"]
           full == [cur EXCEPT !.pc = "emit", !.out = "positive"]
<1>3. Again \/ ReturnError \/ Continue(bare) \/ Continue(full)
  BY DEF EmbedHeaderless, EmbedTooLarge, EmbedRefused, EmbedDone
<1>4. bare \in CurRecs(D) /\ bare.pc # "idle" /\ bare.conn = cur.conn
  BY <1>2 DEF CurRecs
<1>5. full \in CurRecs(D) /\ full.pc # "idle" /\ full.conn = cur.conn
  BY <1>2 DEF CurRecs, Outs
<1> HIDE DEF bare, full
<1> QED
  BY <1>1, <1>3, <1>4, <1>5, GoesOn, AgainKeeps, ReturnErrorKeeps

LEMMA EmitConn ==
    ASSUME CurInv, ConnInv,
           EmitNothing \/ EmitSelfTestFails \/ EmitSame \/ EmitResized
    PROVE  CurInv' /\ ConnInv'
<1>1. cur.pc # "idle" /\ UNCHANGED debug
  BY DEF EmitNothing, EmitSelfTestFails, EmitSame, EmitResized, Fixed
<1>2. cur.len \in Int
  BY <1>1, CurConn
<1>3. CASE EmitNothing \/ EmitSelfTestFails
  <2>1. ReturnError \/ Reply("nothing", 0, FALSE, FALSE)
    BY <1>3 DEF EmitNothing, EmitSelfTestFails
  <2>2. "nothing" # "document" /\ 0 \in Int
    OBVIOUS
  <2>3. ASSUME Reply("nothing", 0, FALSE, FALSE) PROVE CurInv' /\ ConnInv'
    BY <1>1, <2>2, <2>3, ReplyKeeps
  <2> QED
    BY <1>1, <2>1, <2>3, ReturnErrorKeeps
<1>4. CASE EmitSame
  <2> DEFINE garbled == cur.doc.codec = "garble"
  <2>1. /\ ~(debug /\ garbled)
        /\ \/ Abort("header larger than its buffer")
           \/ Reply("document", cur.len, cur.doc.has_length, garbled)
    BY <1>4 DEF EmitSame
  <2>2. garbled \in BOOLEAN
    OBVIOUS
  <2>3. garbled => ~debug
    BY <2>1
  <2> HIDE DEF garbled
  <2> QED
    BY <1>1, <1>2, <2>1, <2>2, <2>3, AbortKeeps, ReplyKeeps
<1>5. CASE EmitResized
  <2>1. \/ ReturnError
        \/ Abort("header larger than its buffer")
        \/ Reply("document", cur.len, TRUE, FALSE)
    BY <1>5 DEF EmitResized
  <2> QED
    BY <1>1, <1>2, <2>1, AbortKeeps, ReturnErrorKeeps, ReplyKeeps
<1> QED
  BY <1>3, <1>4, <1>5

LEMMA NextConn == ASSUME CurInv, ConnInv, [Next]_vars PROVE CurInv' /\ ConnInv'
<1>1. CASE UNCHANGED vars
  BY <1>1 DEF vars, CurInv, ConnInv, Honest
<1>2. CASE \E c \in Conns : Request(c) \/ Transmit(c) \/ Receive(c)
  BY <1>2, RequestConn, TransmitConn, ReceiveConn
<1>3. CASE Step
  BY <1>3, SearchingConn, FetchConn, TraceConn, EmbedConn, EmitConn DEF Step
<1> QED
  BY <1>1, <1>2, <1>3 DEF Next

(* The bytes the client takes out of a reply it accepts are the block that *)
(* http_server_transmit drained for that connection, unless the encoder    *)
(* garbled it and the self-test (debug log level) was off.                 *)
THEOREM AcceptedIsSent == Spec => []GoodMeansSent
<1>1. ConnInv => GoodMeansSent
  BY DEF ConnInv, GoodMeansSent, Honest
<1> QED
  BY <1>1, InitConn, NextConn, PTL DEF Spec

-----------------------------------------------------------------------------
(* Lists without repetition, as _key_tracker is.                           *)

Distinct(s) == \A i, j \in 1..Len(s) : s[i] = s[j] => i = j

LEMMA DistinctCount ==
    ASSUME NEW T, NEW s \in Seq(T), Distinct(s)
    PROVE  Cardinality(ToSet(s)) = Len(s)
<1>1. Len(s) \in Nat /\ DOMAIN s = 1..Len(s)
  OBVIOUS
<1>2. s \in Bijection(1..Len(s), ToSet(s))
  BY <1>1 DEF Bijection, Injection, Surjection, IsInjective, Distinct, ToSet
<1>3. ExistsBijection(1..Len(s), ToSet(s))
  BY <1>2 DEF ExistsBijection
<1> QED
  BY <1>1, <1>3, FS_CountingElements

LEMMA AppendDistinct ==
    ASSUME NEW T, NEW s \in Seq(T), Distinct(s), NEW k, k \notin ToSet(s)
    PROVE  /\ Append(s, k) \in Seq(T \cup {k}) /\ Len(Append(s, k)) = Len(s) + 1
           /\ Distinct(Append(s, k)) /\ ToSet(Append(s, k)) = ToSet(s) \cup {k}
<1> DEFINE t == Append(s, k)
<1>1. s \in Seq(T \cup {k}) /\ Len(s) \in Nat /\ DOMAIN s = 1..Len(s)
  OBVIOUS
<1>2. /\ t \in Seq(T \cup {k}) /\ Len(t) = Len(s) + 1
      /\ \A i \in 1..Len(s) : t[i] = s[i]
      /\ t[Len(s) + 1] = k
  BY <1>1, AppendProperties
<1>3. DOMAIN t = 1..(Len(s) + 1)
  BY <1>2
<1> HIDE DEF t
<1>4. \A i \in 1..Len(s) : s[i] # k
  BY <1>1 DEF ToSet
<1>5. Distinct(t)
  BY <1>1, <1>2, <1>4 DEF Distinct
<1>6. ToSet(t) = ToSet(s) \cup {k}
  <2>1. ASSUME NEW x \in ToSet(t) PROVE x \in ToSet(s) \cup {k}
    <3>1. PICK i \in 1..(Len(s) + 1) : x = t[i]
      BY <1>3 DEF ToSet
    <3>2. CASE i = Len(s) + 1
      BY <3>1, <3>2, <1>2
    <3>3. CASE i \in 1..Len(s)
      BY <3>1, <3>3, <1>1, <1>2 DEF ToSet
    <3> QED
      BY <1>1, <3>2, <3>3
  <2>2. ASSUME NEW x \in ToSet(s) PROVE x \in ToSet(t)
    <3>1. PICK i \in 1..Len(s) : x = s[i]
      BY <1>1 DEF ToSet
    <3>2. i \in 1..(Len(s) + 1) /\ x = t[i]
      BY <1>1, <1>2, <3>1
    <3> QED
      BY <3>2, <1>3 DEF ToSet
  <2>3. k \in ToSet(t)
    <3>1. Len(s) + 1 \in 1..(Len(s) + 1)
      BY <1>1
    <3> QED
      BY <3>1, <1>2, <1>3 DEF ToSet
  <2> QED
    BY <2>1, <2>2, <2>3
<1> QED
  BY <1>2, <1>5, <1>6 DEF t

(* Taking one place out of a list without repetition takes one key out.    *)
LEMMA DeleteDistinct ==
    ASSUME NEW T, NEW s \in Seq(T), Distinct(s), NEW p \in 1..Len(s),
           NEW t \in Seq(T), Len(t) = Len(s) - 1,
           \A i \in 1..Len(t) : t[i] = IF i < p THEN s[i] ELSE s[i + 1]
    PROVE  Distinct(t) /\ ToSet(t) = ToSet(s) \ {s[p]}
<1>1. Len(s) \in Nat /\ DOMAIN s = 1..Len(s) /\ Len(t) \in Nat /\ DOMAIN t = 1..Len(t)
  OBVIOUS
<1>2. Distinct(t)
  <2> SUFFICES ASSUME NEW i \in 1..Len(t), NEW j \in 1..Len(t), t[i] = t[j]
               PROVE  i = j
    BY DEF Distinct
  <2> DEFINE a == IF i < p THEN i ELSE i + 1
             b == IF j < p THEN j ELSE j + 1
  <2>1. a \in 1..Len(s) /\ b \in 1..Len(s)
    BY <1>1
  <2>2. t[i] = s[a] /\ t[j] = s[b]
    OBVIOUS
  <2>3. a = b
    <3> HIDE DEF a, b
    <3> QED
      BY <2>1, <2>2 DEF Distinct
  <2> QED
    BY <1>1, <2>3
<1>3. ASSUME NEW x \in ToSet(t) PROVE x \in ToSet(s) \ {s[p]}
  <2>1. PICK i \in 1..Len(t) : x = t[i]
    BY <1>1 DEF ToSet
  <2> DEFINE a == IF i < p THEN i ELSE i + 1
  <2>2. a \in 1..Len(s) /\ a # p
    BY <1>1
  <2>3. x = s[a]
    BY <2>1
  <2> HIDE DEF a
  <2> QED
    BY <1>1, <2>2, <2>3 DEF ToSet, Distinct
<1>4. ASSUME NEW x \in ToSet(s), x # s[p] PROVE x \in ToSet(t)
  <2>1. PICK a \in 1..Len(s) : x = s[a]
    BY <1>1 DEF ToSet
  <2>2. a # p
    BY <2>1, <1>4
  <2> DEFINE i == IF a < p THEN a ELSE a - 1
  <2>3. i \in 1..Len(t)
    BY <1>1, <2>2
  <2>4. t[i] = s[a]
    <3>1. CASE a < p
      BY <3>1, <2>3
    <3>2. CASE ~(a < p)
      <4>1. i = a - 1 /\ ~(i < p) /\ i + 1 = a
        BY <3>2, <2>2, <1>1
      <4> HIDE DEF i
      <4> QED
        BY <4>1, <2>3
    <3> QED
      BY <3>1, <3>2
  <2> HIDE DEF i
  <2> QED
    BY <1>1, <2>1, <2>3, <2>4 DEF ToSet
<1> QED
  BY <1>2, <1>3, <1>4

LEMMA TailDistinct ==
    ASSUME NEW T, NEW s \in Seq(T), Distinct(s), s # << >>
    PROVE  /\ Tail(s) \in Seq(T) /\ Len(Tail(s)) = Len(s) - 1
           /\ Distinct(Tail(s)) /\ ToSet(Tail(s)) = ToSet(s) \ {Head(s)}
           /\ Head(s) \in ToSet(s)
<1>1. /\ Tail(s) \in Seq(T) /\ Len(Tail(s)) = Len(s) - 1
      /\ \A i \in 1..Len(Tail(s)) : Tail(s)[i] = s[i + 1]
  BY HeadTailProperties
<1>2. Len(s) \in Nat /\ 1 \in 1..Len(s) /\ Head(s) = s[1] /\ DOMAIN s = 1..Len(s)
  BY EmptySeq
<1> DEFINE t == Tail(s)
<1>3. \A i \in 1..Len(t) : t[i] = IF i < 1 THEN s[i] ELSE s[i + 1]
  BY <1>1
<1>5. t \in Seq(T) /\ Len(t) = Len(s) - 1
  BY <1>1
<1> HIDE DEF t
<1>4. Distinct(t) /\ ToSet(t) = ToSet(s) \ {s[1]}
  BY SMTT(60), <1>2, <1>3, <1>5, DeleteDistinct
<1> QED
  BY <1>1, <1>2, <1>4 DEF ToSet, t

LEMMA RemoveFirstDistinct ==
    ASSUME NEW T, NEW s \in Seq(T), Distinct(s), NEW e
    PROVE  /\ RemoveFirst(s, e) \in Seq(T)
           /\ Len(RemoveFirst(s, e)) = IF e \in ToSet(s) THEN Len(s) - 1 ELSE Len(s)
           /\ Distinct(RemoveFirst(s, e))
           /\ ToSet(RemoveFirst(s, e)) = ToSet(s) \ {e}
<1>1. Len(s) \in Nat /\ DOMAIN s = 1..Len(s)
  OBVIOUS
<1>2. CASE e \notin ToSet(s)
  <2>1. RemoveFirst(s, e) = s
    BY <1>1, <1>2 DEF RemoveFirst, ToSet
  <2> QED
    BY <1>2, <2>1
<1>3. CASE e \in ToSet(s)
  <2> DEFINE I == {i \in 1..Len(s) : s[i] = e}
             t == RemoveFirst(s, e)
  <2>1. I \in SUBSET (1..Len(s)) /\ I # {}
    BY <1>1, <1>3 DEF ToSet
  <2>2. Min(I) \in I
    <3> HIDE DEF I
    <3> QED
      BY <1>1, <2>1, FirstPosition
  <2>3. t = RemoveAt(s, Min(I))
    BY <2>1 DEF RemoveFirst, SelectInSeq
  <2> HIDE DEF t
  <2>4. PICK p \in 1..Len(s) : s[p] = e /\ t = RemoveAt(s, p)
    BY <2>2, <2>3
  <2>5. t = SubSeq(s, 1, p - 1) \o SubSeq(s, p + 1, Len(s))
    BY <2>4 DEF RemoveAt
  <2> DEFINE u == SubSeq(s, 1, p - 1)
             v == SubSeq(s, p + 1, Len(s))
  <2>6. u \in Seq(T) /\ Len(u) = p - 1 /\ \A i \in 1..(p - 1) : u[i] = s[i]
    <3>1. p - 1 \in Int /\ 1 \in Int /\ \A i \in 1..(p - 1) : s[i] \in T
      BY <1>1, <2>4
    <3>2. /\ u \in Seq(T) /\ Len(u) = IF 1 <= p - 1 THEN (p - 1) - 1 + 1 ELSE 0
          /\ \A i \in 1..((p - 1) - 1 + 1) : u[i] = s[1 + i - 1]
      BY <3>1, SubSeqProperties
    <3> HIDE DEF u
    <3> QED
      BY <1>1, <2>4, <3>2
  <2>7. /\ v \in Seq(T) /\ Len(v) = Len(s) - p
        /\ \A i \in 1..(Len(s) - p) : v[i] = s[p + i]
    <3>1. p + 1 \in Int /\ Len(s) \in Int /\ \A i \in (p + 1)..Len(s) : s[i] \in T
      BY <1>1, <2>4
    <3>2. /\ v \in Seq(T)
          /\ Len(v) = IF p + 1 <= Len(s) THEN Len(s) - (p + 1) + 1 ELSE 0
          /\ \A i \in 1..(Len(s) - (p + 1) + 1) : v[i] = s[(p + 1) + i - 1]
      BY <3>1, SubSeqProperties
    <3> HIDE DEF v
    <3>3. Len(v) = Len(s) - p
      <4>1. Len(s) \in Int /\ p \in Int /\ p <= Len(s)
        BY <1>1
      <4>2. Len(v) = IF p + 1 <= Len(s) THEN Len(s) - (p + 1) + 1 ELSE 0
        BY <3>2
      <4> QED
        BY <4>1, <4>2
    <3>4. ASSUME NEW i \in 1..(Len(s) - p) PROVE v[i] = s[p + i]
      <4>1. i \in 1..(Len(s) - (p + 1) + 1) /\ (p + 1) + i - 1 = p + i
        BY <1>1, <2>4
      <4> QED
        BY <3>2, <4>1
    <3> QED
      BY <3>2, <3>3, <3>4
  <2> HIDE DEF u, v
  <2>10. /\ u \o v \in Seq(T) /\ Len(u \o v) = Len(u) + Len(v)
         /\ \A i \in 1..(Len(u) + Len(v)) :
               (u \o v)[i] = IF i <= Len(u) THEN u[i] ELSE v[i - Len(u)]
    BY <2>6, <2>7, ConcatProperties
  <2>11. t = u \o v
    BY <2>5 DEF u, v
  <2>8. /\ t \in Seq(T) /\ Len(t) = Len(s) - 1
        /\ \A i \in 1..Len(t) : t[i] = IF i < p THEN s[i] ELSE s[i + 1]
    <3>1. t \in Seq(T) /\ Len(t) = Len(s) - 1
      <4>1. Len(s) \in Int /\ p \in Int
        BY <1>1
      <4>2. Len(t) = Len(u) + Len(v) /\ t \in Seq(T)
        BY <2>10, <2>11
      <4>3. Len(u) = p - 1 /\ Len(v) = Len(s) - p
        BY <2>6, <2>7
      <4> QED
        BY <4>1, <4>2, <4>3
    <3>2. ASSUME NEW i \in 1..Len(t), i < p PROVE t[i] = s[i]
      <4>1. i \in 1..(Len(u) + Len(v)) /\ i <= Len(u) /\ i \in 1..(p - 1)
        BY <1>1, <2>4, <2>6, <2>7, <3>1, <3>2
      <4> QED
        BY <4>1, <2>6, <2>10, <2>11
    <3>3. ASSUME NEW i \in 1..Len(t), ~(i < p) PROVE t[i] = s[i + 1]
      <4>1. /\ i \in 1..(Len(u) + Len(v)) /\ ~(i <= Len(u))
            /\ i - Len(u) \in 1..(Len(s) - p) /\ p + (i - Len(u)) = i + 1
        BY <1>1, <2>4, <2>6, <2>7, <3>1, <3>3
      <4>2. t[i] = v[i - Len(u)]
        BY <4>1, <2>10, <2>11
      <4>3. v[i - Len(u)] = s[p + (i - Len(u))]
        BY <4>1, <2>7
      <4> QED
        BY <4>1, <4>2, <4>3
    <3> QED
      BY <3>1, <3>2, <3>3
  <2>9. Distinct(t) /\ ToSet(t) = ToSet(s) \ {s[p]}
    <3>1. t \in Seq(T)
      BY <2>8
    <3>2. Len(t) = Len(s) - 1
      BY <2>8
    <3>3. \A i \in 1..Len(t) : t[i] = IF i < p THEN s[i] ELSE s[i + 1]
      BY <2>8
    <3> QED
      BY SMTT(60), <3>1, <3>2, <3>3, DeleteDistinct
  <2> QED
    BY <1>3, <2>4, <2>8, <2>9 DEF t
<1> QED
  BY <1>2, <1>3

-----------------------------------------------------------------------------
(* The cache.                                                              *)

Keys(s, f, size) == /\ s \in Seq(DOMAIN f) /\ ToSet(s) = DOMAIN f
                    /\ Distinct(s) /\ Len(s) <= size

(* The only empty answer in the cache is the one about to be dropped.      *)
CacheInv == /\ Keys(tracker, cached, CacheSize)
            /\ \A k \in DOMAIN cached :
                  cached[k] = EmptyDoc => cur.pc = "drop" /\ cur.cover = k

LEMMA InitCache == ASSUME Init PROVE CacheInv
<1>1. tracker = << >> /\ cached = << >>
  BY DEF Init
<1>2. Len(tracker) = 0 /\ DOMAIN cached = {} /\ ToSet(tracker) = {}
  BY <1>1 DEF ToSet
<1>3. tracker \in Seq(DOMAIN cached)
  BY <1>1, EmptySeq
<1>4. 0 <= CacheSize
  BY CoversAssumption
<1> QED
  BY <1>2, <1>3, <1>4 DEF CacheInv, Keys, Distinct

(* evict and insert.                                                       *)
LEMMA InsertKeys ==
    ASSUME Keys(tracker, cached, CacheSize), NEW k, k \notin DOMAIN cached, NEW doc,
           Insert(k, doc)
    PROVE  /\ Keys(tracker', cached', CacheSize)
           /\ \A x \in DOMAIN cached' :
                 \/ x = k /\ cached'[x] = doc
                 \/ x \in DOMAIN cached /\ cached'[x] = cached[x]
<1> DEFINE full == Cardinality(DOMAIN cached) = CacheSize
           kept == IF full THEN Forget(cached, Head(tracker)) ELSE cached
           s == IF full THEN Tail(tracker) ELSE tracker
<1>1. /\ cached' = [x \in DOMAIN kept \cup {k} |-> IF x = k THEN doc ELSE kept[x]]
      /\ tracker' = Append(s, k)
  BY DEF Insert
<1>2. /\ tracker \in Seq(DOMAIN cached) /\ ToSet(tracker) = DOMAIN cached
      /\ Distinct(tracker) /\ Len(tracker) <= CacheSize /\ Len(tracker) \in Nat
  BY DEF Keys
<1>3. CacheSize \in Nat /\ CacheSize >= 1
  BY CoversAssumption
<1>4. Cardinality(DOMAIN cached) = Len(tracker)
  BY <1>2, DistinctCount
<1>5. /\ DOMAIN kept \subseteq DOMAIN cached
      /\ \A x \in DOMAIN kept : kept[x] = cached[x]
  BY DEF Forget
<1>6. /\ s \in Seq(DOMAIN cached) /\ Distinct(s) /\ ToSet(s) = DOMAIN kept
      /\ Len(s) \in Nat /\ Len(s) + 1 <= CacheSize
  <2>1. CASE full
    <3>1. tracker # << >>
      <4>1. Len(tracker) >= 1
        BY <1>3, <1>4, <2>1
      <4> QED
        BY <4>1, EmptySeq
    <3>2. /\ Tail(tracker) \in Seq(DOMAIN cached) /\ Len(Tail(tracker)) = Len(tracker) - 1
          /\ Distinct(Tail(tracker))
          /\ ToSet(Tail(tracker)) = ToSet(tracker) \ {Head(tracker)}
      BY <1>2, <3>1, TailDistinct
    <3>3. s = Tail(tracker) /\ DOMAIN kept = DOMAIN cached \ {Head(tracker)}
      BY <2>1 DEF Forget
    <3> HIDE DEF s, kept
    <3>4. Len(s) \in Nat
      BY <3>2, <3>3
    <3> QED
      BY <1>2, <1>3, <3>2, <3>3, <3>4
  <2>2. CASE ~full
    <3>1. Len(tracker) # CacheSize
      BY <1>4, <2>2
    <3> QED
      BY <1>2, <1>3, <2>2, <3>1
  <2> QED
    BY <2>1, <2>2
<1> HIDE DEF s, kept, full
<1>7. k \notin ToSet(s)
  BY <1>5, <1>6
<1>8. /\ Append(s, k) \in Seq(DOMAIN cached \cup {k}) /\ Len(Append(s, k)) = Len(s) + 1
      /\ Distinct(Append(s, k)) /\ ToSet(Append(s, k)) = ToSet(s) \cup {k}
  BY <1>6, <1>7, AppendDistinct
<1>9. /\ tracker' \in Seq(DOMAIN cached \cup {k}) /\ Len(tracker') = Len(s) + 1
      /\ Distinct(tracker') /\ ToSet(tracker') = ToSet(s) \cup {k}
  BY <1>1, <1>8
<1>10. DOMAIN cached' = DOMAIN kept \cup {k}
  BY <1>1
<1>11. tracker' \in Seq(ToSet(tracker'))
  BY <1>9 DEF ToSet
<1>12. Keys(tracker', cached', CacheSize)
  BY <1>6, <1>9, <1>10, <1>11 DEF Keys
<1>13. ASSUME NEW x \in DOMAIN cached'
       PROVE  \/ x = k /\ cached'[x] = doc
              \/ x \in DOMAIN cached /\ cached'[x] = cached[x]
  BY <1>1, <1>5, <1>10
<1> QED
  BY <1>12, <1>13

LEMMA DropKeys ==
    ASSUME Keys(tracker, cached, CacheSize), NEW k, Drop(k)
    PROVE  /\ Keys(tracker', cached', CacheSize)
           /\ DOMAIN cached' = DOMAIN cached \ {k}
           /\ \A x \in DOMAIN cached' : cached'[x] = cached[x]
<1>1. /\ tracker \in Seq(DOMAIN cached) /\ ToSet(tracker) = DOMAIN cached
      /\ Distinct(tracker) /\ Len(tracker) <= CacheSize /\ Len(tracker) \in Nat
      /\ CacheSize \in Nat
  BY CoversAssumption DEF Keys
<1>2. /\ DOMAIN cached' = DOMAIN cached \ {k}
      /\ \A x \in DOMAIN cached' : cached'[x] = cached[x]
  BY DEF Drop, Forget
<1> DEFINE t == RemoveFirst(tracker, k)
<1>3. /\ t \in Seq(DOMAIN cached) /\ Distinct(t)
      /\ Len(t) = IF k \in ToSet(tracker) THEN Len(tracker) - 1 ELSE Len(tracker)
      /\ ToSet(t) = ToSet(tracker) \ {k}
  BY <1>1, RemoveFirstDistinct
<1>4. tracker' = t
  BY DEF Drop
<1> HIDE DEF t
<1>5. Len(t) <= CacheSize
  BY <1>1, <1>3
<1>6. t \in Seq(ToSet(t))
  BY <1>3 DEF ToSet
<1>7. Keys(tracker', cached', CacheSize)
  BY <1>1, <1>2, <1>3, <1>4, <1>5, <1>6 DEF Keys
<1> QED
  BY <1>2, <1>7

LEMMA TouchKeys ==
    ASSUME Keys(tracker, cached, CacheSize), NEW k \in DOMAIN cached, Touch(k)
    PROVE  Keys(tracker', cached', CacheSize)
<1>1. /\ tracker \in Seq(DOMAIN cached) /\ ToSet(tracker) = DOMAIN cached
      /\ Distinct(tracker) /\ Len(tracker) <= CacheSize /\ Len(tracker) \in Nat
  BY DEF Keys
<1> DEFINE t == RemoveFirst(tracker, k)
<1>2. /\ t \in Seq(DOMAIN cached) /\ Distinct(t) /\ Len(t) = Len(tracker) - 1
      /\ ToSet(t) = ToSet(tracker) \ {k}
  BY <1>1, RemoveFirstDistinct
<1>3. tracker' = Append(t, k) /\ cached' = cached
  BY DEF Touch
<1> HIDE DEF t
<1>4. k \notin ToSet(t)
  BY <1>2
<1>5. /\ Append(t, k) \in Seq(DOMAIN cached \cup {k}) /\ Len(Append(t, k)) = Len(t) + 1
      /\ Distinct(Append(t, k)) /\ ToSet(Append(t, k)) = ToSet(t) \cup {k}
  BY <1>2, <1>4, AppendDistinct
<1>6. DOMAIN cached \cup {k} = DOMAIN cached /\ ToSet(t) \cup {k} = DOMAIN cached
  BY <1>1, <1>2
<1>7. Len(Append(t, k)) = Len(tracker)
  BY <1>1, <1>2, <1>5
<1> QED
  BY <1>1, <1>3, <1>5, <1>6, <1>7 DEF Keys

(* A step that leaves the cache alone and is not at the drop.              *)
LEMMA CacheAlone ==
    ASSUME CacheInv, CacheKept, cur.pc # "drop"
    PROVE  CacheInv'
  BY DEF CacheInv, CacheKept, Keys, Distinct

LEMMA FetchHitCache == ASSUME CacheInv, FetchHit PROVE CacheInv'
<1>1. Keys(tracker', cached', CacheSize) /\ cached' = cached
  BY TouchKeys DEF CacheInv, FetchHit, Touch
<1>2. cur.pc # "drop"
  BY DEF FetchHit
<1> QED
  BY <1>1, <1>2 DEF CacheInv, Keys, Distinct

LEMMA FetchMissCache == ASSUME CurInv, CacheInv, FetchMiss PROVE CacheInv'
<1>1. PICK doc \in Documents \cup {EmptyDoc} :
        /\ Insert(cur.cover, doc)
        /\ doc = EmptyDoc => cur' = [cur EXCEPT !.pc = "drop"]
  BY DEF FetchMiss, Continue
<1>2. cur.cover \notin DOMAIN cached /\ cur.pc = "fetch"
  BY DEF FetchMiss
<1>3. /\ Keys(tracker', cached', CacheSize)
      /\ \A x \in DOMAIN cached' : \/ x = cur.cover /\ cached'[x] = doc
                                   \/ x \in DOMAIN cached /\ cached'[x] = cached[x]
  BY <1>1, <1>2, InsertKeys DEF CacheInv
<1>4. PICK D : cur \in [pc : {"fetch", "drop"}, conn : Conns, len : Int, out : Outs,
                        searches : Int, cover : D, fetches : Int]
  BY <1>2, FetchShape
<1>5. doc = EmptyDoc => cur'.pc = "drop" /\ cur'.cover = cur.cover
  BY <1>1, <1>4
<1>6. \A x \in DOMAIN cached : cached[x] # EmptyDoc
  BY <1>2 DEF CacheInv
<1>7. \A x \in DOMAIN cached' : cached'[x] = EmptyDoc => cur'.pc = "drop" /\ cur'.cover = x
  BY <1>3, <1>5, <1>6
<1> QED
  BY <1>3, <1>7 DEF CacheInv, Keys, Distinct

LEMMA FetchDropCache == ASSUME CacheInv, FetchDrop PROVE CacheInv'
<1>1. /\ Keys(tracker', cached', CacheSize)
      /\ DOMAIN cached' = DOMAIN cached \ {cur.cover}
      /\ \A x \in DOMAIN cached' : cached'[x] = cached[x]
  BY DropKeys DEF CacheInv, FetchDrop
<1>2. \A x \in DOMAIN cached' : cached'[x] # EmptyDoc
  BY <1>1 DEF CacheInv
<1> QED
  BY <1>1, <1>2 DEF CacheInv, Keys, Distinct

LEMMA NextCache == ASSUME CurInv, CacheInv, [Next]_vars PROVE CacheInv'
<1>1. CASE UNCHANGED vars
  BY <1>1 DEF vars, CacheInv, Keys, Distinct
<1>2. ASSUME NEW c \in Conns, Request(c) \/ Transmit(c) \/ Receive(c) PROVE CacheInv'
  <2>1. CASE Request(c) \/ Transmit(c)
    <3>1. CacheKept /\ cur.pc # "drop"
      BY <2>1 DEF Request, Transmit, Idle
    <3> QED
      BY <3>1, CacheAlone
  <2>2. CASE Receive(c)
    BY <2>2 DEF Receive, CacheKept, CacheInv, Keys, Distinct
  <2> QED
    BY <1>2, <2>1, <2>2
<1>3. CASE FetchHit \/ FetchMiss \/ FetchDrop
  BY <1>3, FetchHitCache, FetchMissCache, FetchDropCache
<1>4. CASE PickAppropriateCoverPayload \/ Search \/ FetchGivenUp \/ TraceSearch
  <2>1. CacheKept /\ cur.pc # "drop"
    BY <1>4 DEF PickAppropriateCoverPayload, Search, FetchGivenUp, TraceSearch
  <2> QED
    BY <2>1, CacheAlone
<1>5. CASE EmbedHeaderless \/ EmbedTooLarge \/ EmbedRefused \/ EmbedDone
  <2>1. CacheKept /\ cur.pc # "drop"
    BY <1>5 DEF EmbedHeaderless, EmbedTooLarge, EmbedRefused, EmbedDone
  <2> QED
    BY <2>1, CacheAlone
<1>6. CASE EmitNothing \/ EmitSelfTestFails \/ EmitSame \/ EmitResized
  <2>1. CacheKept /\ cur.pc # "drop"
    BY <1>6 DEF EmitNothing, EmitSelfTestFails, EmitSame, EmitResized
  <2> QED
    BY <2>1, CacheAlone
<1> QED
  BY <1>1, <1>2, <1>3, <1>4, <1>5, <1>6 DEF Next, Step

(* The LRU cache's list and its map hold the same keys, each once and no   *)
(* more than the cache takes, and an empty answer is in it only until the  *)
(* fetch that got it drops it (payload_lru_cache.h).                       *)
THEOREM CacheIsCoherent == Spec => []CacheCoherent
<1>1. CacheInv => CacheCoherent
  <2> SUFFICES ASSUME CacheInv PROVE CacheCoherent
    OBVIOUS
  <2>1. Cardinality(ToSet(tracker)) = Len(tracker)
    BY DistinctCount DEF CacheInv, Keys
  <2> QED
    BY <2>1 DEF CacheInv, CacheCoherent, Keys
<1>2. Init => CurInv /\ ConnInv /\ CacheInv
  BY InitConn, InitCache
<1>3. CurInv /\ ConnInv /\ CacheInv /\ [Next]_vars => (CurInv /\ ConnInv /\ CacheInv)'
  BY NextConn, NextCache
<1> QED
  BY <1>1, <1>2, <1>3, PTL DEF Spec
=============================================================================
