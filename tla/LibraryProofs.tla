----------------------------- MODULE LibraryProofs -----------------------------
(***************************************************************************)
(* Theorems about the parts that the client and the controller call and    *)
(* about those of other configurations: HttpClient, Texts, Pid, MqttMsg,   *)
(* Display and Rotary, for every value of their constants.                 *)
(***************************************************************************)
EXTENDS HttpClient, Texts, Pid, MqttMsg, Display, Rotary, WellFoundedInduction, SequenceTheorems, TLAPS

(***************************************************************************)
(* HttpClient, for any number of requests under way, any size of the       *)
(* buffer and any number of segments: objects are used only while they are *)
(* owned, and each request comes to at most one answer, which is not a     *)
(* success if a part of the response was dropped.                          *)
(***************************************************************************)

Segment == {"head", "rest"}

Phase == {"none", "resolving", "connecting", "open", "closing", "done"}

RequestState ==
    [phase : Phase,
     heap : SUBSET Object, text : Seq(Segment), cut : BOOLEAN, segments : Nat,
     calls : Nat, status : {0, GENERIC_ERROR, OK},
     broken : BOOLEAN, discarded : BOOLEAN, fault : BOOLEAN]

Connected(q) == q.phase \in {"connecting", "open", "closing"}

(* What a request owns is decided by how far it is. *)
HeapByPhase(q) ==
    /\ q.phase = "none" => q.heap = {}
    /\ q.phase = "resolving" => /\ {"req", "hostname", "path", "buffer"} \subseteq q.heap
                                /\ q.heap \subseteq {"req", "hostname", "path", "buffer", "post_data"}
    /\ Connected(q) => Owned \subseteq q.heap
    /\ q.phase = "done" /\ q.heap # {} => \/ q.heap = {"post_data"}
                                          \/ q.broken /\ "buffer" \in q.heap

(* A response of which a part was dropped does not read as a success: it   *)
(* is marked as empty, or was appended to anew and begins in its middle.   *)
DropMarked(q) ==
    /\ q.discarded => q.segments > 0
    /\ q.discarded => q.cut \/ (q.text # <<>> /\ q.text[1] = "rest")
    /\ q.phase \in {"none", "resolving"} => ~q.discarded
    /\ q.phase = "done" /\ q.discarded => q.status = GENERIC_ERROR

Sound(q) ==
    /\ ~q.fault
    /\ q.calls = IF q.phase = "done" THEN 1 ELSE 0
    /\ HeapByPhase(q)
    /\ DropMarked(q)

(* The inductive invariant. *)
HInv == /\ http \in [Request -> RequestState]
        /\ \A r \in Request : Sound(http[r])

-------------------------------------------------------------------------------
(* A step gives one request a new state: the invariant asks only for that  *)
(* state to be sound.                                                      *)
LEMMA OneRequest ==
    ASSUME HInv, NEW r \in Request, NEW q \in RequestState, Sound(q), Becomes(r, q)
    PROVE  HInv'
<1>1. http' = [http EXCEPT ![r] = q]
  BY DEF Becomes
<1>2. http' \in [Request -> RequestState]
  BY <1>1 DEF HInv
<1>3. ASSUME NEW s \in Request PROVE Sound(http'[s])
  <2>1. CASE s = r
    BY <1>1, <2>1 DEF HInv
  <2>2. CASE s # r
    BY <1>1, <2>2 DEF HInv
  <2> QED BY <2>1, <2>2
<1> QED BY <1>2, <1>3 DEF HInv

(* A field at a time, a state stays one. *)
LEMMA FieldSet ==
    ASSUME NEW q \in RequestState
    PROVE  /\ \A x \in Phase : [q EXCEPT !.phase = x] \in RequestState
           /\ \A x \in SUBSET Object : [q EXCEPT !.heap = x] \in RequestState
           /\ \A x \in Seq(Segment) : [q EXCEPT !.text = x] \in RequestState
           /\ \A x \in Nat : [q EXCEPT !.segments = x] \in RequestState
           /\ \A x \in Nat : [q EXCEPT !.calls = x] \in RequestState
           /\ \A x \in {0, GENERIC_ERROR, OK} : [q EXCEPT !.status = x] \in RequestState
           /\ \A x \in BOOLEAN : [q EXCEPT !.cut = x] \in RequestState
           /\ \A x \in BOOLEAN : [q EXCEPT !.broken = x] \in RequestState
           /\ \A x \in BOOLEAN : [q EXCEPT !.discarded = x] \in RequestState
<1>1. \A x \in Phase : [q EXCEPT !.phase = x] \in RequestState
  BY DEF RequestState
<1>2. \A x \in SUBSET Object : [q EXCEPT !.heap = x] \in RequestState
  BY DEF RequestState
<1>3. \A x \in Seq(Segment) : [q EXCEPT !.text = x] \in RequestState
  BY DEF RequestState
<1>4. \A x \in Nat : [q EXCEPT !.segments = x] \in RequestState
  BY DEF RequestState
<1>5. \A x \in Nat : [q EXCEPT !.calls = x] \in RequestState
  BY DEF RequestState
<1>6. \A x \in {0, GENERIC_ERROR, OK} : [q EXCEPT !.status = x] \in RequestState
  BY DEF RequestState
<1>7. \A x \in BOOLEAN : [q EXCEPT !.cut = x] \in RequestState
  BY DEF RequestState
<1>8. \A x \in BOOLEAN : [q EXCEPT !.broken = x] \in RequestState
  BY DEF RequestState
<1>9. \A x \in BOOLEAN : [q EXCEPT !.discarded = x] \in RequestState
  BY DEF RequestState
<1> QED BY <1>1, <1>2, <1>3, <1>4, <1>5, <1>6, <1>7, <1>8, <1>9

(* What is owned is used without a fault. *)
LEMMA OwnedUse ==
    ASSUME NEW q \in RequestState, NEW objects, ~q.fault, objects \subseteq q.heap
    PROVE  /\ Uses(q, objects) = q
           /\ Frees(q, objects) = [q EXCEPT !.heap = q.heap \ objects]
<1>1. Uses(q, objects) = q
  BY DEF Uses, RequestState
<1> QED BY <1>1 DEF Frees

(* An unused request is sound. *)
LEMMA UnusedSound == Unused \in RequestState /\ Sound(Unused)
BY DEF Unused, RequestState, Phase, Sound, HeapByPhase, DropMarked, Connected, Object, Owned, Segment, GENERIC_ERROR, OK

LEMMA StatusType == ASSUME NEW q \in RequestState PROVE Status(q) \in {GENERIC_ERROR, OK}
BY DEF Status

(* The user callback has been called, and the request is over. *)
LEMMA ToldState ==
    ASSUME NEW q \in RequestState, NEW st \in {GENERIC_ERROR, OK}, q.calls = 0
    PROVE  LET told == UserCallback(q, st)
           IN  /\ told \in RequestState /\ told.calls = 1 /\ told.status = st
               /\ told.fault = q.fault /\ told.heap = q.heap /\ told.discarded = q.discarded
               /\ told.cut = q.cut /\ told.text = q.text /\ told.segments = q.segments
<1> DEFINE called == [q EXCEPT !.calls = 1]
<1>1. UserCallback(q, st) = [called EXCEPT !.status = st]
  BY DEF UserCallback
<1>2. called \in RequestState
  BY FieldSet
<1>3. [called EXCEPT !.status = st] \in RequestState
  <2> HIDE DEF called
  <2> QED BY <1>2, FieldSet
<1> QED BY <1>1, <1>3 DEF RequestState

LEMMA DoneState ==
    ASSUME NEW q \in RequestState, NEW heap \in SUBSET Object, NEW broken \in BOOLEAN
    PROVE  [[[q EXCEPT !.heap = heap] EXCEPT !.phase = "done"] EXCEPT !.broken = broken] \in RequestState
<1> DEFINE q1 == [q EXCEPT !.heap = heap]
           q2 == [q1 EXCEPT !.phase = "done"]
<1>1. q1 \in RequestState
  BY FieldSet
<1>2. q2 \in RequestState
  <2> HIDE DEF q1
  <2> QED BY <1>1, FieldSet DEF Phase
<1>3. [q2 EXCEPT !.broken = broken] \in RequestState
  <2> HIDE DEF q2
  <2> QED BY <1>2, FieldSet
<1> QED BY <1>3

(* A part was dropped: the status is an error. *)
LEMMA DroppedStatus ==
    ASSUME NEW q \in RequestState, DropMarked(q), q.discarded
    PROVE  Status(q) = GENERIC_ERROR
BY DEF Status, DropMarked, RequestState

-------------------------------------------------------------------------------
(* One lemma per operation. *)

LEMMA Asks ==
    ASSUME HInv, NEW r \in Request, NEW post \in BOOLEAN, http_raw_request(r, post)
    PROVE  HInv'
<1> DEFINE objects == {"req", "hostname", "path", "buffer"} \cup IF post THEN {"post_data"} ELSE {}
           q == [Unused EXCEPT !.phase = "resolving", !.heap = objects]
<1>2. Becomes(r, q)
  BY DEF http_raw_request
<1>3. /\ {"req", "hostname", "path", "buffer"} \subseteq objects
      /\ objects \subseteq {"req", "hostname", "path", "buffer", "post_data"}
      /\ objects \in SUBSET Object
  BY DEF Object
<1> HIDE DEF objects
<1>1. q \in RequestState /\ Sound(q)
  <2> DEFINE empty == [Unused EXCEPT !.phase = "resolving"]
  <2>3. empty \in RequestState
    BY UnusedSound, FieldSet DEF Phase
  <2>4. q = [empty EXCEPT !.heap = objects]
    OBVIOUS
  <2> HIDE DEF empty, q
  <2>1. q \in RequestState
    BY <1>3, <2>3, <2>4, FieldSet
  <2> USE DEF empty, q
  <2>2. q.phase = "resolving" /\ q.heap = objects /\ ~q.fault /\ q.calls = 0 /\ ~q.discarded
    BY DEF Unused
  <2> QED BY <1>3, <2>1, <2>2 DEF Sound, HeapByPhase, DropMarked, Connected
<1> HIDE DEF q
<1> QED BY <1>1, <1>2, OneRequest

LEMMA NameAnswered ==
    ASSUME HInv, NEW r \in Request, NEW found \in BOOLEAN, dns_callback(r, found)
    PROVE  HInv'
<1> DEFINE old == http[r]
           q == IF found
                THEN [Uses(old, {"req"}) EXCEPT !.phase = "connecting", !.heap = @ \cup {"conn", "tcp"}]
                ELSE [Frees(UserCallback(old, GENERIC_ERROR), {"req"}) EXCEPT !.phase = "done", !.broken = TRUE]
<1>1. old \in RequestState /\ Sound(old) /\ old.phase = "resolving"
  BY DEF HInv, dns_callback
<1>2. Becomes(r, q)
  BY DEF dns_callback
<1> HIDE DEF old
<1>3. CASE found
  <2> DEFINE named == [old EXCEPT !.phase = "connecting"]
             heap == old.heap \cup {"conn", "tcp"}
  <2>1. /\ old.calls = 0 /\ ~old.fault /\ ~old.discarded
        /\ {"req", "hostname", "path", "buffer"} \subseteq old.heap /\ old.heap \in SUBSET Object
    BY <1>1 DEF RequestState, Sound, HeapByPhase, DropMarked
  <2>2. Uses(old, {"req"}) = old
    <3>1. {"req"} \subseteq old.heap
      BY <2>1
    <3> QED BY <1>1, <2>1, <3>1, OwnedUse
  <2>3. q = [named EXCEPT !.heap = heap]
    BY <1>1, <1>3, <2>2 DEF RequestState
  <2>4. named \in RequestState
    BY <1>1, FieldSet DEF Phase
  <2>5. named.heap = old.heap /\ named.calls = 0 /\ ~named.fault /\ ~named.discarded
        /\ named.phase = "connecting"
    BY <1>1, <2>1 DEF RequestState
  <2>6. heap \in SUBSET Object /\ Owned \subseteq heap
    BY <2>1 DEF Object, Owned
  <2> HIDE DEF named, heap, q
  <2>7. q \in RequestState
    BY <2>3, <2>4, <2>6, FieldSet
  <2>8. q.heap = heap /\ q.calls = 0 /\ ~q.fault /\ ~q.discarded /\ q.phase = "connecting"
    BY <2>3, <2>4, <2>5 DEF RequestState
  <2>9. Sound(q)
    BY <2>6, <2>8 DEF Sound, HeapByPhase, DropMarked, Connected
  <2> QED BY <2>7, <2>9, <1>2, OneRequest
<1>4. CASE ~found
  <2> DEFINE told == UserCallback(old, GENERIC_ERROR)
             freed == Frees(told, {"req"})
  <2>1. /\ old.calls = 0 /\ ~old.fault /\ ~old.discarded
        /\ {"req", "buffer"} \subseteq old.heap /\ old.heap \in SUBSET Object
    BY <1>1 DEF RequestState, Sound, HeapByPhase, DropMarked
  <2>2. told \in RequestState /\ told.calls = 1 /\ ~told.fault /\ told.heap = old.heap /\ ~told.discarded
    BY <1>1, <2>1, ToldState DEF UserCallback
  <2>3. q = [[freed EXCEPT !.phase = "done"] EXCEPT !.broken = TRUE]
    BY <1>4
  <2> HIDE DEF told
  <2>4. freed = [told EXCEPT !.heap = old.heap \ {"req"}]
    BY <2>1, <2>2, OwnedUse
  <2> HIDE DEF freed, q
  <2>5. q \in RequestState
    BY <2>1, <2>2, <2>3, <2>4, DoneState
  <2>6. /\ q.calls = 1 /\ ~q.fault /\ ~q.discarded
        /\ q.heap = old.heap \ {"req"} /\ q.phase = "done" /\ q.broken
    BY <2>2, <2>3, <2>4 DEF RequestState
  <2>7. "buffer" \in q.heap
    BY <1>1, <2>6 DEF Sound, HeapByPhase
  <2>8. Sound(q)
    BY <2>5, <2>6, <2>7 DEF Sound, HeapByPhase, DropMarked, Connected
  <2> QED BY <2>5, <2>8, <1>2, OneRequest
<1> QED BY <1>3, <1>4

LEMMA Connects ==
    ASSUME HInv, NEW r \in Request, connect_callback(r)
    PROVE  HInv'
<1> DEFINE old == http[r]
           q == [Uses(old, {"conn", "req", "path", "hostname"}) EXCEPT !.phase = "open"]
<1>1. old \in RequestState /\ Sound(old) /\ old.phase = "connecting"
  BY DEF HInv, connect_callback
<1>2. Becomes(r, q)
  BY DEF connect_callback
<1> HIDE DEF old
<1>3. old.calls = 0 /\ ~old.fault /\ Owned \subseteq old.heap /\ DropMarked(old)
  BY <1>1 DEF Sound, HeapByPhase, Connected
<1>4. Uses(old, {"conn", "req", "path", "hostname"}) = old
  <2>1. {"conn", "req", "path", "hostname"} \subseteq old.heap
    BY <1>3 DEF Owned
  <2> QED BY <1>1, <1>3, <2>1, OwnedUse
<1>5. q = [old EXCEPT !.phase = "open"]
  BY <1>4
<1> HIDE DEF q
<1>6. q \in RequestState
  BY <1>1, <1>5, FieldSet DEF Phase
<1>7. /\ q.phase = "open" /\ q.heap = old.heap /\ q.calls = 0 /\ ~q.fault
      /\ q.discarded = old.discarded /\ q.segments = old.segments
      /\ q.cut = old.cut /\ q.text = old.text
  BY <1>1, <1>3, <1>5 DEF RequestState
<1>8. Sound(q)
  BY <1>3, <1>7 DEF Sound, HeapByPhase, DropMarked, Connected
<1> QED BY <1>2, <1>6, <1>8, OneRequest

LEMMA Acknowledged ==
    ASSUME HInv, NEW r \in Request, sent_callback(r)
    PROVE  HInv'
<1> DEFINE old == http[r]
           q == IF "post_data" \in old.heap
                THEN Frees(Uses(old, {"conn", "req"}), {"post_data"})
                ELSE Uses(old, {"conn", "req"})
<1>1. old \in RequestState /\ Sound(old) /\ old.phase \in {"open", "closing"}
  BY DEF HInv, sent_callback
<1>2. Becomes(r, q)
  BY DEF sent_callback
<1> HIDE DEF old
<1>3. q \in RequestState /\ Sound(q)
  <2>1. CASE "post_data" \in old.heap
    BY <1>1, <2>1 DEF Uses, Frees, RequestState, Sound, HeapByPhase, DropMarked, Connected, Owned
  <2>2. CASE "post_data" \notin old.heap
    BY <1>1, <2>2 DEF Uses, RequestState, Sound, HeapByPhase, DropMarked, Connected, Owned
  <2> QED BY <2>1, <2>2
<1> QED BY <1>2, <1>3, OneRequest

LEMMA Receives ==
    ASSUME HInv, NEW r \in Request, NEW allocated \in BOOLEAN, receive_callback(r, allocated)
    PROVE  HInv'
<1> DEFINE old == http[r]
           q == Uses(old, {"conn", "req", "buffer"})
           segment == IF q.segments = 0 THEN "head" ELSE "rest"
           fits == Len(q.text) < MaxBuffer /\ allocated
           appended == [q EXCEPT !.segments = @ + 1, !.text = Append(@, segment), !.cut = @ /\ q.text # <<>>]
           dropped == Discard([q EXCEPT !.segments = @ + 1])
<1>1. old \in RequestState /\ Sound(old) /\ old.phase \in {"open", "closing"}
  <2>1. old \in RequestState /\ Sound(old)
    BY DEF HInv
  <2>2. q.phase \in {"open", "closing"}
    BY DEF receive_callback
  <2>3. q.phase = old.phase
    BY <2>1 DEF Uses, RequestState
  <2> HIDE DEF old, q
  <2> QED BY <2>1, <2>2, <2>3
<1>2. Becomes(r, IF fits THEN appended ELSE dropped)
  BY DEF receive_callback
<1> HIDE DEF old
<1>3. q = old
  BY <1>1 DEF Uses, RequestState, Sound, HeapByPhase, Connected, Owned
<1> HIDE DEF q
<1>4. appended \in RequestState /\ Sound(appended)
  <2>1. appended \in RequestState
    <3>1. segment \in Segment /\ old.text \in Seq(Segment) /\ old.segments + 1 \in Nat
      BY <1>1 DEF Segment, RequestState
    <3>2. Append(old.text, segment) \in Seq(Segment) /\ (old.cut /\ old.text # <<>>) \in BOOLEAN
      BY <3>1
    <3> HIDE DEF segment
    <3> QED BY <1>1, <1>3, <3>1, <3>2 DEF RequestState
  <2>2. ~appended.fault /\ appended.calls = 0 /\ appended.phase = old.phase /\ HeapByPhase(appended)
    BY <1>1, <1>3 DEF RequestState, Sound, HeapByPhase, Connected
  <2>3. ASSUME old.discarded PROVE appended.cut \/ (appended.text # <<>> /\ appended.text[1] = "rest")
    <3>1. old.segments > 0 /\ (old.cut \/ (old.text # <<>> /\ old.text[1] = "rest"))
      BY <1>1, <2>3 DEF Sound, DropMarked
    <3>2. CASE old.text = <<>>
      <4>1. appended.text = Append(<<>>, "rest")
        BY <1>1, <1>3, <3>1, <3>2 DEF RequestState
      <4>2. Append(<<>>, "rest") # <<>> /\ Append(<<>>, "rest")[1] = "rest"
        OBVIOUS
      <4> QED BY <4>1, <4>2
    <3>3. CASE old.text # <<>>
      <4>1. appended.text = Append(old.text, segment) /\ appended.cut = old.cut
        BY <1>1, <1>3, <3>3 DEF RequestState
      <4>2. old.text \in Seq(Segment) /\ segment \in Segment
        BY <1>1 DEF RequestState, Segment
      <4>3. appended.text # <<>> /\ appended.text[1] = old.text[1]
        BY <4>1, <4>2, <3>3
      <4> QED BY <3>1, <4>1, <4>3
    <3> QED BY <3>2, <3>3
  <2>4. DropMarked(appended)
    <3>1. appended.discarded = old.discarded /\ appended.segments = old.segments + 1 /\ old.segments \in Nat
      BY <1>1, <1>3 DEF RequestState
    <3> QED BY <1>1, <2>2, <2>3, <3>1 DEF DropMarked
  <2> QED BY <1>1, <2>1, <2>2, <2>4 DEF Sound
<1>5. dropped \in RequestState /\ Sound(dropped)
  <2>1. dropped = [old EXCEPT !.segments = @ + 1, !.cut = TRUE, !.discarded = TRUE, !.phase = "closing"]
    BY <1>3 DEF Discard
  <2>2. dropped \in RequestState
    <3> DEFINE q1 == [old EXCEPT !.segments = old.segments + 1]
               q2 == [q1 EXCEPT !.cut = TRUE]
               q3 == [q2 EXCEPT !.discarded = TRUE]
    <3>1. dropped = [q3 EXCEPT !.phase = "closing"]
      BY <2>1
    <3>2. q1 \in RequestState
      <4>1. old.segments + 1 \in Nat
        BY <1>1 DEF RequestState
      <4> QED BY <1>1, <4>1, FieldSet
    <3> HIDE DEF dropped, q1
    <3>3. q2 \in RequestState
      BY <3>2, FieldSet
    <3> HIDE DEF q2
    <3>4. q3 \in RequestState
      BY <3>3, FieldSet
    <3> HIDE DEF q3
    <3> QED BY <3>1, <3>4, FieldSet DEF Phase
  <2>3. /\ dropped.phase = "closing" /\ dropped.cut /\ dropped.segments = old.segments + 1
        /\ dropped.heap = old.heap /\ dropped.calls = old.calls /\ dropped.fault = old.fault
    BY <1>1, <2>1 DEF RequestState
  <2>4. old.calls = 0 /\ ~old.fault /\ Owned \subseteq old.heap /\ old.segments \in Nat
    BY <1>1 DEF Sound, HeapByPhase, Connected, RequestState
  <2> HIDE DEF dropped
  <2> QED BY <2>2, <2>3, <2>4 DEF Sound, HeapByPhase, DropMarked, Connected
<1> HIDE DEF appended, dropped
<1> QED BY <1>2, <1>4, <1>5, OneRequest

LEMMA Disconnects ==
    ASSUME HInv, NEW r \in Request, NEW broken \in BOOLEAN,
           Connected(http[r]), disconnect_callback(r, broken)
    PROVE  HInv'
<1> DEFINE old == http[r]
           q == Uses(old, {"conn", "tcp", "req", "buffer"})
           told == UserCallback(q, Status(q))
           new == [Frees(told, Owned) EXCEPT !.phase = "done", !.broken = broken]
<1>1. old \in RequestState /\ Sound(old) /\ Connected(old)
  BY DEF HInv
<1>2. Becomes(r, new)
  BY DEF disconnect_callback
<1> HIDE DEF old
<1>3. q = old
  BY <1>1 DEF Uses, RequestState, Sound, HeapByPhase, Owned
<1>4. Status(q) \in {GENERIC_ERROR, OK} /\ (old.discarded => Status(q) = GENERIC_ERROR)
  BY <1>1, <1>3, StatusType, DroppedStatus DEF Sound
<1> HIDE DEF q
<1>5. /\ old.calls = 0 /\ ~old.fault /\ Owned \subseteq old.heap /\ old.heap \in SUBSET Object
  BY <1>1 DEF RequestState, Sound, HeapByPhase, Connected
<1>6. /\ told \in RequestState /\ told.calls = 1 /\ told.status = Status(q) /\ ~told.fault
      /\ told.heap = old.heap /\ told.discarded = old.discarded
      /\ told.cut = old.cut /\ told.text = old.text /\ told.segments = old.segments
  BY <1>1, <1>3, <1>4, <1>5, ToldState
<1> HIDE DEF told
<1>9. new = [[[told EXCEPT !.heap = old.heap \ Owned] EXCEPT !.phase = "done"] EXCEPT !.broken = broken]
  <2> DEFINE freed == Frees(told, Owned)
  <2>1. freed = [told EXCEPT !.heap = told.heap \ Owned]
    BY <1>5, <1>6, OwnedUse
  <2>2. freed \in RequestState
    <3>1. told.heap \ Owned \in SUBSET Object
      BY <1>5, <1>6
    <3> HIDE DEF freed
    <3> QED BY <1>6, <2>1, <3>1, FieldSet
  <2>3. new = [freed EXCEPT !.phase = "done", !.broken = broken]
    OBVIOUS
  <2> HIDE DEF freed, new
  <2>4. new = [[freed EXCEPT !.phase = "done"] EXCEPT !.broken = broken]
    BY <2>2, <2>3 DEF RequestState
  <2> QED BY <1>6, <2>1, <2>4
<1> HIDE DEF new
<1>10. new \in RequestState
  BY <1>5, <1>6, <1>9, DoneState
<1>11. /\ ~new.fault /\ new.calls = 1 /\ new.phase = "done" /\ new.heap = old.heap \ Owned
       /\ new.status = Status(q) /\ new.discarded = old.discarded /\ new.cut = old.cut
       /\ new.text = old.text /\ new.segments = old.segments
  BY <1>6, <1>9 DEF RequestState
<1>7. HeapByPhase(new)
  <2>1. old.heap \ Owned \subseteq {"post_data"}
    BY <1>5 DEF Object, Owned
  <2> QED BY <1>11, <2>1 DEF HeapByPhase, Connected
<1>8. DropMarked(new)
  BY <1>1, <1>4, <1>11 DEF Sound, DropMarked
<1> QED BY <1>2, <1>7, <1>8, <1>10, <1>11, OneRequest DEF Sound

LEMMA HInvInit == HInit => HInv
BY UnusedSound DEF HInit, HInv

LEMMA HInvStep == HInv /\ [HNext]_http => HInv'
<1> SUFFICES ASSUME HInv, [HNext]_http PROVE HInv'
  OBVIOUS
<1>1. CASE UNCHANGED http
  BY <1>1 DEF HInv
<1>2. ASSUME NEW r \in Request, NEW yes \in BOOLEAN, http_raw_request(r, yes) PROVE HInv'
  BY <1>2, Asks
<1>3. ASSUME NEW r \in Request, NEW yes \in BOOLEAN, dns_callback(r, yes) PROVE HInv'
  BY <1>3, NameAnswered
<1>4. ASSUME NEW r \in Request, NEW yes \in BOOLEAN, receive_callback(r, yes) PROVE HInv'
  BY <1>4, Receives
<1>5. ASSUME NEW r \in Request, connect_callback(r) PROVE HInv'
  BY <1>5, Connects
<1>6. ASSUME NEW r \in Request, sent_callback(r) PROVE HInv'
  BY <1>6, Acknowledged
<1>7. ASSUME NEW r \in Request, Closed(r) PROVE HInv'
  BY <1>7, Disconnects DEF Closed, Connected
<1>8. ASSUME NEW r \in Request, error_callback(r) PROVE HInv'
  BY <1>8, Disconnects DEF error_callback, Connected
<1>9. ASSUME NEW r \in Request, Again(r) PROVE HInv'
  BY <1>9, UnusedSound, OneRequest DEF Again
<1> QED BY <1>1, <1>2, <1>3, <1>4, <1>5, <1>6, <1>7, <1>8, <1>9 DEF HNext

-------------------------------------------------------------------------------
(* The theorems. *)

(* Whatever the resolver, the stack and the server do, the invariant holds.*)
THEOREM RequestsSound == HSpec => []HInv
BY HInvInit, HInvStep, PTL DEF HSpec

(* No callback uses or frees an object that its request does not own, and  *)
(* a request that got through leaves nothing but unsent data.              *)
THEOREM HeapCorrect == HSpec => []HeapSound
<1>1. HInv => HeapSound
  BY DEF HInv, Sound, HeapByPhase, HeapSound, NoDanglingRequest, NothingLeft
<1> QED BY <1>1, RequestsSound, PTL

(* The user callback is called once, at the end, and hears of no success   *)
(* if a part of the response was dropped.                                  *)
THEOREM AnswerCorrect == HSpec => []AnsweredOnce
<1>1. HInv => AnsweredOnce
  BY DEF HInv, Sound, DropMarked, AnsweredOnce, OneCallback, DiscardedNotSuccess
<1> QED BY <1>1, RequestsSound, PTL

(***************************************************************************)
(* Pid: neither the integral nor the output of a controller at work leaves *)
(* the limits, and a switch to AUTOMATIC is bumpless.                      *)
(***************************************************************************)

PidState == [kp : Int, ki : Int, kd : Int, controllerDirection : {DIRECT, REVERSE}, inAuto : BOOLEAN,
           ITerm : Int, lastInput : Int, outMin : Int, outMax : Int]

PidType == /\ pid \in PidState
           /\ myInput \in Int /\ myOutput \in Int
           /\ switched \in {"", "within", "beyond"}
           /\ turned \in BOOLEAN

(* The limits are an interval: PID_SetOutputLimits() refuses others. *)
Limited == pid.outMin <= pid.outMax

(* A switch within the limits leaves the integral at the output, until the *)
(* first computation; limits that are set in between move both alike.      *)
Prepared == switched = "within" => pid.inAuto /\ pid.ITerm = myOutput

PidInv == PidType /\ Limited /\ NoWindup /\ GainsDirected /\ Prepared

-------------------------------------------------------------------------------
(* Lemmas about the operators. *)

LEMMA WithinRange ==
    ASSUME NEW x \in Int, NEW lo \in Int, NEW hi \in Int, lo <= hi
    PROVE  Within(x, lo, hi) \in Int /\ Within(x, lo, hi) \in lo .. hi
BY DEF Within

LEMMA WithinSame ==
    ASSUME NEW lo \in Int, NEW hi \in Int, NEW x \in lo .. hi
    PROVE  Within(x, lo, hi) = x
BY DEF Within

LEMMA ProductInt ==
    ASSUME NEW x \in Int, NEW y \in Int
    PROVE  x * y \in Int
OBVIOUS

LEMMA QuotientInt ==
    ASSUME NEW x \in Int, NEW y \in Nat \ {0}
    PROVE  x \div y \in Int
OBVIOUS

LEMMA TimesZero ==
    ASSUME NEW x \in Int
    PROVE  x * 0 = 0 /\ 0 * x = 0
OBVIOUS

(* The sign that PID_SetTunings() and PID_SetControllerDirection() give. *)
Signed(p) == LET s == IF p.controllerDirection = REVERSE THEN -1 ELSE 1
             IN  s * p.kp >= 0 /\ s * p.ki >= 0 /\ s * p.kd >= 0

LEMMA SignTwice ==
    ASSUME NEW s \in {-1, 1}, NEW x \in Int, x >= 0
    PROVE  s * x \in Int /\ s * (s * x) >= 0
<1>1. CASE s = 1
  BY <1>1
<1>2. CASE s = -1
  BY <1>2
<1> QED BY <1>1, <1>2

LEMMA TunedType ==
    ASSUME NEW p \in PidState, NEW t \in Tunings, Positive(t)
    PROVE  /\ Tuned(p, t) \in PidState /\ Signed(Tuned(p, t))
           /\ Tuned(p, t).inAuto = p.inAuto /\ Tuned(p, t).ITerm = p.ITerm
           /\ Tuned(p, t).outMin = p.outMin /\ Tuned(p, t).outMax = p.outMax
<1> DEFINE s == IF p.controllerDirection = REVERSE THEN -1 ELSE 1
<1>1. t.kp \in Int /\ t.ki \in Int /\ t.kd \in Int /\ t.kp >= 0 /\ t.ki >= 0 /\ t.kd >= 0
  BY PidAssumption DEF Positive
<1>2. s \in {-1, 1}
  OBVIOUS
<1>3. Tuned(p, t) = [p EXCEPT !.kp = s * t.kp, !.ki = s * t.ki, !.kd = s * t.kd]
  BY DEF Tuned
<1>4. s = IF Tuned(p, t).controllerDirection = REVERSE THEN -1 ELSE 1
  BY <1>3 DEF PidState
<1> HIDE DEF s
<1>5. PICK x \in Int, y \in Int, z \in Int :
        /\ x = s * t.kp /\ y = s * t.ki /\ z = s * t.kd
        /\ s * x >= 0 /\ s * y >= 0 /\ s * z >= 0
  BY <1>1, <1>2, SignTwice
<1>6. Tuned(p, t) = [p EXCEPT !.kp = x, !.ki = y, !.kd = z]
  BY <1>3, <1>5
<1>7. /\ Tuned(p, t) \in PidState
      /\ Tuned(p, t).inAuto = p.inAuto /\ Tuned(p, t).ITerm = p.ITerm
      /\ Tuned(p, t).outMin = p.outMin /\ Tuned(p, t).outMax = p.outMax
      /\ Tuned(p, t).kp = x /\ Tuned(p, t).ki = y /\ Tuned(p, t).kd = z
  BY <1>6 DEF PidState
<1> QED BY <1>4, <1>5, <1>7 DEF Signed

LEMMA Computation ==
    ASSUME PidType, Limited, NEW dt \in Elapses
    PROVE  LET error == PidSetpoint - myInput
               iTerm == ITermAfter(error, dt)
               output == pid.kp * error + iTerm - (pid.kd \div dt) * (myInput - pid.lastInput)
           IN  iTerm \in Int /\ iTerm \in pid.outMin .. pid.outMax /\ output \in Int
<1>0. /\ pid.kp \in Int /\ pid.ki \in Int /\ pid.kd \in Int /\ pid.ITerm \in Int
      /\ pid.outMin \in Int /\ pid.outMax \in Int /\ pid.lastInput \in Int /\ myInput \in Int
      /\ PidSetpoint \in Int /\ dt \in Nat \ {0} /\ dt \in Int
  <2>1. PidSetpoint \in Int /\ dt \in Nat \ {0} /\ dt \in Int
    BY PidAssumption
  <2>2. /\ pid.kp \in Int /\ pid.ki \in Int /\ pid.kd \in Int /\ pid.ITerm \in Int
        /\ pid.outMin \in Int /\ pid.outMax \in Int /\ pid.lastInput \in Int /\ myInput \in Int
    BY DEF PidType, PidState
  <2> QED BY <2>1, <2>2
<1>1. myInput - pid.lastInput \in Int
  BY <1>0
<1> DEFINE error == PidSetpoint - myInput
           iTerm == ITermAfter(error, dt)
<1>2. error \in Int
  BY <1>0
<1> HIDE DEF error
<1>3. (pid.ki * error) * dt \in Int /\ pid.kp * error \in Int
  BY <1>0, <1>2, ProductInt
<1>4. pid.ITerm + (pid.ki * error) * dt \in Int
  BY <1>0, <1>3
<1>5. iTerm \in Int /\ iTerm \in pid.outMin .. pid.outMax
  BY <1>0, <1>4, WithinRange DEF ITermAfter, Limited
<1>6. (pid.kd \div dt) * (myInput - pid.lastInput) \in Int
  BY <1>0, <1>1, QuotientInt, ProductInt
<1> HIDE DEF iTerm
<1>7. pid.kp * error + iTerm - (pid.kd \div dt) * (myInput - pid.lastInput) \in Int
  BY <1>3, <1>5, <1>6
<1> QED BY <1>5, <1>7 DEF error, iTerm

-------------------------------------------------------------------------------
(* The steps. *)

LEMMA PidBegins == PidInit => PidInv
<1> SUFFICES ASSUME PidInit PROVE PidInv
  OBVIOUS
<1>1. PICK t \in Tunings, direction \in {DIRECT, REVERSE} :
        /\ Positive(t)
        /\ pid = Tuned([kp |-> 0, ki |-> 0, kd |-> 0, controllerDirection |-> direction, inAuto |-> FALSE,
                        ITerm |-> 0, lastInput |-> 0, outMin |-> CreateLimits.min,
                        outMax |-> CreateLimits.max], t)
  BY DEF PidInit
<1> DEFINE p == [kp |-> 0, ki |-> 0, kd |-> 0, controllerDirection |-> direction, inAuto |-> FALSE,
                 ITerm |-> 0, lastInput |-> 0, outMin |-> CreateLimits.min, outMax |-> CreateLimits.max]
<1>2. CreateLimits.min \in Int /\ CreateLimits.max \in Int /\ CreateLimits.min <= CreateLimits.max
  BY PidAssumption
<1>3. p \in PidState /\ ~p.inAuto /\ p.outMin <= p.outMax
  BY <1>2 DEF PidState
<1>4. pid = Tuned(p, t)
  BY <1>1
<1> HIDE DEF p
<1>5. pid \in PidState /\ Signed(pid) /\ ~pid.inAuto /\ pid.outMin <= pid.outMax
  BY <1>1, <1>3, <1>4, TunedType
<1>6. myInput \in Int /\ myOutput \in Int /\ switched = "" /\ turned = FALSE
  BY PidAssumption DEF PidInit
<1> QED BY <1>5, <1>6 DEF PidInv, PidType, Limited, NoWindup, GainsDirected, Signed, Prepared

LEMMA TuningsStep == PidInv /\ PID_SetTunings => PidInv'
<1> SUFFICES ASSUME PidInv, NEW t \in Tunings, Positive(t), pid' = Tuned(pid, t), turned' = FALSE,
                    UNCHANGED <<myInput, myOutput, switched>>
             PROVE  PidInv'
  BY DEF PID_SetTunings
<1>1. /\ pid' \in PidState /\ Signed(pid') /\ pid'.inAuto = pid.inAuto /\ pid'.ITerm = pid.ITerm
      /\ pid'.outMin = pid.outMin /\ pid'.outMax = pid.outMax
  BY TunedType DEF PidInv, PidType
<1>2. GainsDirected'
  BY <1>1 DEF GainsDirected, Signed
<1> QED BY <1>1, <1>2 DEF PidInv, PidType, Limited, NoWindup, Prepared

LEMMA LimitsStep == PidInv /\ PID_SetOutputLimits => PidInv'
<1> SUFFICES ASSUME PidInv, PID_SetOutputLimits PROVE PidInv'
  OBVIOUS
<1>1. PICK l \in Limits :
        /\ l.min < l.max
        /\ LET p == [pid EXCEPT !.outMin = l.min, !.outMax = l.max]
           IN  IF pid.inAuto
               THEN /\ myOutput' = Within(myOutput, l.min, l.max)
                    /\ pid' = [p EXCEPT !.ITerm = Within(@, l.min, l.max)]
               ELSE pid' = p /\ UNCHANGED myOutput
        /\ UNCHANGED <<myInput, switched, turned>>
  BY DEF PID_SetOutputLimits
<1>2. l.min \in Int /\ l.max \in Int /\ l.min <= l.max
  BY <1>1, PidAssumption
<1>3. pid \in PidState /\ pid.ITerm \in Int /\ myOutput \in Int
  BY DEF PidInv, PidType, PidState
<1>4. /\ Within(myOutput, l.min, l.max) \in Int /\ Within(myOutput, l.min, l.max) \in l.min .. l.max
      /\ Within(pid.ITerm, l.min, l.max) \in Int /\ Within(pid.ITerm, l.min, l.max) \in l.min .. l.max
  BY <1>2, <1>3, WithinRange
<1>5. CASE pid.inAuto
  <2>1. /\ pid' = [pid EXCEPT !.outMin = l.min, !.outMax = l.max, !.ITerm = Within(pid.ITerm, l.min, l.max)]
        /\ myOutput' = Within(myOutput, l.min, l.max)
    BY <1>1, <1>3, <1>5 DEF PidState
  <2>2. /\ pid' \in PidState /\ pid'.outMin = l.min /\ pid'.outMax = l.max /\ pid'.inAuto = pid.inAuto
        /\ pid'.ITerm = Within(pid.ITerm, l.min, l.max)
        /\ pid'.controllerDirection = pid.controllerDirection
        /\ pid'.kp = pid.kp /\ pid'.ki = pid.ki /\ pid'.kd = pid.kd
    BY <1>2, <1>3, <1>4, <2>1 DEF PidState
  <2>3. PidType' /\ Limited'
    BY <1>1, <1>2, <1>4, <2>1, <2>2 DEF PidInv, PidType, Limited
  <2>4. NoWindup'
    BY <1>4, <2>1, <2>2 DEF NoWindup
  <2>5. GainsDirected'
    BY <1>1, <2>2 DEF PidInv, GainsDirected
  <2>6. Prepared'
    BY <1>1, <2>1, <2>2 DEF PidInv, Prepared
  <2> QED BY <2>3, <2>4, <2>5, <2>6 DEF PidInv
<1>6. CASE ~pid.inAuto
  <2>1. pid' = [pid EXCEPT !.outMin = l.min, !.outMax = l.max] /\ myOutput' = myOutput
    BY <1>1, <1>6
  <2>2. /\ pid' \in PidState /\ pid'.outMin = l.min /\ pid'.outMax = l.max /\ pid'.inAuto = pid.inAuto
        /\ pid'.controllerDirection = pid.controllerDirection
        /\ pid'.kp = pid.kp /\ pid'.ki = pid.ki /\ pid'.kd = pid.kd
    BY <1>2, <1>3, <2>1 DEF PidState
  <2>3. PidType' /\ Limited'
    BY <1>1, <1>2, <2>1, <2>2 DEF PidInv, PidType, Limited
  <2>4. NoWindup' /\ Prepared'
    BY <1>1, <1>6, <2>2 DEF NoWindup, PidInv, Prepared
  <2>5. GainsDirected'
    BY <1>1, <2>2 DEF PidInv, GainsDirected
  <2> QED BY <2>3, <2>4, <2>5 DEF PidInv
<1> QED BY <1>5, <1>6

LEMMA ModeStep == PidInv /\ PID_SetMode => PidInv'
<1> SUFFICES ASSUME PidInv, NEW newAuto \in BOOLEAN,
                    pid' = [(IF Changed(newAuto) THEN Initialized(pid) ELSE pid) EXCEPT !.inAuto = newAuto],
                    switched' = IF ~newAuto THEN "" ELSE IF pid.inAuto THEN switched
                                ELSE IF myOutput \in pid.outMin .. pid.outMax THEN "within" ELSE "beyond",
                    UNCHANGED <<myInput, myOutput, turned>>
             PROVE  PidInv'
  BY DEF PID_SetMode
<1>1. /\ pid \in PidState /\ myOutput \in Int /\ myInput \in Int
      /\ pid.outMin \in Int /\ pid.outMax \in Int /\ pid.outMin <= pid.outMax /\ pid.inAuto \in BOOLEAN
  BY DEF PidInv, PidType, PidState, Limited
<1>2. Within(myOutput, pid.outMin, pid.outMax) \in Int
      /\ Within(myOutput, pid.outMin, pid.outMax) \in pid.outMin .. pid.outMax
  BY <1>1, WithinRange
<1>3. CASE Changed(newAuto)
  <2>1. pid' = [pid EXCEPT !.ITerm = Within(myOutput, pid.outMin, pid.outMax), !.lastInput = myInput,
                           !.inAuto = newAuto]
    BY <1>1, <1>3 DEF Initialized, PidState
  <2>2. /\ pid' \in PidState /\ pid'.outMin = pid.outMin /\ pid'.outMax = pid.outMax /\ pid'.inAuto = newAuto
        /\ pid'.ITerm = Within(myOutput, pid.outMin, pid.outMax)
        /\ pid'.controllerDirection = pid.controllerDirection
        /\ pid'.kp = pid.kp /\ pid'.ki = pid.ki /\ pid'.kd = pid.kd
    BY <1>1, <1>2, <2>1 DEF PidState
  <2>3. newAuto => ~pid.inAuto
    BY <1>3 DEF Changed
  <2>4. PidType' /\ Limited'
    BY <1>1, <2>2 DEF PidInv, PidType, Limited
  <2>5. NoWindup'
    BY <1>2, <2>2, <2>3 DEF NoWindup
  <2>6. GainsDirected'
    BY <2>2 DEF PidInv, GainsDirected
  <2>7. Prepared'
    <3>1. switched' = "within" => newAuto /\ myOutput \in pid.outMin .. pid.outMax
      BY <2>3
    <3>2. myOutput \in pid.outMin .. pid.outMax => Within(myOutput, pid.outMin, pid.outMax) = myOutput
      BY <1>1, WithinSame
    <3> QED BY <2>2, <3>1, <3>2 DEF Prepared
  <2> QED BY <2>4, <2>5, <2>6, <2>7 DEF PidInv
<1>4. CASE ~Changed(newAuto)
  <2>1. pid' = pid
    BY <1>1, <1>4 DEF Changed, PidState
  <2>2. newAuto = pid.inAuto
    BY <1>1, <1>4 DEF Changed
  <2>3. switched' = IF pid.inAuto THEN switched ELSE ""
    BY <2>2
  <2> QED BY <1>1, <2>1, <2>3 DEF PidInv, PidType, Limited, NoWindup, GainsDirected, Prepared
<1> QED BY <1>3, <1>4

LEMMA DirectionStep == PidInv /\ PID_SetControllerDirection => PidInv'
<1> SUFFICES ASSUME PidInv, NEW direction \in {DIRECT, REVERSE},
                    LET p == IF pid.inAuto /\ direction # pid.controllerDirection
                             THEN [pid EXCEPT !.kp = -@, !.ki = -@, !.kd = -@] ELSE pid
                    IN  pid' = [p EXCEPT !.controllerDirection = direction],
                    turned' = (turned \/ (~pid.inAuto /\ direction # pid.controllerDirection)),
                    UNCHANGED <<myInput, myOutput, switched>>
             PROVE  PidInv'
  BY DEF PID_SetControllerDirection
<1>1. pid \in PidState /\ turned \in BOOLEAN
  BY DEF PidInv, PidType
<1>2. /\ pid' \in PidState /\ pid'.inAuto = pid.inAuto /\ pid'.ITerm = pid.ITerm
      /\ pid'.outMin = pid.outMin /\ pid'.outMax = pid.outMax /\ pid'.controllerDirection = direction
  <2>1. CASE pid.inAuto /\ direction # pid.controllerDirection
    <3>1. pid' = [pid EXCEPT !.kp = -pid.kp, !.ki = -pid.ki, !.kd = -pid.kd,
                             !.controllerDirection = direction]
      BY <1>1, <2>1 DEF PidState
    <3>2. pid.kp \in Int /\ pid.ki \in Int /\ pid.kd \in Int
      BY <1>1 DEF PidState
    <3>3. -pid.kp \in Int /\ -pid.ki \in Int /\ -pid.kd \in Int
      BY <3>2
    <3> QED BY <1>1, <3>1, <3>3 DEF PidState
  <2>2. CASE ~(pid.inAuto /\ direction # pid.controllerDirection)
    BY <1>1, <2>2 DEF PidState
  <2> QED BY <2>1, <2>2
<1>3. PidType' /\ Limited' /\ NoWindup' /\ Prepared'
  BY <1>1, <1>2 DEF PidInv, PidType, Limited, NoWindup, Prepared
<1>4. GainsDirected'
  <2> SUFFICES ASSUME ~turned' PROVE Signed(pid')
    BY DEF GainsDirected, Signed
  <2>1. Signed(pid)
    BY DEF PidInv, GainsDirected, Signed
  <2>2. CASE direction = pid.controllerDirection
    <3>1. pid'.kp = pid.kp /\ pid'.ki = pid.ki /\ pid'.kd = pid.kd
      BY <1>1, <2>2 DEF PidState
    <3> QED BY <1>2, <2>1, <2>2, <3>1 DEF Signed
  <2>3. CASE direction # pid.controllerDirection
    <3>1. pid'.kp = -pid.kp /\ pid'.ki = -pid.ki /\ pid'.kd = -pid.kd
      BY <1>1, <2>3 DEF PidState
    <3>2. pid.kp \in Int /\ pid.ki \in Int /\ pid.kd \in Int
      BY <1>1 DEF PidState
    <3>3. CASE direction = REVERSE /\ pid.controllerDirection = DIRECT
      BY <1>2, <2>1, <3>1, <3>2, <3>3 DEF Signed, REVERSE, DIRECT
    <3>4. CASE direction = DIRECT /\ pid.controllerDirection = REVERSE
      BY <1>2, <2>1, <3>1, <3>2, <3>4 DEF Signed, REVERSE, DIRECT
    <3> QED BY <1>1, <2>3, <3>3, <3>4 DEF PidState
  <2> QED BY <2>2, <2>3
<1> QED BY <1>3, <1>4 DEF PidInv

LEMMA ComputeStep == PidInv /\ PID_Compute => PidInv'
<1> SUFFICES ASSUME PidInv, PID_Compute PROVE PidInv'
  OBVIOUS
<1>1. PICK dt \in Elapses :
        LET error == PidSetpoint - myInput
            iTerm == ITermAfter(error, dt)
            output == pid.kp * error + iTerm - (pid.kd \div dt) * (myInput - pid.lastInput)
        IN  /\ pid.inAuto
            /\ myOutput' = Within(output, pid.outMin, pid.outMax)
            /\ pid' = [pid EXCEPT !.ITerm = iTerm, !.lastInput = myInput]
            /\ switched' = ""
            /\ UNCHANGED <<myInput, turned>>
  BY DEF PID_Compute
<1>2. PICK iTerm \in Int, output \in Int :
        /\ iTerm \in pid.outMin .. pid.outMax
        /\ myOutput' = Within(output, pid.outMin, pid.outMax)
        /\ pid' = [pid EXCEPT !.ITerm = iTerm, !.lastInput = myInput]
  BY <1>1, Computation, Zenon DEF PidInv
<1>3. /\ pid \in PidState /\ myInput \in Int
      /\ pid.outMin \in Int /\ pid.outMax \in Int /\ pid.outMin <= pid.outMax
  BY DEF PidInv, PidType, PidState, Limited
<1>4. myOutput' \in Int /\ myOutput' \in pid.outMin .. pid.outMax
  BY <1>2, <1>3, WithinRange
<1>5. /\ pid' \in PidState /\ pid'.outMin = pid.outMin /\ pid'.outMax = pid.outMax /\ pid'.ITerm = iTerm
      /\ pid'.controllerDirection = pid.controllerDirection
      /\ pid'.kp = pid.kp /\ pid'.ki = pid.ki /\ pid'.kd = pid.kd
  BY <1>2, <1>3 DEF PidState
<1>6. switched' = "" /\ myInput' = myInput /\ turned' = turned
  BY <1>1
<1>7. PidType' /\ Limited' /\ Prepared'
  BY <1>3, <1>4, <1>5, <1>6 DEF PidInv, PidType, Limited, Prepared
<1>8. NoWindup'
  BY <1>2, <1>4, <1>5 DEF NoWindup
<1>9. GainsDirected'
  BY <1>5, <1>6 DEF PidInv, GainsDirected
<1> QED BY <1>7, <1>8, <1>9 DEF PidInv

LEMMA PidStep == PidInv /\ [PidNext]_pvars => PidInv'
<1> SUFFICES ASSUME PidInv, [PidNext]_pvars PROVE PidInv'
  OBVIOUS
<1>1. CASE InputMoves
  BY <1>1, PidAssumption DEF InputMoves, PidInv, PidType, Limited, NoWindup, GainsDirected, Prepared
<1>2. CASE OutputSet
  BY <1>2, PidAssumption DEF OutputSet, PidInv, PidType, Limited, NoWindup, GainsDirected, Prepared
<1>3. CASE UNCHANGED pvars
  BY <1>3 DEF pvars, PidInv, PidType, Limited, NoWindup, GainsDirected, Prepared
<1> QED BY <1>1, <1>2, <1>3, TuningsStep, LimitsStep, ModeStep, DirectionStep, ComputeStep DEF PidNext

LEMMA PidAlways == PidSpec => []PidInv
BY PidBegins, PidStep, PTL DEF PidSpec

-------------------------------------------------------------------------------
(* No sequence of PID_Compute() and the setters leaves an integral or, once*)
(* it has been computed, an output beyond the limits in AUTOMATIC, or gains*)
(* of the wrong sign except after a turn in MANUAL.                        *)
THEOREM PidCorrect == PidSpec => []PidSound
<1>1. PidInv => PidSound
  BY DEF PidInv, PidSound
<1> QED BY <1>1, PidAlways, PTL

(* PID_SetMode() prepares the integral so that the first PID_Compute() at  *)
(* the setpoint changes nothing, whatever limits were set in between and   *)
(* whatever the gains and the time since the computation before.           *)
THEOREM BumplessCorrect == PidSpec => Bumpless
<1>1. ASSUME PidInv, switched = "within", PID_Compute, myInput = PidSetpoint, pid.lastInput = myInput
      PROVE  UNCHANGED myOutput
  <2>1. PICK dt \in Elapses :
          myOutput' = Within(pid.kp * (PidSetpoint - myInput) + ITermAfter(PidSetpoint - myInput, dt)
                               - (pid.kd \div dt) * (myInput - pid.lastInput), pid.outMin, pid.outMax)
    BY <1>1 DEF PID_Compute
  <2>2. /\ pid.kp \in Int /\ pid.ki \in Int /\ pid.kd \in Int /\ pid.ITerm \in Int
        /\ pid.outMin \in Int /\ pid.outMax \in Int /\ myInput \in Int /\ dt \in Nat \ {0} /\ dt \in Int
    BY <1>1, PidAssumption DEF PidInv, PidType, PidState
  <2>3. PidSetpoint - myInput = 0 /\ myInput - pid.lastInput = 0
    BY <1>1, <2>2
  <2>4. /\ pid.ITerm \in pid.outMin .. pid.outMax /\ pid.ITerm = myOutput
        /\ Within(pid.ITerm, pid.outMin, pid.outMax) = pid.ITerm
    BY <1>1, <2>2, WithinSame DEF PidInv, NoWindup, Prepared
  <2>5. pid.kd \div dt \in Int
    BY <2>2, QuotientInt
  <2>6. pid.kp * 0 = 0 /\ (pid.ki * 0) * dt = 0 /\ (pid.kd \div dt) * 0 = 0
    BY <2>2, <2>5, TimesZero
  <2>7. ITermAfter(0, dt) = pid.ITerm
    <3>1. pid.ITerm + (pid.ki * 0) * dt = pid.ITerm
      BY <2>2, <2>6
    <3> QED BY <2>4, <3>1 DEF ITermAfter
  <2>8. pid.kp * 0 + pid.ITerm - (pid.kd \div dt) * 0 = pid.ITerm
    BY <2>2, <2>6
  <2> QED BY <2>1, <2>3, <2>4, <2>7, <2>8
<1>2. PidInv => [switched = "within" /\ PID_Compute /\ myInput = PidSetpoint /\ pid.lastInput = myInput
                   => UNCHANGED myOutput]_pvars
  BY <1>1
<1> QED BY <1>2, PidAlways, PTL DEF Bumpless

(***************************************************************************)
(* Display: no text reaches into another one, for every length that its    *)
(* number may have, as long as it stays in its row.                        *)
(***************************************************************************)

Fields == {"mode", "fridge", "tempLabel", "temp", "kpLabel", "kp", "errLabel", "err",
           "outLabel", "out", "reading", "wifi", "mqtt"}

(* The longest text of each field that stays in its row. *)
Width(f) ==
    CASE f \in {"mode", "fridge"} -> 1
      [] f = "tempLabel" -> 2
      [] f = "kpLabel" -> 3
      [] f \in {"kp", "errLabel", "outLabel", "wifi", "mqtt"} -> 4
      [] f \in {"err", "out"} -> 5
      [] f \in {"temp", "reading"} -> 9

(* The text of a field that was drawn last stands on the screen. *)
FieldShows(scr, sh, f) ==
    /\ sh[f] \in 0 .. Width(f)
    /\ \A i \in 1 .. sh[f] : /\ Cell(f, i) \in DOMAIN scr
                             /\ scr[Cell(f, i)] = [field |-> f, length |-> sh[f], number |-> i]

(* Once a text has left its row nothing is known any more. *)
DisplayInv == /\ DOMAIN shown = Fields
              /\ ~spilled => \A f \in Fields : FieldShows(screen, shown, f)

LEMMA FieldsAre == Field = Fields
BY DEF Field, Place, Fields

LEMMA Places ==
    ASSUME NEW f \in Fields
    PROVE  /\ Place[f] = (CASE f = "mode" -> Position(7, 0) [] f = "fridge" -> Position(7, 1)
                            [] f = "tempLabel" -> Position(7, 3) [] f = "temp" -> Position(7, 5)
                            [] f = "kpLabel" -> Position(7, 14) [] f = "kp" -> Position(7, 17)
                            [] f = "errLabel" -> Position(3, 0) [] f = "err" -> Position(3, 5)
                            [] f = "outLabel" -> Position(4, 0) [] f = "out" -> Position(4, 5)
                            [] f = "reading" -> Position(0, 0) [] f = "wifi" -> Position(6, 0)
                            [] f = "mqtt" -> Position(6, 5))
           /\ Place[f].row \in Nat /\ Place[f].column \in Nat
           /\ Width(f) \in 1 .. 9 /\ Place[f].column + Width(f) - 1 \in Columns
BY DEF Fields, Place, Position, Width, Columns

(* Two fields have no cell in common. *)
LEMMA Apart ==
    ASSUME NEW f \in Fields, NEW g \in Fields, f # g,
           NEW i \in 1 .. Width(f), NEW j \in 1 .. Width(g)
    PROVE  Cell(f, i) # Cell(g, j)
<1>1. \/ Place[f].row # Place[g].row
      \/ Place[f].column + Width(f) <= Place[g].column
      \/ Place[g].column + Width(g) <= Place[f].column
  BY DEF Fields, Place, Position, Width
<1>2. /\ Place[f].row \in Nat /\ Place[f].column \in Nat /\ Width(f) \in 1 .. 9
      /\ Place[g].row \in Nat /\ Place[g].column \in Nat /\ Width(g) \in 1 .. 9
  BY Places
<1> QED BY <1>1, <1>2 DEF Cell

(* What drawing a text of length n does to the cells of all fields. *)
DrawnOver(scr, new, f, n) ==
    /\ \A i \in 1 .. n : /\ Cell(f, i) \in DOMAIN new
                         /\ new[Cell(f, i)] = [field |-> f, length |-> n, number |-> i]
    /\ \A g \in Fields \ {f} : \A j \in 1 .. Width(g) :
          Cell(g, j) \in DOMAIN scr => Cell(g, j) \in DOMAIN new /\ new[Cell(g, j)] = scr[Cell(g, j)]

LEMMA Printed ==
    ASSUME NEW scr, NEW f, f \in Fields, NEW n, n \in 1 .. Width(f)
    PROVE  DrawnOver(scr, OLED_Print(scr, f, n), f, n)
<1> DEFINE drawn == {Cell(f, i) : i \in {k \in 1 .. n : Cell(f, k)[2] \in Columns}}
           new == OLED_Print(scr, f, n)
<1>1. new = [cell \in drawn \cup DOMAIN scr |->
                IF cell \in drawn
                THEN [field |-> f, length |-> n, number |-> cell[2] - Place[f].column + 1]
                ELSE scr[cell]]
  BY DEF OLED_Print
<1>2. /\ Place[f].row \in Nat /\ Place[f].column \in Nat /\ Width(f) \in 1 .. 9
      /\ Place[f].column + Width(f) - 1 \in 0 .. 21
  BY Places DEF Columns
<1>3. ASSUME NEW i \in 1 .. n
      PROVE  Cell(f, i) \in drawn /\ Cell(f, i)[2] = Place[f].column + i - 1
  <2>1. Cell(f, i)[2] = Place[f].column + i - 1 /\ i \in 1 .. n
    BY DEF Cell
  <2>2. Cell(f, i)[2] \in Columns
    BY <1>2, <2>1 DEF Columns
  <2> QED BY <2>1, <2>2
<1> HIDE DEF new
<1>4. ASSUME NEW i \in 1 .. n
      PROVE  Cell(f, i) \in DOMAIN new /\ new[Cell(f, i)] = [field |-> f, length |-> n, number |-> i]
  <2>1. Cell(f, i) \in drawn /\ Cell(f, i)[2] - Place[f].column + 1 = i
    BY <1>2, <1>3
  <2> HIDE DEF drawn
  <2> QED BY <1>1, <2>1
<1>5. ASSUME NEW g \in Fields \ {f}, NEW j \in 1 .. Width(g), Cell(g, j) \in DOMAIN scr
      PROVE  Cell(g, j) \in DOMAIN new /\ new[Cell(g, j)] = scr[Cell(g, j)]
  <2>1. \A i \in 1 .. n : Cell(f, i) # Cell(g, j)
    <3> SUFFICES ASSUME NEW i \in 1 .. n PROVE Cell(f, i) # Cell(g, j)
      OBVIOUS
    <3>1. i \in 1 .. Width(f)
      BY <1>2
    <3> QED BY <3>1, Apart
  <2>2. Cell(g, j) \notin drawn
    BY <2>1
  <2> HIDE DEF drawn
  <2> QED BY <1>1, <1>5, <2>2
<1> QED BY <1>4, <1>5 DEF new, DrawnOver

(* One text is drawn: its field shows it and the others what they did. *)
LEMMA PrintedOver ==
    ASSUME NEW scr, NEW sh, DOMAIN sh = Fields, NEW f \in Fields, NEW n \in 1 .. Width(f),
           \A g \in Fields : FieldShows(scr, sh, g)
    PROVE  \A g \in Fields : FieldShows(OLED_Print(scr, f, n), [sh EXCEPT ![f] = n], g)
<1> DEFINE new == OLED_Print(scr, f, n)
           now == [sh EXCEPT ![f] = n]
<1>1. DrawnOver(scr, new, f, n)
  BY Printed, Zenon
<1>2. now[f] = n /\ \A g \in Fields \ {f} : now[g] = sh[g]
  OBVIOUS
<1> HIDE DEF new, now
<1>3. FieldShows(new, now, f)
  <2>1. n \in 0 .. Width(f)
    BY Places
  <2> QED BY <1>1, <1>2, <2>1 DEF FieldShows, DrawnOver
<1>4. ASSUME NEW g \in Fields \ {f} PROVE FieldShows(new, now, g)
  <2>1. now[g] = sh[g] /\ sh[g] \in 0 .. Width(g)
    BY <1>2 DEF FieldShows
  <2>2. ASSUME NEW i \in 1 .. sh[g]
        PROVE  Cell(g, i) \in DOMAIN new /\ new[Cell(g, i)] = [field |-> g, length |-> sh[g], number |-> i]
    <3>1. Cell(g, i) \in DOMAIN scr /\ scr[Cell(g, i)] = [field |-> g, length |-> sh[g], number |-> i]
      BY DEF FieldShows
    <3>2. i \in 1 .. Width(g)
      BY <2>1, Places
    <3> QED BY <1>1, <3>1, <3>2 DEF DrawnOver
  <2> QED BY <2>1, <2>2 DEF FieldShows
<1> QED BY <1>3, <1>4 DEF new, now


LEMMA Shows ==
    ASSUME DisplayInv, NEW f, f \in Fields, NEW n, n \in Nat \ {0},
           FitsRow(f, n) => n \in 1 .. Width(f), Show(f, n)
    PROVE  DisplayInv'
<1>1. DOMAIN shown' = Fields
  BY DEF DisplayInv, Show
<1>2. ASSUME ~spilled' PROVE \A g \in Fields : FieldShows(screen', shown', g)
  <2>1. FitsRow(f, n) /\ ~spilled
    BY <1>2 DEF Show
  <2>2. n \in 1 .. Width(f) /\ DOMAIN shown = Fields /\ \A g \in Fields : FieldShows(screen, shown, g)
    BY <2>1 DEF DisplayInv
  <2>3. \A g \in Fields : FieldShows(OLED_Print(screen, f, n), [shown EXCEPT ![f] = n], g)
    BY <2>2, PrintedOver
  <2> QED BY <2>3 DEF Show
<1> QED BY <1>1, <1>2 DEF DisplayInv

LEMMA ShowsLabelled ==
    ASSUME DisplayInv, NEW l, l \in Fields, NEW m, m \in 1 .. Width(l), NEW f, f \in Fields, NEW n,
           FitsRow(f, n) => n \in 1 .. Width(f), ShowLabelled(l, m, f, n)
    PROVE  DisplayInv'
<1>1. DOMAIN shown' = Fields
  BY DEF DisplayInv, ShowLabelled
<1>2. ASSUME ~spilled' PROVE \A g \in Fields : FieldShows(screen', shown', g)
  <2>1. FitsRow(f, n) /\ ~spilled
    BY <1>2 DEF ShowLabelled
  <2>2. n \in 1 .. Width(f) /\ DOMAIN shown = Fields /\ \A g \in Fields : FieldShows(screen, shown, g)
    BY <2>1 DEF DisplayInv
  <2> DEFINE scr == OLED_Print(screen, l, m)
             sh == [shown EXCEPT ![l] = m]
  <2>3. DOMAIN sh = Fields /\ \A g \in Fields : FieldShows(scr, sh, g)
    BY <2>2, PrintedOver
  <2> HIDE DEF scr, sh
  <2>4. \A g \in Fields : FieldShows(OLED_Print(scr, f, n), [sh EXCEPT ![f] = n], g)
    BY <2>2, <2>3, PrintedOver
  <2>5. screen' = OLED_Print(scr, f, n) /\ shown' = [sh EXCEPT ![f] = n]
    BY DEF ShowLabelled, scr, sh
  <2> QED BY <2>4, <2>5
<1> QED BY <1>1, <1>2 DEF DisplayInv

(* A KP has room for four characters, a temperature for all it may have.   *)
LEMMA Lengths ==
    /\ \A n \in KpLengths : n \in Nat \ {0} /\ (FitsRow("kp", n) => n \in 1 .. Width("kp"))
    /\ \A n \in TempLengths : n \in 1 .. Width("temp") /\ n \in 1 .. Width("reading") /\ n \in Nat \ {0}
    /\ Width("mode") = 1 /\ Width("fridge") = 1 /\ Width("kpLabel") = 3 /\ Width("tempLabel") = 2
    /\ Width("errLabel") = 4 /\ Width("outLabel") = 4 /\ Width("err") = 5 /\ Width("out") = 5
    /\ Width("wifi") = 4 /\ Width("mqtt") = 4
<1>1. /\ Width("mode") = 1 /\ Width("fridge") = 1 /\ Width("kpLabel") = 3 /\ Width("tempLabel") = 2
      /\ Width("errLabel") = 4 /\ Width("outLabel") = 4 /\ Width("err") = 5 /\ Width("out") = 5
      /\ Width("wifi") = 4 /\ Width("mqtt") = 4
      /\ Width("kp") = 4 /\ Width("temp") = 9 /\ Width("reading") = 9
  BY DEF Width
<1>2. ASSUME NEW n \in KpLengths
      PROVE  n \in Nat \ {0} /\ (FitsRow("kp", n) => n \in 1 .. Width("kp"))
  <2>1. n \in 2 .. 11
    BY LengthAssumption
  <2>2. Place["kp"] = Position(7, 17)
    BY DEF Place
  <2>3. Cell("kp", n)[2] = 17 + n - 1
    BY <2>2 DEF Cell, Position
  <2> QED BY <1>1, <2>1, <2>3 DEF FitsRow, MAX_SMALL_FONTS
<1>3. \A n \in TempLengths : n \in 1 .. 9
  BY LengthAssumption
<1> QED BY <1>1, <1>2, <1>3

LEMMA DisplayBegins == DInit => DisplayInv
<1> SUFFICES ASSUME NEW kp \in KpLengths, NEW tl \in TempLengths, FitsRow("kp", kp),
                    screen = LET s1 == OLED_Print(OLED_Print(Cleared, "kpLabel", 3), "kp", kp)
                                 s2 == OLED_Print(OLED_Print(s1, "tempLabel", 2), "temp", tl)
                             IN  OLED_Print(OLED_Print(s2, "mode", 1), "fridge", 1),
                    shown = [f \in Field |-> CASE f \in {"mode", "fridge"} -> 1
                                               [] f = "kpLabel" -> 3 [] f = "kp" -> kp
                                               [] f = "tempLabel" -> 2 [] f = "temp" -> tl
                                               [] OTHER -> 0]
             PROVE  DisplayInv
  BY DEF DInit
<1> DEFINE n0 == [f \in Fields |-> 0]
           n1 == [n0 EXCEPT !["kpLabel"] = 3]
           n2 == [n1 EXCEPT !["kp"] = kp]
           n3 == [n2 EXCEPT !["tempLabel"] = 2]
           n4 == [n3 EXCEPT !["temp"] = tl]
           n5 == [n4 EXCEPT !["mode"] = 1]
           n6 == [n5 EXCEPT !["fridge"] = 1]
           s1 == OLED_Print(Cleared, "kpLabel", 3)
           s2 == OLED_Print(s1, "kp", kp)
           s3 == OLED_Print(s2, "tempLabel", 2)
           s4 == OLED_Print(s3, "temp", tl)
           s5 == OLED_Print(s4, "mode", 1)
           s6 == OLED_Print(s5, "fridge", 1)
<1>0. /\ "kpLabel" \in Fields /\ "kp" \in Fields /\ "tempLabel" \in Fields
      /\ "temp" \in Fields /\ "mode" \in Fields /\ "fridge" \in Fields
      /\ kp \in 1 .. Width("kp") /\ tl \in 1 .. Width("temp") /\ 3 \in 1 .. Width("kpLabel")
      /\ 2 \in 1 .. Width("tempLabel") /\ 1 \in 1 .. Width("mode") /\ 1 \in 1 .. Width("fridge")
  BY Lengths DEF Fields
<1>1. shown = n6
  BY <1>0, FieldsAre DEF Fields
<1>2. screen = s6
  OBVIOUS
<1>3. DOMAIN n0 = Fields /\ \A g \in Fields : FieldShows(Cleared, n0, g)
  BY Places DEF FieldShows
<1> HIDE DEF n0, s1
<1>4. DOMAIN n1 = Fields /\ \A g \in Fields : FieldShows(s1, n1, g)
  BY <1>0, <1>3, PrintedOver DEF s1
<1> HIDE DEF n1, s2
<1>5. DOMAIN n2 = Fields /\ \A g \in Fields : FieldShows(s2, n2, g)
  BY <1>0, <1>4, PrintedOver DEF s2
<1> HIDE DEF n2, s3
<1>6. DOMAIN n3 = Fields /\ \A g \in Fields : FieldShows(s3, n3, g)
  BY <1>0, <1>5, PrintedOver DEF s3
<1> HIDE DEF n3, s4
<1>7. DOMAIN n4 = Fields /\ \A g \in Fields : FieldShows(s4, n4, g)
  BY <1>0, <1>6, PrintedOver DEF s4
<1> HIDE DEF n4, s5
<1>8. DOMAIN n5 = Fields /\ \A g \in Fields : FieldShows(s5, n5, g)
  BY <1>0, <1>7, PrintedOver DEF s5
<1> HIDE DEF n5, s6
<1>9. DOMAIN n6 = Fields /\ \A g \in Fields : FieldShows(s6, n6, g)
  BY <1>0, <1>8, PrintedOver DEF s6
<1> QED BY <1>1, <1>2, <1>9 DEF DisplayInv

LEMMA DisplayStep == DisplayInv /\ [DNext]_dvars => DisplayInv'
<1> SUFFICES ASSUME DisplayInv, [DNext]_dvars PROVE DisplayInv'
  OBVIOUS
<1>0. /\ "kpLabel" \in Fields /\ "kp" \in Fields /\ "tempLabel" \in Fields
      /\ "temp" \in Fields /\ "mode" \in Fields /\ "fridge" \in Fields
      /\ "errLabel" \in Fields /\ "err" \in Fields /\ "outLabel" \in Fields /\ "out" \in Fields
      /\ "reading" \in Fields /\ "wifi" \in Fields /\ "mqtt" \in Fields
  BY DEF Fields
<1>1. CASE EventFridge
  BY <1>0, <1>1, Lengths, Shows DEF EventFridge
<1>2. CASE EventKp
  <2>1. PICK n \in KpLengths : ShowLabelled("kpLabel", 3, "kp", n)
    BY <1>2 DEF EventKp
  <2>2. 3 \in 1 .. Width("kpLabel") /\ (FitsRow("kp", n) => n \in 1 .. Width("kp"))
    BY Lengths
  <2> QED BY <1>0, <2>1, <2>2, ShowsLabelled
<1>3. CASE EventTemp
  <2>1. PICK n \in TempLengths : ShowLabelled("tempLabel", 2, "temp", n)
    BY <1>3 DEF EventTemp
  <2>2. 2 \in 1 .. Width("tempLabel") /\ n \in 1 .. Width("temp")
    BY Lengths
  <2> QED BY <1>0, <2>1, <2>2, ShowsLabelled
<1>4. CASE EventCtrl
  BY <1>0, <1>4, Lengths, Shows DEF EventCtrl
<1>5. CASE EventErr
  <2>1. 4 \in 1 .. Width("errLabel") /\ 5 \in 1 .. Width("err")
    BY Lengths
  <2> QED BY <1>0, <1>5, <2>1, ShowsLabelled DEF EventErr
<1>6. CASE EventOut
  <2>1. 4 \in 1 .. Width("outLabel") /\ 5 \in 1 .. Width("out")
    BY Lengths
  <2> QED BY <1>0, <1>6, <2>1, ShowsLabelled DEF EventOut
<1>7. CASE EventReading
  BY <1>0, <1>7, Lengths, Shows DEF EventReading
<1>8. CASE WifiConnected
  BY <1>0, <1>8, Lengths, Shows DEF WifiConnected
<1>9. CASE MqttConnected
  BY <1>0, <1>9, Lengths, Shows DEF MqttConnected
<1>10. CASE UNCHANGED dvars
  BY <1>10 DEF dvars, DisplayInv
<1> QED BY <1>1, <1>2, <1>3, <1>4, <1>5, <1>6, <1>7, <1>8, <1>9, <1>10 DEF DNext

(* For every KP and every temperature: unless a KP has left its row, the   *)
(* last text of each field stands on the screen, whole.                    *)
THEOREM FieldsAlwaysShown == DSpec => []FieldsShown
<1>1. DisplayInv => FieldsShown
  BY FieldsAre DEF DisplayInv, FieldsShown, FieldShows
<1> QED BY <1>1, DisplayBegins, DisplayStep, PTL DEF DSpec

(***************************************************************************)
(* Rotary: the handler follows the knob, wherever it turns in the middle   *)
(* of the handler and whatever earlier clicks have left behind.            *)
(***************************************************************************)

(* The pins at each quarter of a click.                                    *)
LEMMA Pins ==
    /\ Clk(0) = 0 /\ Clk(1) = 1 /\ Clk(2) = 1 /\ Clk(3) = 0 /\ Clk(4) = 0
    /\ Clk(-1) = 0 /\ Clk(-2) = 1 /\ Clk(-3) = 1 /\ Clk(-4) = 0
    /\ Dt(0) = 0 /\ Dt(1) = 0 /\ Dt(2) = 1 /\ Dt(3) = 1 /\ Dt(4) = 0
    /\ Dt(-1) = 1 /\ Dt(-2) = 1 /\ Dt(-3) = 0 /\ Dt(-4) = 0
<1>1. 0 % 4 = 0 /\ 1 % 4 = 1 /\ 2 % 4 = 2 /\ 3 % 4 = 3 /\ 4 % 4 = 0
  OBVIOUS
<1>2. \A k \in Int : k < 0 /\ k >= -4 => k % 4 = (k + 4) % 4
  OBVIOUS
<1>3. ASSUME NEW k \in Int, k < 0, k >= -4
      PROVE  Clk(k) = Clk(k + 4) /\ Dt(k) = Dt(k + 4)
  BY <1>2 DEF Clk, Dt
<1>4. /\ Clk(-1) = Clk(-1 + 4) /\ Dt(-1) = Dt(-1 + 4) /\ Clk(-2) = Clk(-2 + 4) /\ Dt(-2) = Dt(-2 + 4)
      /\ Clk(-3) = Clk(-3 + 4) /\ Dt(-3) = Dt(-3 + 4) /\ Clk(-4) = Clk(-4 + 4) /\ Dt(-4) = Dt(-4 + 4)
  BY <1>3
<1>5. -1 + 4 = 3 /\ -2 + 4 = 2 /\ -3 + 4 = 1 /\ -4 + 4 = 0
  OBVIOUS
<1>6. /\ Clk(0) = 0 /\ Clk(1) = 1 /\ Clk(2) = 1 /\ Clk(3) = 0 /\ Clk(4) = 0
      /\ Dt(0) = 0 /\ Dt(1) = 0 /\ Dt(2) = 1 /\ Dt(3) = 1 /\ Dt(4) = 0
  BY <1>1 DEF Clk, Dt
<1> QED BY <1>4, <1>5, <1>6

LEMMA PinsBits == \A k \in -4 .. 4 : Clk(k) \in 0 .. 1 /\ Dt(k) \in 0 .. 1
  BY DEF Clk, Dt

(* No edge waits for the handler.                                          *)
Calm == status \subseteq {"sw"}

(* What the handler knows of a click none of whose edges was hurried or    *)
(* dropped, when it has handled the last edge ...                          *)
Handled ==
    /\ knob \in {-3, -2, -1, 1, 2, 3} => turns = <<>>
    /\ knob \in {-3, -2, 2, 3} => armed
    /\ knob = 3 => dir = 0
    /\ knob = -3 => dir = 1
    /\ knob = 4 => turns = <<1>>
    /\ knob = -4 => turns = <<0>>

(* ... and before it has.                                                  *)
Awaited ==
    /\ knob # 0 => turns = <<>>
    /\ knob \in {-4, -3, 3, 4} => armed
    /\ knob = 4 => dir = 0
    /\ knob = -4 => dir = 1

KnobInv ==
    /\ knob \in -4 .. 4 /\ status \subseteq {"clk", "dt", "sw"} /\ handler \in {"idle", "clk", "dt"}
    /\ clk \in 0 .. 1 /\ dir \in 0 .. 1 /\ armed \in BOOLEAN /\ missed \in BOOLEAN /\ hurried \in BOOLEAN
    /\ handler # "idle" => ~missed
    /\ Calm /\ ~missed /\ handler = "idle" => seen = State(knob)
    /\ Calm /\ handler = "dt" => clk = Clk(knob)
    /\ ~hurried => /\ Calm => ~missed
                   /\ handler # "idle" => Calm
                   /\ Calm /\ handler = "idle" => Handled
                   /\ ~(Calm /\ handler = "idle") => Awaited

LEMMA KnobBegins == RotaryInit => KnobInv
<1> SUFFICES ASSUME RotaryInit PROVE KnobInv
  OBVIOUS
<1>1. /\ knob = 0 /\ status = {} /\ handler = "idle" /\ clk = 0 /\ dir = 0 /\ seen = 0 /\ turns = <<>>
      /\ armed = FALSE /\ missed = FALSE /\ hurried = FALSE
  BY DEF RotaryInit
<1>2. State(knob) = 0 /\ Calm /\ Handled
  BY <1>1, Pins DEF State, Calm, Handled
<1>3. /\ knob \in -4 .. 4 /\ status \subseteq {"clk", "dt", "sw"} /\ handler \in {"idle", "clk", "dt"}
      /\ clk \in 0 .. 1 /\ dir \in 0 .. 1
  BY <1>1
<1>4. armed \in BOOLEAN /\ missed \in BOOLEAN /\ hurried \in BOOLEAN /\ ~missed /\ ~hurried
  BY <1>1, Zenon
<1> QED BY <1>1, <1>2, <1>3, <1>4 DEF KnobInv

(* The quarters of a click are counted from the rest.                      *)
LEMMA FromRest ==
    ASSUME NEW k \in -4 .. 4
    PROVE  State(k) = 0 <=> k \in {-4, 0, 4}
<1>1. k \in {-4, -3, -2, -1, 0, 1, 2, 3, 4}
  OBVIOUS
<1> QED BY <1>1, Pins DEF State

LEMMA Turns ==
    ASSUME KnobInv, NEW step \in {-1, 1}, Turn(step)
    PROVE  KnobInv'
<1> DEFINE from == IF State(knob) = 0 THEN 0 ELSE knob
           edge == IF Clk(from) # Clk(from + step) THEN {"clk"} ELSE {"dt"}
<1>1. knob \in -4 .. 4
  BY DEF KnobInv
<1>2. from \in -3 .. 3 /\ from + step \in -4 .. 4 /\ (from # 0 => from = knob) /\ (from = 0 => knob \in {-4, 0, 4})
  BY <1>1, FromRest
<1>3. /\ knob' = from + step /\ status' = status \cup edge
      /\ hurried' = (status # {} \/ handler # "idle" \/ (hurried /\ from # 0))
      /\ turns' = IF from = 0 THEN <<>> ELSE turns
      /\ UNCHANGED <<handler, clk, armed, dir, seen, missed>>
  BY DEF Turn
<1>4. status' \subseteq {"clk", "dt", "sw"} /\ ~Calm' /\ edge \in {{"clk"}, {"dt"}}
  BY <1>3 DEF KnobInv, Calm
<1> HIDE DEF edge
<1>5. hurried' \in BOOLEAN
  BY <1>3 DEF KnobInv
<1>6. ASSUME ~hurried' PROVE Awaited'
  <2>1. status = {} /\ handler = "idle" /\ (from # 0 => ~hurried)
    BY <1>3, <1>6, Zenon DEF KnobInv
  <2>2. Calm
    BY <2>1 DEF Calm
  <2>3. CASE from = 0
    BY <1>2, <1>3, <2>3 DEF Awaited
  <2>4. CASE from # 0
    <3>1. Handled
      BY <2>1, <2>2, <2>4 DEF KnobInv
    <3>2. knob' = knob + step /\ turns' = turns /\ armed' = armed /\ dir' = dir /\ knob \in {-3, -2, -1, 1, 2, 3}
      BY <1>2, <1>3, <2>4
    <3> QED BY <3>1, <3>2 DEF Handled, Awaited
  <2> QED BY <2>3, <2>4
<1>7. ~hurried' => handler' = "idle"
  BY <1>3, Zenon DEF KnobInv
<1> HIDE DEF from
<1> QED BY <1>2, <1>3, <1>4, <1>5, <1>6, <1>7 DEF KnobInv

LEMMA Pressed == ASSUME KnobInv, Press PROVE KnobInv'
<1>1. status' = status \cup {"sw"} /\ UNCHANGED <<knob, handler, clk, armed, dir, seen, missed, hurried, turns>>
  BY DEF Press
<1>2. (Calm' <=> Calm) /\ (Handled' <=> Handled) /\ (Awaited' <=> Awaited) /\ State(knob)' = State(knob) /\ Clk(knob)' = Clk(knob)
  BY <1>1 DEF Calm, Handled, Awaited, State, Clk, Dt
<1> QED BY <1>1, <1>2 DEF KnobInv

LEMMA Interrupted == ASSUME KnobInv, Interrupt PROVE KnobInv'
<1>1. /\ handler = "idle" /\ status # {} /\ status' = {}
      /\ handler' = IF "sw" \in status THEN "idle" ELSE "clk"
      /\ UNCHANGED <<knob, clk, armed, dir, seen, turns>>
  BY DEF Interrupt
<1>2. Calm' /\ (Handled' <=> Handled) /\ (Awaited' <=> Awaited) /\ State(knob)' = State(knob) /\ Clk(knob)' = Clk(knob)
  BY <1>1 DEF Calm, Handled, Awaited, State, Clk, Dt
<1>3. CASE "sw" \in status /\ status # {"sw"}
  <2>1. missed' /\ hurried' /\ missed' \in BOOLEAN /\ hurried' \in BOOLEAN
    BY <1>3, Zenon DEF Interrupt
  <2> QED BY <1>1, <1>2, <1>3, <2>1 DEF KnobInv
<1>4. CASE status = {"sw"}
  <2>1. missed' = missed /\ hurried' = hurried /\ Calm
    BY <1>4 DEF Interrupt, KnobInv, Calm
  <2> QED BY <1>1, <1>2, <1>4, <2>1 DEF KnobInv
<1>5. CASE "sw" \notin status
  <2>1. ~missed' /\ missed' \in BOOLEAN
    BY <1>5, Zenon DEF Interrupt
  <2>2. hurried' = hurried
    BY <1>5, Zenon DEF Interrupt, KnobInv
  <2>3. ~Calm
    BY <1>1, <1>5 DEF Calm
  <2> QED BY <1>1, <1>2, <1>5, <2>1, <2>2, <2>3 DEF KnobInv
<1> QED BY <1>3, <1>4, <1>5

LEMMA ClkRead == ASSUME KnobInv, ReadClk PROVE KnobInv'
<1>1. /\ handler = "clk" /\ clk' = Clk(knob) /\ handler' = "dt"
      /\ UNCHANGED <<knob, status, armed, dir, seen, missed, hurried, turns>>
  BY DEF ReadClk
<1>2. (Calm' <=> Calm) /\ (Handled' <=> Handled) /\ (Awaited' <=> Awaited) /\ State(knob)' = State(knob) /\ Clk(knob)' = Clk(knob)
  BY <1>1 DEF Calm, Handled, Awaited, State, Clk, Dt
<1>3. clk' \in 0 .. 1
  BY <1>1, PinsBits DEF KnobInv
<1> QED BY <1>1, <1>2, <1>3 DEF KnobInv

LEMMA DtRead == ASSUME KnobInv, ReadDt PROVE KnobInv'
<1> DEFINE state == 2 * clk + Dt(knob)
<1>1. /\ handler = "dt" /\ handler' = "idle" /\ seen' = state
      /\ armed' = (state = 3 \/ (armed /\ state # 0))
      /\ dir' = (IF state \in {1, 2} /\ armed THEN state - 1 ELSE dir)
      /\ turns' = (IF state = 0 /\ armed /\ Len(turns) < 2 THEN Append(turns, 1 - dir) ELSE turns)
      /\ status' = status
      /\ UNCHANGED <<knob, clk, missed, hurried>>
  BY DEF ReadDt, StatusAfter, DirAfter
<1>2. (Calm' <=> Calm) /\ State(knob)' = State(knob) /\ Clk(knob)' = Clk(knob)
  BY <1>1 DEF Calm, State, Clk, Dt
<1>3. dir' \in 0 .. 1 /\ armed' \in BOOLEAN /\ ~missed
  BY <1>1, PinsBits DEF KnobInv
<1>4. ASSUME Calm PROVE seen' = State(knob)
  BY <1>1, <1>4 DEF KnobInv, State
<1>5. ASSUME ~hurried PROVE Calm /\ Handled'
  <2>1. Calm /\ Awaited /\ state = State(knob)
    BY <1>1, <1>4, <1>5 DEF KnobInv
  <2>2. knob \in {-4, -3, -2, -1, 0, 1, 2, 3, 4} /\ armed \in BOOLEAN
    BY DEF KnobInv
  <2> HIDE DEF state
  <2>3. CASE knob \in {-1, 0, 1}
    <3>1. knob # 0 => state # 0
      BY <2>1, <2>3, Pins DEF State
    <3>2. knob # 0 => turns' = <<>>
      BY <1>1, <2>1, <2>3, <3>1 DEF Awaited
    <3> QED BY <1>1, <2>1, <2>3, <3>2 DEF Handled
  <2>4. CASE knob \in {-2, 2}
    <3>1. state = 3
      BY <2>1, <2>4, Pins DEF State
    <3>2. armed'
      BY <1>1, <3>1, Zenon
    <3>3. turns' = <<>>
      BY <1>1, <2>1, <2>4, <3>1 DEF Awaited
    <3> QED BY <1>1, <2>1, <2>4, <3>2, <3>3 DEF Handled
  <2>5. CASE knob \in {-3, 3}
    <3>1. (knob = 3 => state = 1) /\ (knob = -3 => state = 2)
      BY <2>1, <2>5, Pins DEF State
    <3>2. armed /\ turns = <<>>
      BY <2>1, <2>5 DEF Awaited
    <3>3. state # 0 /\ (knob = 3 => dir' = 0) /\ (knob = -3 => dir' = 1)
      BY <1>1, <2>5, <3>1, <3>2
    <3>4. armed' /\ turns' = <<>>
      BY <1>1, <3>2, <3>3, Zenon
    <3> QED BY <1>1, <2>1, <2>5, <3>3, <3>4 DEF Handled
  <2>6. CASE knob \in {-4, 4}
    <3>1. state = 0 /\ armed /\ turns = <<>> /\ (knob = 4 => dir = 0) /\ (knob = -4 => dir = 1)
      BY <2>1, <2>6, Pins DEF State, Awaited
    <3>2. turns' = <<1 - dir>>
      BY <1>1, <3>1
    <3>3. (knob = 4 => turns' = <<1>>) /\ (knob = -4 => turns' = <<0>>)
      BY <3>1, <3>2
    <3>4. knob' = knob
      BY <1>1
    <3> QED BY <2>1, <2>6, <3>3, <3>4 DEF Handled
  <2>7. Handled'
    BY <2>2, <2>3, <2>4, <2>5, <2>6
  <2> QED BY <2>1, <2>7
<1> HIDE DEF state
<1> QED BY <1>1, <1>2, <1>3, <1>4, <1>5 DEF KnobInv

LEMMA KnobStep == KnobInv /\ [RotaryNext]_rvars => KnobInv'
<1> SUFFICES ASSUME KnobInv, [RotaryNext]_rvars PROVE KnobInv'
  OBVIOUS
<1>1. CASE Turn(1) \/ Turn(-1)
  BY <1>1, Turns
<1>2. CASE UNCHANGED rvars
  BY <1>2 DEF rvars, KnobInv, Calm, Handled, Awaited, State, Clk, Dt
<1> QED BY <1>1, <1>2, Pressed, Interrupted, ClkRead, DtRead DEF RotaryNext

(* However the knob turns and the button is pressed, and whatever of it    *)
(* comes in the middle of the handler: the handler has seen where the knob *)
(* stands, and has reported a click no edge of which it was too late for.  *)
THEOREM KnobAlwaysFollowed == RotarySpec => []KnobFollowed
<1>1. KnobInv => KnobFollowed
  BY DEF KnobInv, KnobFollowed, KnobSeen, ClickReported, Calm, Handled
<1> QED BY <1>1, KnobBegins, KnobStep, PTL DEF RotarySpec

(***************************************************************************)
(* MqttMsg, for any base of the digits, any size of the buffer, any number *)
(* of ids and any lengths of the texts: what one side writes is what the   *)
(* other side reads.                                                       *)
(***************************************************************************)

(* Numbers of two digits.                                                  *)
LEMMA Division ==
    ASSUME NEW a \in Nat, NEW b \in Nat \ {0}
    PROVE  a = b * (a \div b) + (a % b) /\ a % b \in 0 .. b - 1 /\ a \div b \in Nat
  BY Z3

LEMMA DivisionIs ==
    ASSUME NEW q \in Nat, NEW b \in Nat \ {0}, NEW r \in 0 .. b - 1
    PROVE  (b * q + r) \div b = q /\ (b * q + r) % b = r
  BY Z3

LEMMA SmallQuotient ==
    ASSUME NEW a \in Nat, NEW b \in Nat \ {0}, a < b * b
    PROVE  a \div b < b
  BY Z3

LEMMA WordRead ==
    ASSUME NEW n \in Nat
    PROVE  /\ 2 * Radix * Word16(n)[1] + Word16(n)[2] = n
           /\ Len(Word16(n)) = 2 /\ Word16(n) \in Seq(Nat)
<1>1. 2 * Radix \in Nat \ {0}
  BY RadixAssumption
<1> DEFINE b == 2 * Radix
<1>2. n = b * (n \div b) + (n % b) /\ n % b \in Nat /\ n \div b \in Nat
  BY <1>1, Division
<1> QED BY <1>2 DEF Word16

LEMMA LeastOf ==
    ASSUME NEW S, NEW m \in S, S \subseteq Int, \A x \in S : m <= x
    PROVE  Min(S) = m
<1>1. \A y \in S : (\A x \in S : y <= x) => y = m
  OBVIOUS
<1> QED BY <1>1 DEF Min

(* r is s and then t.                                                      *)
Joins(r, S, s, t) ==
    /\ r \in Seq(S) /\ Len(r) = Len(s) + Len(t)
    /\ \A i \in 1 .. Len(s) : r[i] = s[i]
    /\ \A i \in 1 .. Len(t) : r[Len(s) + i] = t[i]

LEMMA Chained ==
    ASSUME NEW S, NEW s \in Seq(S), NEW t \in Seq(S)
    PROVE  Joins(s \o t, S, s, t)
<1>1. Len(s) \in Nat /\ Len(t) \in Nat
  BY LenProperties
<1> QED BY <1>1, ConcatProperties DEF Joins

(* How long the length in front of a body is, with the header.             *)
Digits(body) == IF Len(body) > Radix - 1 THEN 3 ELSE 2

LEMMA PacketBytes ==
    ASSUME NEW S, NEW body \in Seq(S), Len(body) < Radix * Radix, NEW header
    PROVE  LET p == fini_message(body, header)
           IN  /\ Len(p) = Digits(body) + Len(body)
               /\ p[1] = header
               /\ Digits(body) = 2 => p[2] = Len(body) /\ Len(body) < Radix
               /\ Digits(body) = 3 => /\ p[2] = Radix + (Len(body) % Radix) /\ p[3] = Len(body) \div Radix
                                      /\ p[3] < Radix
               /\ \A i \in 1 .. Len(body) : p[Digits(body) + i] = body[i]
               /\ \E T : p \in Seq(T)
<1> DEFINE p == fini_message(body, header)
           len == Len(body)
           front == IF len > Radix - 1 THEN <<header, Radix + (len % Radix), len \div Radix>>
                    ELSE <<header, len>>
           T == S \cup {header, len, Radix + (len % Radix), len \div Radix}
<1>1. p = front \o body
  BY DEF fini_message
<1>2. front \in Seq(T) /\ body \in Seq(T)
  <2>1. body \in Seq(T)
    OBVIOUS
  <2>2. /\ header \in T /\ Len(body) \in T /\ Radix + (Len(body) % Radix) \in T /\ Len(body) \div Radix \in T
    OBVIOUS
  <2> HIDE DEF T
  <2>3. <<header, Len(body)>> \in Seq(T) /\ <<header, Radix + (Len(body) % Radix), Len(body) \div Radix>> \in Seq(T)
    BY <2>2
  <2> QED BY <2>1, <2>3
<1>3. Len(front) = Digits(body) /\ front[1] = header
  BY DEF Digits
<1>4. /\ front \o body \in Seq(T) /\ Len(front \o body) = Len(front) + Len(body)
      /\ \A i \in 1 .. Len(front) : (front \o body)[i] = front[i]
      /\ \A i \in 1 .. Len(body) : (front \o body)[Len(front) + i] = body[i]
  <2> HIDE DEF T, front
  <2>1. Joins(front \o body, T, front, body)
    BY <1>2, Chained
  <2> QED BY <2>1 DEF Joins
<1>5. len \in Nat /\ len \div Radix < Radix
  BY LenProperties, SmallQuotient, RadixAssumption
<1>6. CASE len > Radix - 1
  <2>1. Digits(body) = 3 /\ front[2] = Radix + (len % Radix) /\ front[3] = len \div Radix
    BY <1>6 DEF Digits
  <2>2. 1 \in 1 .. Len(front) /\ 2 \in 1 .. Len(front) /\ 3 \in 1 .. Len(front)
    BY <1>3, <2>1
  <2> HIDE DEF front, T
  <2> QED BY <1>1, <1>3, <1>4, <1>5, <2>1, <2>2
<1>7. CASE ~(len > Radix - 1)
  <2>1. Digits(body) = 2 /\ front[2] = len /\ len < Radix
    BY <1>5, <1>7, RadixAssumption DEF Digits
  <2>2. 1 \in 1 .. Len(front) /\ 2 \in 1 .. Len(front)
    BY <1>3, <2>1
  <2> HIDE DEF front, T
  <2> QED BY <1>1, <1>3, <1>4, <1>5, <2>1, <2>2
<1> QED BY <1>6, <1>7

(* buf holds the first n bytes of a packet.                                *)
Holds(buf, n, body, header) == \A i \in 1 .. n : buf[i] = fini_message(body, header)[i]

(* The end of the length is found as soon as it is there ...               *)
LEMMA LengthEndIs ==
    ASSUME NEW S, NEW body \in Seq(S), Len(body) < Radix * Radix, NEW header,
           NEW buf, NEW n \in Nat \ {0}, NEW m \in 1 .. n, Holds(buf, m, body, header),
           m >= Digits(body)
    PROVE  LengthEnd(buf, n) = Digits(body)
<1> DEFINE p == fini_message(body, header)
           last == {i \in 1 .. n - 1 : At(buf, i) < Radix}
<1>1. CASE Digits(body) = 2
  <2>1. buf[2] = Len(body) /\ Len(body) < Radix
    BY <1>1, PacketBytes DEF Holds
  <2>2. 1 \in last
    BY <1>1, <2>1 DEF At
  <2>3. last \subseteq Int /\ \A x \in last : 1 <= x
    OBVIOUS
  <2> HIDE DEF last
  <2>4. Min(last) = 1 /\ last # {}
    BY <2>2, <2>3, LeastOf
  <2> USE DEF last
  <2> QED BY <1>1, <2>4 DEF LengthEnd
<1>2. CASE Digits(body) = 3
  <2>1. buf[2] = Radix + (Len(body) % Radix) /\ buf[3] < Radix
    BY <1>2, PacketBytes DEF Holds
  <2>2. ~(buf[2] < Radix)
    <3>1. Len(body) \in Nat /\ Len(body) % Radix \in Nat
      BY LenProperties, Division, RadixAssumption
    <3> QED BY <2>1, <3>1, RadixAssumption
  <2>3. 2 \in last /\ 1 \notin last
    BY <1>2, <2>1, <2>2 DEF At
  <2>4. last \subseteq Int /\ \A x \in last : 2 <= x
    BY <2>3
  <2> HIDE DEF last
  <2>5. Min(last) = 2 /\ last # {}
    BY <2>3, <2>4, LeastOf
  <2> USE DEF last
  <2> QED BY <1>2, <2>5 DEF LengthEnd
<1> QED BY <1>1, <1>2 DEF Digits

(* ... and before it is there nothing else is.                             *)
LEMMA LengthCut ==
    ASSUME NEW S, NEW body \in Seq(S), Len(body) < Radix * Radix, NEW header,
           NEW buf, NEW n \in Nat \ {0}, Holds(buf, n, body, header), n < Digits(body)
    PROVE  LengthEnd(buf, n) = n
<1> DEFINE last == {i \in 1 .. n - 1 : At(buf, i) < Radix}
<1>1. last = {}
  <2>1. CASE n = 1
    BY <2>1
  <2>2. CASE n # 1
    <3>1. n = 2 /\ Digits(body) = 3
      BY <2>2 DEF Digits
    <3>2. buf[2] = Radix + (Len(body) % Radix)
      BY <3>1, PacketBytes DEF Holds
    <3>3. Len(body) \in Nat /\ Len(body) % Radix \in Nat
      BY LenProperties, Division, RadixAssumption
    <3>4. ~(buf[2] < Radix)
      BY <3>2, <3>3, RadixAssumption
    <3>5. \A i \in 1 .. n - 1 : i + 1 = 2
      BY <3>1
    <3> QED BY <3>4, <3>5 DEF At
  <2> QED BY <2>1, <2>2
<1> QED BY <1>1 DEF LengthEnd

(* What a receiver takes for the length of a packet.                       *)
LEMMA TotalIs ==
    ASSUME NEW S, NEW body \in Seq(S), Len(body) < Radix * Radix, NEW header,
           NEW buf, NEW n \in Nat \ {0}, NEW m \in 1 .. n, Holds(buf, m, body, header),
           m >= Digits(body)
    PROVE  mqtt_get_total_length(buf, n) = Digits(body) + Len(body)
<1> DEFINE len == Len(body)
<1>0. len \in Nat /\ Radix \in Nat \ {0}
  BY LenProperties, RadixAssumption
<1>1. LengthEnd(buf, n) = Digits(body)
  BY LengthEndIs
<1>2. CASE Digits(body) = 2
  <2> DEFINE end == LengthEnd(buf, n)
             v == CHOOSE v : v = [i \in 1 .. end |-> IF i = end THEN 0 ELSE (At(buf, i) % Radix) + Radix * v[i + 1]]
             w == [i \in 1 .. 2 |-> IF i = 2 THEN 0 ELSE (At(buf, 1) % Radix) + Radix * 0]
  <2>1. At(buf, 1) = len /\ len < Radix
    BY <1>2, PacketBytes DEF Holds, At
  <2>2. w = [i \in 1 .. 2 |-> IF i = 2 THEN 0 ELSE (At(buf, i) % Radix) + Radix * w[i + 1]]
    OBVIOUS
  <2>3. v = [i \in 1 .. 2 |-> IF i = 2 THEN 0 ELSE (At(buf, i) % Radix) + Radix * v[i + 1]]
    <3>1. end = 2
      BY <1>1, <1>2
    <3>2. w = [i \in 1 .. end |-> IF i = end THEN 0 ELSE (At(buf, i) % Radix) + Radix * w[i + 1]]
      BY <2>2, <3>1
    <3> HIDE DEF end, w
    <3>3. v = [i \in 1 .. end |-> IF i = end THEN 0 ELSE (At(buf, i) % Radix) + Radix * v[i + 1]]
      BY <3>2, Zenon
    <3> HIDE DEF v
    <3> QED BY <3>1, <3>3
  <2>4. Remaining(buf, n) = v[1]
    BY Zenon DEF Remaining
  <2>5. len % Radix = len
    BY <1>0, <2>1
  <2> HIDE DEF v
  <2>6. v[1] = (At(buf, 1) % Radix) + Radix * v[2] /\ v[2] = 0
    BY <2>3
  <2>7. v[1] = len
    BY <1>0, <2>1, <2>5, <2>6
  <2> QED BY <1>0, <1>1, <1>2, <2>4, <2>7 DEF mqtt_get_total_length
<1>3. CASE Digits(body) = 3
  <2> DEFINE end == LengthEnd(buf, n)
             v == CHOOSE v : v = [i \in 1 .. end |-> IF i = end THEN 0 ELSE (At(buf, i) % Radix) + Radix * v[i + 1]]
             w == [i \in 1 .. 3 |-> IF i = 3 THEN 0
                                    ELSE IF i = 2 THEN (At(buf, 2) % Radix) + Radix * 0
                                    ELSE (At(buf, 1) % Radix) + Radix * ((At(buf, 2) % Radix) + Radix * 0)]
  <2>1. At(buf, 1) = Radix + (len % Radix) /\ At(buf, 2) = len \div Radix /\ At(buf, 2) < Radix
    BY <1>3, PacketBytes DEF Holds, At
  <2>2. w = [i \in 1 .. 3 |-> IF i = 3 THEN 0 ELSE (At(buf, i) % Radix) + Radix * w[i + 1]]
    OBVIOUS
  <2>3. v = [i \in 1 .. 3 |-> IF i = 3 THEN 0 ELSE (At(buf, i) % Radix) + Radix * v[i + 1]]
    <3>1. end = 3
      BY <1>1, <1>3
    <3>2. w = [i \in 1 .. end |-> IF i = end THEN 0 ELSE (At(buf, i) % Radix) + Radix * w[i + 1]]
      BY <2>2, <3>1
    <3> HIDE DEF end, w
    <3>3. v = [i \in 1 .. end |-> IF i = end THEN 0 ELSE (At(buf, i) % Radix) + Radix * v[i + 1]]
      BY <3>2, Zenon
    <3> HIDE DEF v
    <3> QED BY <3>1, <3>3
  <2>4. Remaining(buf, n) = v[1]
    BY Zenon DEF Remaining
  <2>5. len = Radix * (len \div Radix) + (len % Radix) /\ len % Radix \in 0 .. Radix - 1 /\ len \div Radix \in Nat
    BY <1>0, Division
  <2>6. At(buf, 1) % Radix = len % Radix
    <3>1. Radix + (len % Radix) = Radix * 1 + (len % Radix)
      BY <1>0, <2>5
    <3>2. (Radix * 1 + (len % Radix)) % Radix = len % Radix
      BY <1>0, <2>5, DivisionIs
    <3> QED BY <2>1, <3>1, <3>2
  <2>7. At(buf, 2) % Radix = len \div Radix
    BY <1>0, <2>1, <2>5
  <2> HIDE DEF v
  <2>8. v[1] = (At(buf, 1) % Radix) + Radix * v[2] /\ v[2] = (At(buf, 2) % Radix) + Radix * v[3] /\ v[3] = 0
    BY <2>3
  <2>9. v[2] = len \div Radix
    BY <1>0, <2>5, <2>7, <2>8
  <2>10. v[1] = (len % Radix) + Radix * (len \div Radix)
    BY <2>6, <2>8, <2>9
  <2>11. v[1] = len
    <3> DEFINE high == Radix * (len \div Radix)
    <3>1. high \in Int
      BY <1>0, <2>5
    <3>2. len = high + (len % Radix) /\ v[1] = (len % Radix) + high /\ len % Radix \in Int
      BY <2>5, <2>10
    <3> HIDE DEF high
    <3> QED BY <3>1, <3>2
  <2> QED BY <1>0, <1>1, <1>3, <2>4, <2>11 DEF mqtt_get_total_length
<1> QED BY <1>2, <1>3 DEF Digits

(* What stands in out: nothing, or a packet that fits in the buffer.       *)
Built(p) == \/ p = <<>>
            \/ \E body, header : /\ \E S : body \in Seq(S)
                                 /\ Fits(body) /\ p = fini_message(body, header)

LEMMA FitsShort ==
    ASSUME NEW S, NEW body \in Seq(S), Fits(body)
    PROVE  Len(body) \in Nat /\ Len(body) < Radix * Radix /\ Len(body) + 3 <= MQTT_BUF_SIZE
<1> DEFINE square == Radix * Radix
<1>1. square \in Nat /\ MQTT_BUF_SIZE \in Nat /\ MQTT_BUF_SIZE <= square + 2 /\ Len(body) \in Nat
  BY RadixAssumption, BufferAssumption, LenProperties
<1>2. 3 + Len(body) <= MQTT_BUF_SIZE
  BY DEF Fits, MQTT_MAX_FIXED_HEADER_SIZE
<1> HIDE DEF square
<1>3. Len(body) < square /\ Len(body) + 3 <= MQTT_BUF_SIZE
  BY <1>1, <1>2
<1> QED BY <1>1, <1>3 DEF square

LEMMA PacketBuilt ==
    ASSUME NEW S, NEW body \in Seq(S), NEW header
    PROVE  /\ Built(Packet(body, header))
           /\ Packet(body, header) # <<>> => Fits(body) /\ Packet(body, header) = fini_message(body, header)
  BY Zenon DEF Built, Packet

LEMMA NothingBuilt == Built(<<>>)
  BY DEF Built

LEMMA BuiltAgrees == Built(out) => LengthAgrees
<1> SUFFICES ASSUME Built(out), out # <<>>
             PROVE  mqtt_get_total_length(out, Len(out)) = Len(out) /\ Len(out) <= MQTT_BUF_SIZE
  BY DEF LengthAgrees
<1>1. PICK S, body, header : body \in Seq(S) /\ Fits(body) /\ out = fini_message(body, header)
  BY Zenon DEF Built
<1>2. Len(body) \in Nat /\ Len(body) < Radix * Radix /\ Len(body) + 3 <= MQTT_BUF_SIZE
  BY <1>1, FitsShort
<1>3. Len(out) = Digits(body) + Len(body)
  BY <1>1, <1>2, PacketBytes
<1>4. Digits(body) \in {2, 3}
  BY DEF Digits
<1>5. Holds(out, Len(out), body, header)
  BY <1>1, Zenon DEF Holds
<1>6. Len(out) \in Nat \ {0} /\ Len(out) \in 1 .. Len(out) /\ Len(out) >= Digits(body)
  BY <1>2, <1>3, <1>4
<1>7. mqtt_get_total_length(out, Len(out)) = Digits(body) + Len(body)
  BY <1>1, <1>2, <1>5, <1>6, TotalIs
<1> QED BY <1>2, <1>3, <1>4, <1>7, BufferAssumption

(* Texts, and the parts of a body.                                         *)
LEMMA TextBytes ==
    ASSUME NEW n \in Nat, NEW c \in Nat
    PROVE  Text(n, c) \in Seq(Nat) /\ Len(Text(n, c)) = n
  BY DEF Text

LEMMA StringBytes ==
    ASSUME NEW str \in Seq(Nat)
    PROVE  /\ String(str) \in Seq(Nat) /\ Len(String(str)) = 2 + Len(str)
           /\ String(str)[1] = Word16(Len(str))[1] /\ String(str)[2] = Word16(Len(str))[2]
           /\ \A i \in 1 .. Len(str) : String(str)[2 + i] = str[i]
<1>1. Len(str) \in Nat
  BY LenProperties
<1>2. Word16(Len(str)) \in Seq(Nat) /\ Len(Word16(Len(str))) = 2
  BY <1>1, WordRead
<1> DEFINE w == Word16(Len(str))
<1> HIDE DEF w
<1>3. w \in Seq(Nat) /\ Len(w) = 2 /\ String(str) = w \o str
  BY <1>2 DEF String, w
<1>4. Joins(w \o str, Nat, w, str)
  BY <1>3, Chained
<1>5. 1 \in 1 .. Len(w) /\ 2 \in 1 .. Len(w)
  BY <1>3
<1> QED BY <1>3, <1>4, <1>5 DEF w, Joins

(* How many bytes the id of a message has.                                 *)
IdWidth(qos) == IF qos > 0 THEN 2 ELSE 0

(* The bytes of a message.                                                 *)
MessageBytes(body, topic, data, qos, id) ==
    /\ body \in Seq(Nat) /\ Len(body) = 2 + Len(topic) + IdWidth(qos) + Len(data)
    /\ body[1] = Word16(Len(topic))[1] /\ body[2] = Word16(Len(topic))[2]
    /\ \A i \in 1 .. Len(topic) : body[2 + i] = topic[i]
    /\ qos > 0 => body[2 + Len(topic) + 1] = Word16(id)[1] /\ body[2 + Len(topic) + 2] = Word16(id)[2]
    /\ \A i \in 1 .. Len(data) : body[2 + Len(topic) + IdWidth(qos) + i] = data[i]

LEMMA PublishLayout ==
    ASSUME NEW topic \in Seq(Nat), NEW data \in Seq(Nat), NEW qos \in 0 .. 2, NEW id \in Nat
    PROVE  MessageBytes(BrokerBody(topic, data, qos, id), topic, data, qos, id)
<1> DEFINE body == BrokerBody(topic, data, qos, id)
           t == Len(topic)
           word == IF qos > 0 THEN Word16(id) ELSE <<>>
           front == String(topic) \o word
<1>1. word \in Seq(Nat) /\ Len(word) = IdWidth(qos) /\ IdWidth(qos) \in {0, 2}
      /\ (qos > 0 => word[1] = Word16(id)[1] /\ word[2] = Word16(id)[2] /\ IdWidth(qos) = 2)
  <2>1. CASE qos > 0
    BY <2>1, WordRead DEF IdWidth
  <2>2. CASE ~(qos > 0)
    BY <2>2 DEF IdWidth
  <2> QED BY <2>1, <2>2
<1>2. body = front \o data
  BY DEF BrokerBody
<1> HIDE DEF word
<1>3. t \in Nat /\ Len(data) \in Nat /\ Len(String(topic)) = 2 + t
  BY LenProperties, StringBytes
<1>4. /\ front \in Seq(Nat) /\ Len(front) = 2 + t + IdWidth(qos)
      /\ \A i \in 1 .. 2 + t : front[i] = String(topic)[i]
      /\ \A i \in 1 .. IdWidth(qos) : front[2 + t + i] = word[i]
  <2> DEFINE s == String(topic)
  <2>1. s \in Seq(Nat)
    BY StringBytes
  <2> HIDE DEF s
  <2>2. Joins(s \o word, Nat, s, word)
    BY <1>1, <2>1, Chained
  <2>3. front = s \o word /\ Len(s) = 2 + t
    BY <1>3 DEF s
  <2> HIDE DEF front
  <2> QED BY <1>1, <2>2, <2>3 DEF s, Joins
<1> HIDE DEF front
<1>5. /\ body \in Seq(Nat) /\ Len(body) = 2 + t + IdWidth(qos) + Len(data)
      /\ \A i \in 1 .. 2 + t + IdWidth(qos) : body[i] = front[i]
      /\ \A i \in 1 .. Len(data) : body[2 + t + IdWidth(qos) + i] = data[i]
  <2>1. Joins(front \o data, Nat, front, data)
    BY <1>4, Chained
  <2> HIDE DEF body
  <2> QED BY <1>2, <1>4, <2>1 DEF Joins
<1> HIDE DEF body
<1>6. \A i \in 1 .. 2 + t : body[i] = String(topic)[i]
  BY <1>1, <1>3, <1>4, <1>5
<1>7. body[1] = Word16(t)[1] /\ body[2] = Word16(t)[2]
  <2>1. 1 \in 1 .. 2 + t /\ 2 \in 1 .. 2 + t
    BY <1>3
  <2>2. String(topic)[1] = Word16(t)[1] /\ String(topic)[2] = Word16(t)[2]
    BY StringBytes
  <2> QED BY <1>6, <2>1, <2>2
<1>8. \A i \in 1 .. t : body[2 + i] = topic[i]
  <2> TAKE i \in 1 .. t
  <2>1. 2 + i \in 1 .. 2 + t
    BY <1>3
  <2> QED BY <1>6, <2>1, StringBytes
<1>9. ASSUME qos > 0 PROVE body[2 + t + 1] = Word16(id)[1] /\ body[2 + t + 2] = Word16(id)[2]
  <2>1. 1 \in 1 .. IdWidth(qos) /\ 2 \in 1 .. IdWidth(qos)
    BY <1>1, <1>9
  <2>2. 2 + t + 1 \in 1 .. 2 + t + IdWidth(qos) /\ 2 + t + 2 \in 1 .. 2 + t + IdWidth(qos)
    BY <1>1, <1>3, <1>9
  <2> QED BY <1>1, <1>4, <1>5, <1>9, <2>1, <2>2
<1> QED BY <1>5, <1>7, <1>8, <1>9 DEF body, MessageBytes

(* Where the topic of a message that begins in buf ends, once its length   *)
(* has come in.                                                            *)
LEMMA TopicEndIs ==
    ASSUME NEW topic \in Seq(Nat), NEW data \in Seq(Nat), NEW qos \in 0 .. 2, NEW id, NEW header,
           NEW body, MessageBytes(body, topic, data, qos, id), Len(body) < Radix * Radix,
           NEW buf, NEW n \in Nat \ {0}, NEW m \in 1 .. n, Holds(buf, m, body, header),
           m >= Digits(body) + 2
    PROVE  /\ LengthEnd(buf, n) = Digits(body)
           /\ TopicEnd(buf, n) = Digits(body) + 2 + Len(topic)
<1> DEFINE e == Digits(body)
           p == fini_message(body, header)
<1>1. body \in Seq(Nat) /\ Len(body) \in Nat /\ Len(body) >= 2
      /\ body[1] = Word16(Len(topic))[1] /\ body[2] = Word16(Len(topic))[2]
  <2>1. Len(topic) \in Nat /\ Len(data) \in Nat /\ IdWidth(qos) \in Nat
    BY LenProperties DEF IdWidth
  <2> QED BY <2>1 DEF MessageBytes
<1>2. Len(body) < Radix * Radix /\ Holds(buf, m, body, header) /\ m >= e + 2
  OBVIOUS
<1>3. e \in {2, 3}
  BY DEF Digits
<1>4. LengthEnd(buf, n) = e
  BY <1>1, <1>2, <1>3, LengthEndIs
<1>5. p[e + 1] = body[1] /\ p[e + 2] = body[2]
  BY <1>1, <1>2, PacketBytes
<1>6. buf[e + 1] = body[1] /\ buf[e + 2] = body[2]
  <2>1. e + 1 \in 1 .. m /\ e + 2 \in 1 .. m
    BY <1>2, <1>3
  <2> QED BY <1>2, <1>5, <2>1 DEF Holds
<1>7. Read16(buf, e) = Len(topic)
  <2>1. Len(topic) \in Nat
    BY LenProperties
  <2>2. At(buf, e) = body[1] /\ At(buf, e + 1) = body[2]
    BY <1>3, <1>6 DEF At
  <2> QED BY <1>1, <2>1, <2>2, WordRead DEF Read16
<1> QED BY <1>4, <1>7 DEF TopicEnd, TopicStart

MsgInv == /\ message_id \in 0 .. Ids - 1
          /\ Built(out)
          /\ ReadAsSent

LEMMA NextIdRange ==
    ASSUME message_id \in 0 .. Ids - 1
    PROVE  NextId \in 1 .. Ids - 1 /\ NextId # message_id /\ NextId \in Nat
<1> DEFINE most == 4 * Radix * Radix
<1>1. most \in Nat /\ Ids \in 3 .. most
  BY RadixAssumption, IdAssumption
<1> HIDE DEF most
<1> QED BY <1>1 DEF NextId

LEMMA UnreadSound == ASSUME Unread PROVE ReadAsSent'
  BY DEF Unread, ReadAsSent, AnswersId, DeliveredAsSent

LEMMA WillsAre ==
    ASSUME NEW will \in Wills
    PROVE  will.topic \in Seq(Nat) /\ will.message \in Seq(Nat) /\ will.qos \in Nat
<1>1. Text(1, 1) \in Seq(Nat) /\ Text(1, 2) \in Seq(Nat) /\ <<>> \in Seq(Nat)
  BY TextBytes
<1>2. /\ will.topic = <<>> \/ will.topic = Text(1, 1)
      /\ will.message = <<>> \/ will.message = Text(1, 2)
      /\ will.qos = 0 \/ will.qos = 1
  BY DEF Wills
<1>3. will.qos \in Nat
  BY <1>2
<1> QED BY <1>1, <1>2, <1>3, Zenon

LEMMA ConnectSeq ==
    ASSUME NEW id \in Seq(Nat), NEW will \in Wills, NEW user \in Seq(Nat), NEW password \in Seq(Nat)
    PROVE  ConnectBody(id, will, user, password, 1) \in Seq(Nat)
<1> DEFINE flags == 2 + WillFlags(will) + (IF Absent(user) THEN 0 ELSE 128) + (IF Absent(password) THEN 0 ELSE 64)
<1>1. flags \in Nat
  <2>1. will.qos % 2 \in Nat
    BY WillsAre
  <2>2. WillFlags(will) \in Nat
    BY <2>1 DEF WillFlags
  <2> QED BY <2>2
<1> HIDE DEF flags
<1>2. <<3, flags>> \in Seq(Nat)
  BY <1>1
<1>3. String(Text(6, 1)) \in Seq(Nat) /\ Word16(1) \in Seq(Nat) /\ String(id) \in Seq(Nat)
  BY TextBytes, StringBytes, WordRead
<1>4. Will(will) \in Seq(Nat)
  <2>1. String(will.topic) \in Seq(Nat) /\ String(will.message) \in Seq(Nat)
    BY WillsAre, StringBytes
  <2>2. String(will.topic) \o String(will.message) \in Seq(Nat)
    BY <2>1, ConcatProperties
  <2> QED BY <2>2 DEF Will
<1>5. Optional(user) \in Seq(Nat) /\ Optional(password) \in Seq(Nat)
  BY StringBytes DEF Optional
<1> DEFINE b1 == String(Text(6, 1)) \o <<3, flags>>
           b2 == b1 \o Word16(1)
           b3 == b2 \o String(id)
           b4 == b3 \o Will(will)
           b5 == b4 \o Optional(user)
           b6 == b5 \o Optional(password)
<1>6. b1 \in Seq(Nat)
  BY <1>2, <1>3, ConcatProperties
<1> HIDE DEF b1
<1>7. b2 \in Seq(Nat)
  BY <1>3, <1>6, ConcatProperties
<1> HIDE DEF b2
<1>8. b3 \in Seq(Nat)
  BY <1>3, <1>7, ConcatProperties
<1> HIDE DEF b3
<1>9. b4 \in Seq(Nat)
  BY <1>4, <1>8, ConcatProperties
<1> HIDE DEF b4
<1>10. b5 \in Seq(Nat)
  BY <1>5, <1>9, ConcatProperties
<1> HIDE DEF b5
<1>11. b6 \in Seq(Nat)
  BY <1>5, <1>10, ConcatProperties
<1> HIDE DEF b6
<1>12. ConnectBody(id, will, user, password, 1) = b6
  BY DEF ConnectBody, b1, b2, b3, b4, b5, b6, flags
<1> QED BY <1>11, <1>12

(* The id of a packet just built, if it has one.                           *)
FreshIn(p, call) == Read16(p, IdAt(p, call)) \notin {0, message_id}

(* What a packet of the client leaves behind.                              *)
BuildStep == /\ message_id' \in 0 .. Ids - 1 /\ Built(out') /\ Unread
             /\ CarriesId(asked') /\ out' # <<>> => FreshIn(out', asked'.call)

LEMMA ConnectBuilt ==
    ASSUME MsgInv, NEW id \in Seq(Nat), NEW will \in Wills, NEW user \in Seq(Nat), NEW password \in Seq(Nat),
           mqtt_msg_connect(id, will, user, password)
    PROVE  BuildStep
<1>1. Built(out')
  BY ConnectSeq, PacketBuilt DEF mqtt_msg_connect
<1>2. asked'.call = "connect" /\ message_id' = message_id /\ Unread
  BY DEF mqtt_msg_connect
<1> QED BY <1>1, <1>2 DEF BuildStep, MsgInv, CarriesId

LEMMA PublishBuilt ==
    ASSUME MsgInv, NEW topic \in Seq(Nat), NEW data \in Seq(Nat), NEW qos \in 0 .. 2,
           mqtt_msg_publish(topic, data, qos)
    PROVE  BuildStep
<1> DEFINE body == BrokerBody(topic, data, qos, NextId)
           header == Header(PUBLISH, qos, 0)
           t == Len(topic)
<1>1. NextId \in 1 .. Ids - 1 /\ NextId # message_id /\ NextId \in Nat
  BY NextIdRange DEF MsgInv
<1>2. MessageBytes(body, topic, data, qos, NextId)
  BY <1>1, PublishLayout
<1>3. out' = Packet(body, header)
  BY DEF mqtt_msg_publish, PublishBody, BrokerBody
<1>4. /\ message_id' = (IF qos > 0 /\ Fits(String(topic)) THEN NextId ELSE message_id)
      /\ asked' = [call |-> "publish", qos |-> qos] /\ Unread
  BY DEF mqtt_msg_publish
<1>5. message_id' \in 0 .. Ids - 1
  BY <1>1, <1>4 DEF MsgInv
<1>6. body \in Seq(Nat)
  BY <1>2 DEF MessageBytes
<1>7. Built(out')
  BY <1>3, <1>6, PacketBuilt
<1>8. ASSUME CarriesId(asked'), out' # <<>> PROVE FreshIn(out', asked'.call)
  <2>1. qos > 0 /\ asked'.call = "publish"
    BY <1>4, <1>8 DEF CarriesId
  <2> DEFINE e == Digits(body)
  <2>2. Fits(body) /\ out' = fini_message(body, header)
    BY <1>3, <1>6, <1>8, PacketBuilt
  <2>3. Len(body) \in Nat /\ Len(body) < Radix * Radix
    BY <1>6, <2>2, FitsShort
  <2>4. Len(body) = 2 + t + 2 + Len(data) /\ t \in Nat /\ Len(data) \in Nat
    BY <1>2, <2>1, LenProperties DEF MessageBytes, IdWidth
  <2>5. body[2 + t + 1] = Word16(NextId)[1] /\ body[2 + t + 2] = Word16(NextId)[2]
    BY <1>2, <2>1 DEF MessageBytes
  <2>6. e \in {2, 3}
    BY DEF Digits
  <2>7. Len(out') = e + Len(body) /\ \A i \in 1 .. Len(body) : out'[e + i] = body[i]
    BY <1>6, <2>2, <2>3, PacketBytes
  <2>8. Holds(out', Len(out'), body, header)
    BY <2>2, Zenon DEF Holds
  <2>9. Len(out') \in Nat \ {0} /\ Len(out') \in 1 .. Len(out') /\ Len(out') >= e + 2
    <3> HIDE DEF e, t, body
    <3> QED BY <2>3, <2>4, <2>6, <2>7
  <2>10. TopicEnd(out', Len(out')) = e + 2 + t
    <3> DEFINE n == Len(out')
    <3>1. n \in Nat \ {0} /\ n \in 1 .. n /\ n >= Digits(body) + 2
      BY <2>9
    <3>2. Holds(out', n, body, header)
      BY <2>8
    <3> HIDE DEF body, header, n
    <3>3. LengthEnd(out', n) = Digits(body) /\ TopicEnd(out', n) = Digits(body) + 2 + Len(topic)
      BY <1>2, <2>3, <3>1, <3>2, TopicEndIs
    <3> QED BY <3>3 DEF n
  <2> HIDE DEF e, t, body
  <2>11. 2 + t + 1 \in 1 .. Len(body) /\ 2 + t + 2 \in 1 .. Len(body)
    BY <2>4
  <2>12. out'[e + (2 + t + 1)] = Word16(NextId)[1] /\ out'[e + (2 + t + 2)] = Word16(NextId)[2]
    BY <2>5, <2>7, <2>11
  <2>13. e + 2 + t + 1 = e + (2 + t + 1) /\ e + 2 + t + 1 + 1 = e + (2 + t + 2)
    BY <2>4, <2>6
  <2>14. Read16(out', e + 2 + t) = 2 * Radix * Word16(NextId)[1] + Word16(NextId)[2]
    BY <2>12, <2>13 DEF Read16, At
  <2>15. Read16(out', e + 2 + t) = NextId
    BY <1>1, <2>14, WordRead
  <2> QED BY <1>1, <2>1, <2>10, <2>15 DEF FreshIn, IdAt
<1> QED BY <1>4, <1>5, <1>7, <1>8 DEF BuildStep

(* A packet whose body begins with an id.                                  *)
LEMMA SubscribeBuilt ==
    ASSUME MsgInv, NEW rest \in Seq(Nat), NEW header,
           out' = Packet(Word16(NextId) \o rest, header), message_id' = NextId,
           asked' = [call |-> "subscribe"], Unread
    PROVE  BuildStep
<1> DEFINE w == Word16(NextId)
           body == w \o rest
           e == Digits(body)
<1>1. NextId \in 1 .. Ids - 1 /\ NextId # message_id /\ NextId \in Nat
  BY NextIdRange DEF MsgInv
<1>2. w \in Seq(Nat) /\ Len(w) = 2 /\ 2 * Radix * w[1] + w[2] = NextId
  BY <1>1, WordRead
<1> HIDE DEF w
<1>3. Joins(body, Nat, w, rest) /\ Len(rest) \in Nat
  BY <1>2, Chained, LenProperties
<1>4. out' = Packet(body, header)
  BY DEF w
<1> HIDE DEF body
<1>5. body \in Seq(Nat) /\ Len(body) = 2 + Len(rest) /\ body[1] = w[1] /\ body[2] = w[2]
  <2>1. 1 \in 1 .. Len(w) /\ 2 \in 1 .. Len(w)
    BY <1>2
  <2> QED BY <1>2, <1>3, <2>1 DEF Joins
<1>6. Built(out')
  BY <1>4, <1>5, PacketBuilt
<1>7. message_id' \in 0 .. Ids - 1
  BY <1>1
<1>8. ASSUME out' # <<>> PROVE FreshIn(out', "subscribe")
  <2>1. Fits(body) /\ out' = fini_message(body, header)
    BY <1>4, <1>5, <1>8, PacketBuilt
  <2>2. Len(body) \in Nat /\ Len(body) < Radix * Radix
    BY <1>5, <2>1, FitsShort
  <2>3. e \in {2, 3}
    BY DEF Digits
  <2>4. Len(out') = e + Len(body) /\ \A i \in 1 .. Len(body) : out'[e + i] = body[i]
    BY <1>5, <2>1, <2>2, PacketBytes
  <2>5. Holds(out', Len(out'), body, header)
    BY <2>1, Zenon DEF Holds
  <2> HIDE DEF e
  <2>6. Len(out') \in Nat \ {0} /\ Len(out') \in 1 .. Len(out') /\ Len(out') >= e
    BY <2>2, <2>3, <2>4
  <2>7. LengthEnd(out', Len(out')) = e
    BY <1>5, <2>2, <2>5, <2>6, LengthEndIs DEF e
  <2>8. out'[e + 1] = w[1] /\ out'[e + 2] = w[2]
    <3>1. 1 \in 1 .. Len(body) /\ 2 \in 1 .. Len(body)
      BY <1>3, <1>5
    <3> QED BY <1>5, <2>4, <3>1
  <2>9. Read16(out', e) = NextId
    <3>1. At(out', e) = w[1] /\ At(out', e + 1) = w[2]
      BY <2>3, <2>8 DEF At
    <3> QED BY <1>2, <3>1 DEF Read16
  <2> QED BY <1>1, <2>7, <2>9 DEF FreshIn, IdAt
<1>9. asked'.call = "subscribe"
  OBVIOUS
<1> QED BY <1>6, <1>7, <1>8, <1>9 DEF BuildStep

LEMMA Builds == ASSUME MsgInv, Build PROVE BuildStep
<1>1. ASSUME NEW n \in Topics, NEW u \in {0, 1}, NEW will \in Wills,
             mqtt_msg_connect(Text(n, 1), will, Text(u, 1), Text(u, 1))
      PROVE  BuildStep
  BY <1>1, TextAssumption, TextBytes, ConnectBuilt
<1>2. ASSUME NEW n \in Topics, NEW m \in Payloads, NEW qos \in 0 .. 2,
             mqtt_msg_publish(Text(n, 1), Text(m, 2), qos)
      PROVE  BuildStep
  BY <1>2, TextAssumption, TextBytes, PublishBuilt
<1>3. ASSUME NEW n \in Topics, mqtt_msg_subscribe(Text(n, 1)) \/ mqtt_msg_unsubscribe(Text(n, 1))
      PROVE  BuildStep
  <2> DEFINE s == String(Text(n, 1))
             w == Word16(NextId)
  <2>1. s \in Seq(Nat) /\ w \in Seq(Nat) /\ Unread
    BY <1>3, TextAssumption, TextBytes, StringBytes, NextIdRange, WordRead
       DEF MsgInv, mqtt_msg_subscribe, mqtt_msg_unsubscribe
  <2>2. s \o <<0>> \in Seq(Nat) /\ (w \o s) \o <<0>> = w \o (s \o <<0>>)
    <3>1. <<0>> \in Seq(Nat)
      OBVIOUS
    <3> HIDE DEF s, w
    <3> QED BY <2>1, <3>1, ConcatProperties, ConcatAssociative
  <2>3. CASE mqtt_msg_subscribe(Text(n, 1))
    <3>1. /\ out' = Packet((w \o s) \o <<0>>, Header(SUBSCRIBE, 1, 0)) /\ message_id' = NextId
          /\ asked' = [call |-> "subscribe"]
      BY <2>3 DEF mqtt_msg_subscribe
    <3> QED BY <2>1, <2>2, <3>1, SubscribeBuilt
  <2>4. CASE mqtt_msg_unsubscribe(Text(n, 1))
    <3>1. /\ out' = Packet(w \o s, Header(SUBSCRIBE, 1, 0)) /\ message_id' = NextId
          /\ asked' = [call |-> "subscribe"]
      BY <2>4 DEF mqtt_msg_unsubscribe
    <3> QED BY <2>1, <3>1, SubscribeBuilt
  <2> QED BY <1>3, <2>3, <2>4
<1>4. ASSUME mqtt_msg_disconnect \/ mqtt_msg_pingreq PROVE BuildStep
  <2>1. Built(out')
    <3>1. <<>> \in Seq(Nat)
      OBVIOUS
    <3> QED BY <1>4, <3>1, PacketBuilt DEF mqtt_msg_disconnect, mqtt_msg_pingreq
  <2>2. asked'.call \in {"disconnect", "ping"} /\ message_id' = message_id /\ Unread
    BY <1>4 DEF mqtt_msg_disconnect, mqtt_msg_pingreq
  <2> QED BY <2>1, <2>2 DEF BuildStep, MsgInv, CarriesId
<1> QED BY <1>1, <1>2, <1>3, <1>4, Zenon DEF Build

(* r is s from m to n.                                                     *)
IsCut(r, S, s, m, n) ==
    /\ r \in Seq(S) /\ Len(r) = IF m <= n THEN n - m + 1 ELSE 0
    /\ \A i \in 1 .. n - m + 1 : r[i] = s[m + i - 1]

LEMMA Cutting ==
    ASSUME NEW S, NEW s, NEW m \in Int, NEW n \in Int, \A i \in m .. n : s[i] \in S
    PROVE  IsCut(SubSeq(s, m, n), S, s, m, n)
  BY SubSeqProperties DEF IsCut

(* k bytes of buf behind a, of which t begins with as many.                *)
SameCut(buf, a, t, k) ==
    /\ SubSeq(buf, a + 1, a + k) = SubSeq(t, 1, k)
    /\ Len(SubSeq(t, 1, k)) = k
    /\ k = Len(t) => SubSeq(t, 1, k) = t

LEMMA CutIs ==
    ASSUME NEW T, NEW t \in Seq(T), NEW buf, NEW a \in Nat, NEW k \in 0 .. Len(t),
           \A i \in 1 .. k : buf[a + i] = t[i]
    PROVE  SameCut(buf, a, t, k)
<1>0. Len(t) \in Nat /\ \A i \in 1 .. Len(t) : t[i] \in T
  BY LenProperties, ElementOfSeq
<1>1. \A i \in a + 1 .. a + k : buf[i] \in T
  <2> TAKE i \in a + 1 .. a + k
  <2>1. i - a \in 1 .. k /\ i - a \in 1 .. Len(t) /\ a + (i - a) = i
    BY <1>0
  <2> QED BY <1>0, <2>1
<1> DEFINE s == SubSeq(buf, a + 1, a + k)
           r == SubSeq(t, 1, k)
<1>2. s \in Seq(T) /\ Len(s) = k /\ \A i \in 1 .. k : s[i] = buf[a + i]
  <2>1. a + 1 \in Int /\ a + k \in Int /\ (a + k) - (a + 1) + 1 = k /\ (a + 1 <= a + k <=> k # 0)
    BY <1>0
  <2> DEFINE from == a + 1
             to == a + k
  <2>0. from \in Int /\ to \in Int /\ \A i \in from .. to : buf[i] \in T
    BY <1>1, <2>1
  <2>2. IsCut(s, T, buf, from, to)
    <3> HIDE DEF from, to
    <3> QED BY <2>0, Cutting DEF from, to
  <2>3. Len(s) = k
    BY <2>1, <2>2, <1>0 DEF IsCut
  <2>4. \A i \in 1 .. k : s[i] = buf[(a + 1) + i - 1]
    BY <2>1, <2>2 DEF IsCut
  <2>5. \A i \in 1 .. k : (a + 1) + i - 1 = a + i
    OBVIOUS
  <2> HIDE DEF s
  <2> QED BY <2>2, <2>3, <2>4, <2>5 DEF IsCut
<1>3. r \in Seq(T) /\ Len(r) = k /\ \A i \in 1 .. k : r[i] = t[i]
  <2>1. \A i \in 1 .. k : t[i] \in T
    BY <1>0
  <2>2. IsCut(r, T, t, 1, k)
    BY <2>1, Cutting
  <2>3. \A i \in 1 .. k : 1 + i - 1 = i
    OBVIOUS
  <2>4. k - 1 + 1 = k /\ (~(1 <= k) => k = 0)
    BY <1>0
  <2> HIDE DEF r
  <2> QED BY <2>2, <2>3, <2>4 DEF IsCut
<1> HIDE DEF s, r
<1>4. s = r
  BY <1>2, <1>3, SeqEqual
<1>5. ASSUME k = Len(t) PROVE r = t
  BY <1>3, <1>5, SeqEqual
<1> QED BY <1>3, <1>4, <1>5 DEF s, r, SameCut

(* What the client reads of a message of which n bytes have come in: what  *)
(* it takes for the topic and the data.                                    *)
ReadOf(buf, n, topic, data, length) ==
    LET t == mqtt_get_publish_topic(buf, n)
        d == mqtt_get_publish_data(buf, n)
    IN  /\ mqtt_get_type(buf) = PUBLISH
        /\ t # NULL => t = topic
        /\ d # NULL => IsPrefix(d, data)
        /\ n >= length /\ data # <<>> => t = topic /\ d = data

LEMMA PublishRead ==
    ASSUME NEW topic \in Seq(Nat), NEW data \in Seq(Nat), NEW qos \in 0 .. 2, NEW id,
           NEW body, MessageBytes(body, topic, data, qos, id), Len(body) < Radix * Radix,
           NEW buf, NEW n \in Nat \ {0},
           \A i \in 1 .. n : i <= Digits(body) + Len(body) =>
               buf[i] = fini_message(body, Header(PUBLISH, qos, 0))[i]
    PROVE  ReadOf(buf, n, topic, data, Digits(body) + Len(body))
<1> DEFINE header == Header(PUBLISH, qos, 0)
           p == fini_message(body, header)
           e == Digits(body)
           t == Len(topic)
           w == IdWidth(qos)
           P == e + Len(body)
           m == IF n < P THEN n ELSE P
           D == e + 2 + t + w
<1>1. e \in {2, 3}
  BY DEF Digits
<1>2. /\ t \in Nat /\ Len(data) \in Nat /\ w \in Nat /\ body \in Seq(Nat)
      /\ Len(body) = 2 + t + w + Len(data)
  BY LenProperties DEF MessageBytes, IdWidth
<1>3. P = D + Len(data) /\ D \in Nat /\ P \in Nat /\ P >= e + 2
  <2> HIDE DEF e, t, w
  <2> QED BY <1>1, <1>2
<1>4. m \in 1 .. n /\ m <= P
  <2> HIDE DEF P
  <2> QED BY <1>3, <1>1
<1>5. Holds(buf, m, body, header)
  <2> SUFFICES ASSUME NEW i \in 1 .. m PROVE buf[i] = p[i]
    BY DEF Holds
  <2>1. i \in 1 .. n /\ i <= P
    <3> HIDE DEF m, P
    <3> QED BY <1>3, <1>4
  <2> QED BY <2>1
<1>6. /\ p[1] = header /\ \A i \in 1 .. Len(body) : p[e + i] = body[i]
  BY <1>2, PacketBytes
<1>7. At(buf, 0) = header
  <2>1. 1 \in 1 .. m
    BY <1>3, <1>4
  <2> HIDE DEF m, p, header
  <2> QED BY <1>5, <1>6, <2>1 DEF Holds, At, p
<1>8. mqtt_get_type(buf) = PUBLISH /\ mqtt_get_qos(buf) = qos
  <2>1. header = 48 + 2 * qos
    BY DEF Header, PUBLISH
  <2>2. qos = 0 \/ qos = 1 \/ qos = 2
    OBVIOUS
  <2>3. /\ 48 \div 16 = 3 /\ 50 \div 16 = 3 /\ 52 \div 16 = 3
        /\ 48 % 8 = 0 /\ 50 % 8 = 2 /\ 52 % 8 = 4 /\ 0 \div 2 = 0 /\ 2 \div 2 = 1 /\ 4 \div 2 = 2
    OBVIOUS
  <2>4. qos = 0 => header = 48
    BY <2>1
  <2>5. qos = 1 => header = 50
    BY <2>1
  <2>6. qos = 2 => header = 52
    BY <2>1
  <2> HIDE DEF header
  <2>7. header \div 16 = 3 /\ (header % 8) \div 2 = qos
    BY <2>2, <2>3, <2>4, <2>5, <2>6
  <2> QED BY <1>7, <2>7 DEF mqtt_get_type, mqtt_get_qos, PUBLISH
<1> HIDE DEF p, header
(* Bytes of the body that have come in.                                    *)
<1>9. \A i \in 1 .. Len(body) : e + i <= m => buf[e + i] = body[i]
  <2> TAKE i \in 1 .. Len(body)
  <2> HAVE e + i <= m
  <2> HIDE DEF m, e
  <2>1. e + i \in 1 .. m
    BY <1>1, <1>2, <1>4
  <2> QED BY <1>5, <1>6, <2>1 DEF Holds, p
<1> HIDE DEF e, t, w
(* The end of the length and of the topic, if they are there.              *)
<1>10. ASSUME m >= e + 2 PROVE LengthEnd(buf, n) = e /\ TopicEnd(buf, n) = e + 2 + t
  <2> HIDE DEF m
  <2>1. m >= Digits(body) + 2
    BY <1>10 DEF e
  <2>2. LengthEnd(buf, n) = Digits(body) /\ TopicEnd(buf, n) = Digits(body) + 2 + Len(topic)
    BY <1>4, <1>5, <2>1, TopicEndIs
  <2> QED BY <2>2 DEF e, t
<1>11. ASSUME HasTopic(buf, n) PROVE m >= e + 2
  <2> SUFFICES ASSUME m < e + 2 PROVE FALSE
    BY <1>1, <1>3, <1>4
  <2>1. m = n
    BY <1>1, <1>3
  <2>2. LengthEnd(buf, n) + 2 < n
    BY <1>11 DEF HasTopic, HasTopicLength, TopicStart
  <2>3. CASE n >= e
    <3>1. LengthEnd(buf, n) = e
      <4>1. Holds(buf, n, body, header) /\ n \in 1 .. n
        BY <1>5, <2>1
      <4>2. n >= Digits(body)
        BY <2>3 DEF e
      <4>3. LengthEnd(buf, n) = Digits(body)
        BY <1>2, <4>1, <4>2, LengthEndIs
      <4> QED BY <4>3 DEF e
    <3> QED BY <1>1, <2>1, <2>2, <3>1
  <2>4. CASE n < e
    <3>1. LengthEnd(buf, n) = n
      BY <1>2, <1>5, <2>1, <2>4, LengthCut DEF e
    <3> QED BY <2>2, <3>1
  <2> QED BY <1>1, <2>3, <2>4
<1> DEFINE top == mqtt_get_publish_topic(buf, n)
           got == mqtt_get_publish_data(buf, n)
<1>12. ASSUME HasTopic(buf, n) PROVE top = topic
  <2>1. m >= e + 2 /\ LengthEnd(buf, n) = e /\ TopicEnd(buf, n) = e + 2 + t
    BY <1>10, <1>11, <1>12
  <2>2. e + 2 + t < n
    BY <1>12, <2>1 DEF HasTopic
  <2>3. top = SubSeq(buf, (e + 2) + 1, (e + 2) + t)
    BY <1>12, <2>1 DEF mqtt_get_publish_topic, TopicStart
  <2>4. \A i \in 1 .. t : buf[(e + 2) + i] = topic[i]
    <3> TAKE i \in 1 .. t
    <3>1. 2 + i \in 1 .. Len(body) /\ e + (2 + i) <= m /\ e + (2 + i) = (e + 2) + i
      BY <1>1, <1>2, <1>3, <2>2
    <3>2. body[2 + i] = topic[i]
      BY DEF MessageBytes, t
    <3> HIDE DEF m
    <3> QED BY <1>9, <3>1, <3>2
  <2>5. e + 2 \in Nat /\ t \in 0 .. t
    BY <1>1, <1>2
  <2> DEFINE a == e + 2
  <2>6. a \in Nat /\ t \in 0 .. Len(topic) /\ \A i \in 1 .. t : buf[a + i] = topic[i]
    BY <2>4, <2>5 DEF t
  <2>7. top = SubSeq(buf, a + 1, a + t)
    BY <2>3
  <2> HIDE DEF a
  <2>8. SameCut(buf, a, topic, t)
    BY <2>6, CutIs
  <2> HIDE DEF top
  <2> QED BY <2>7, <2>8 DEF SameCut, t
(* The data.                                                               *)
<1>13. ASSUME HasTopic(buf, n)
       PROVE  /\ DataStart(buf, n) = D /\ mqtt_get_total_length(buf, n) = P /\ DataEnd(buf, n) = m
  <2>1. m >= e + 2 /\ TopicEnd(buf, n) = e + 2 + t
    BY <1>10, <1>11, <1>13
  <2>2. DataStart(buf, n) = D
    BY <1>8, <2>1 DEF DataStart, w, IdWidth
  <2>3. mqtt_get_total_length(buf, n) = P
    <3>1. m >= e
      BY <1>1, <1>4, <2>1
    <3> HIDE DEF m
    <3> QED BY <1>2, <1>4, <1>5, <3>1, TotalIs DEF e
  <2>4. Min({P, n}) = m
    <3>1. m \in {P, n} /\ {P, n} \subseteq Int /\ \A x \in {P, n} : m <= x
      BY <1>3
    <3> HIDE DEF m, P
    <3> QED BY <3>1, LeastOf
  <2> QED BY <2>2, <2>3, <2>4 DEF DataEnd
<1>14. ASSUME NEW k \in 0 .. Len(data), D + k <= m
       PROVE  SameCut(buf, D, data, k)
  <2>1. \A i \in 1 .. k : buf[D + i] = data[i]
    <3> TAKE i \in 1 .. k
    <3>1. /\ 2 + t + w + i \in 1 .. Len(body) /\ e + (2 + t + w + i) <= m
          /\ e + (2 + t + w + i) = D + i /\ i \in 1 .. Len(data)
      BY <1>1, <1>2, <1>4, <1>14
    <3>2. body[2 + t + w + i] = data[i]
      BY <3>1 DEF MessageBytes, t, w
    <3> HIDE DEF m, D
    <3> QED BY <1>9, <3>1, <3>2
  <2> HIDE DEF D
  <2> QED BY <1>3, <2>1, CutIs
<1>15. ASSUME HasData(buf, n)
       PROVE  /\ IsPrefix(got, data)
              /\ n >= P => got = data
  <2>1. HasTopic(buf, n)
    BY <1>15 DEF HasData
  <2>2. got = SubSeq(buf, D + 1, m)
    BY <1>13, <1>15, <2>1 DEF mqtt_get_publish_data
  <2>3. CASE D <= m
    <3> DEFINE k == m - D
    <3>1. k \in 0 .. Len(data) /\ D + k = m
      <4> HIDE DEF D, P
      <4> QED BY <1>3, <1>4, <2>3
    <3>2. n >= P => k = Len(data)
      <4> HIDE DEF D, P
      <4> QED BY <1>3
    <3> HIDE DEF k, m, D, P
    <3>3. got = SubSeq(data, 1, k) /\ Len(SubSeq(data, 1, k)) = k
          /\ (k = Len(data) => SubSeq(data, 1, k) = data)
      <4>1. SameCut(buf, D, data, k)
        BY <1>4, <1>14, <3>1
      <4> QED BY <2>2, <3>1, <4>1 DEF SameCut
    <3>4. Len(got) = k
      BY <3>3
    <3>5. k <= Len(data) /\ k \in Nat
      BY <1>2, <3>1
    <3>6. SubSeq(got, 1, k) = got
      <4>1. got \in Seq(Nat)
        <5>1. \A i \in 1 .. k : data[i] \in Nat
          BY <1>2, <3>5, ElementOfSeq
        <5>2. IsCut(SubSeq(data, 1, k), Nat, data, 1, k)
          BY <3>5, <5>1, Cutting
        <5> QED BY <3>3, <5>2 DEF IsCut
      <4>2. k \in 0 .. Len(got) /\ k = Len(got) /\ \A i \in 1 .. k : got[0 + i] = got[i]
        BY <3>4, <3>5
      <4>3. SameCut(got, 0, got, k)
        BY <4>1, <4>2, CutIs
      <4> QED BY <3>5, <4>2, <4>3 DEF SameCut
    <3> QED BY <3>2, <3>3, <3>4, <3>5, <3>6 DEF IsPrefix
  <2>4. CASE ~(D <= m)
    <3>1. m < D /\ m \in Int /\ D + 1 \in Int /\ m < D + 1 /\ ~(n >= P)
      <4> HIDE DEF D, P
      <4> QED BY <1>3, <1>4, <2>4
    <3>2. got = <<>>
      BY <2>2, <3>1, SubSeqEmpty
    <3>3. IsPrefix(<<>>, data)
      <4>1. SubSeq(<<>>, 1, 0) = <<>> /\ SubSeq(data, 1, 0) = <<>> /\ Len(<<>>) = 0
        BY SubSeqEmpty
      <4> QED BY <1>2, <4>1 DEF IsPrefix
    <3> QED BY <3>1, <3>2, <3>3
  <2> QED BY <2>3, <2>4
<1>16. ASSUME n >= P, data # <<>> PROVE HasTopic(buf, n) /\ HasData(buf, n)
  <2>1. Len(data) > 0
    BY <1>2, <1>16, EmptySeq
  <2>2. m >= e + 2
    BY <1>3, <1>16
  <2>3. LengthEnd(buf, n) = e /\ TopicEnd(buf, n) = e + 2 + t
    BY <1>10, <2>2
  <2>4. e + 2 < n /\ e + 2 + t < n /\ D < n /\ D <= P
    BY <1>1, <1>2, <1>3, <1>16, <2>1
  <2>5. HasTopic(buf, n)
    BY <2>3, <2>4 DEF HasTopic, HasTopicLength, TopicStart
  <2> QED BY <1>13, <2>4, <2>5 DEF HasData
<1>17. top # NULL => top = topic
  BY <1>12, Zenon DEF mqtt_get_publish_topic
<1>18. got # NULL => IsPrefix(got, data)
  BY <1>15, Zenon DEF mqtt_get_publish_data
<1>19. n >= P /\ data # <<>> => top = topic /\ got = data
  <2> HIDE DEF top, got, P
  <2> QED BY <1>12, <1>15, <1>16
<1> QED BY <1>8, <1>17, <1>18, <1>19 DEF ReadOf, e

LEMMA WordBuilt == ASSUME NEW x, NEW header PROVE Built(Packet(Word16(x), header))
<1>1. Word16(x) \in Seq({x \div (2 * Radix), x % (2 * Radix)})
  BY DEF Word16
<1> QED BY <1>1, PacketBuilt

LEMMA EmptyBuilt == ASSUME NEW header PROVE Built(Packet(<<>>, header))
<1>1. <<>> \in Seq(Nat)
  OBVIOUS
<1> QED BY <1>1, PacketBuilt

LEMMA AcknowledgeKeeps ==
    ASSUME MsgInv, NEW type, NEW qos, NEW id, Acknowledge(type, qos, id)
    PROVE  message_id' \in 0 .. Ids - 1 /\ Built(out')
<1>1. NextId \in 0 .. Ids - 1
  BY NextIdRange DEF MsgInv
<1>2. Built(out')
  BY WordBuilt DEF Acknowledge
<1> QED BY <1>1, <1>2 DEF Acknowledge, MsgInv

(* The buffer when a segment has come in.                                  *)
InBuffer(segment, left) == segment \o Text(MQTT_BUF_SIZE - Len(segment), left)

Answer(buf) ==
    LET type == mqtt_get_type(buf)
        qos == mqtt_get_qos(buf)
        id == mqtt_get_id(buf, MQTT_BUF_SIZE)
    IN  CASE type = PUBLISH /\ qos = 1 -> Acknowledge(PUBACK, 0, id)
          [] type = PUBLISH /\ qos = 2 -> Acknowledge(PUBREC, 0, id)
          [] type = PUBREC -> Acknowledge(PUBREL, 1, id)
          [] type = PUBREL -> Acknowledge(PUBCOMP, 0, id)
          [] type = PINGREQ -> /\ out' = Packet(<<>>, Header(PINGRESP, 0, 0))
                               /\ asked' = [call |-> "ping"]
                               /\ UNCHANGED message_id
          [] OTHER -> UNCHANGED <<message_id, out, asked>>

LEMMA ReceiveIs ==
    ASSUME NEW segment, Receive(segment)
    PROVE  /\ Len(segment) \in 1 .. MQTT_BUF_SIZE - 1
           /\ \E left \in Stale :
                LET buf == InBuffer(segment, left)
                IN  /\ Answer(buf)
                    /\ delivered' = IF mqtt_get_type(buf) = PUBLISH
                                    THEN deliver_publish(buf, Len(segment)) ELSE NULL
  BY Zenon DEF Receive, InBuffer, Answer

LEMMA BufferBytes ==
    ASSUME NEW segment \in Seq(Nat), Len(segment) \in 1 .. MQTT_BUF_SIZE - 1, NEW left
    PROVE  \A i \in 1 .. Len(segment) : InBuffer(segment, left)[i] = segment[i]
<1> DEFINE rest == Text(MQTT_BUF_SIZE - Len(segment), left)
           S == Nat \cup {left}
<1>1. rest \in Seq(S)
  <2>1. MQTT_BUF_SIZE - Len(segment) \in Nat
    BY BufferAssumption
  <2> QED BY <2>1 DEF Text
<1>2. segment \in Seq(S)
  OBVIOUS
<1> HIDE DEF rest, S
<1>3. Joins(segment \o rest, S, segment, rest)
  BY <1>1, <1>2, Chained
<1> QED BY <1>3 DEF Joins, InBuffer, rest

LEMMA Types ==
    /\ PUBLISH = 3 /\ PUBACK = 4 /\ PUBREC = 5 /\ PUBREL = 6 /\ PUBCOMP = 7 /\ PINGREQ = 12 /\ PINGRESP = 13
    /\ Ack = {4, 5, 6, 7}
  BY DEF PUBLISH, PUBACK, PUBREC, PUBREL, PUBCOMP, PINGREQ, PINGRESP, Ack

LEMMA AnswerKeeps ==
    ASSUME MsgInv, NEW buf, Answer(buf)
    PROVE  message_id' \in 0 .. Ids - 1 /\ Built(out')
<1> DEFINE type == mqtt_get_type(buf)
           qos == mqtt_get_qos(buf)
           id == mqtt_get_id(buf, MQTT_BUF_SIZE)
<1>1. \/ Acknowledge(PUBACK, 0, id)
      \/ Acknowledge(PUBREC, 0, id)
      \/ Acknowledge(PUBREL, 1, id)
      \/ Acknowledge(PUBCOMP, 0, id)
      \/ out' = Packet(<<>>, Header(PINGRESP, 0, 0)) /\ UNCHANGED message_id
      \/ UNCHANGED <<message_id, out, asked>>
  <2> HIDE DEF type, qos, id
  <2>1. CASE type = PUBLISH /\ qos = 1
    BY <2>1, Types DEF Answer, type, qos, id
  <2>2. CASE type = PUBLISH /\ qos = 2
    BY <2>2, Types DEF Answer, type, qos, id
  <2>3. CASE type = PUBREC
    BY <2>3, Types DEF Answer, type, qos, id
  <2>4. CASE type = PUBREL
    BY <2>4, Types DEF Answer, type, qos, id
  <2>5. CASE type = PINGREQ
    BY <2>5, Types DEF Answer, type, qos, id
  <2>6. CASE ~(type = PUBLISH /\ qos = 1) /\ ~(type = PUBLISH /\ qos = 2)
              /\ type \notin {PUBREC, PUBREL, PINGREQ}
    BY <2>6 DEF Answer, type, qos, id
  <2> QED BY <2>1, <2>2, <2>3, <2>4, <2>5, <2>6
<1> HIDE DEF id
<1>2. CASE out' = Packet(<<>>, Header(PINGRESP, 0, 0)) /\ UNCHANGED message_id
  BY <1>2, EmptyBuilt DEF MsgInv
<1>3. CASE UNCHANGED <<message_id, out, asked>>
  BY <1>3 DEF MsgInv
<1> QED BY <1>1, <1>2, <1>3, AcknowledgeKeeps

LEMMA ReceiveKeeps ==
    ASSUME MsgInv, NEW segment, Receive(segment)
    PROVE  message_id' \in 0 .. Ids - 1 /\ Built(out')
  BY ReceiveIs, AnswerKeeps, Zenon

(* A message of the broker, or its beginning, in a segment.                *)
LEMMA PublishReceived ==
    ASSUME MsgInv, NEW topic \in Seq(Nat), NEW data \in Seq(Nat), NEW qos \in 0 .. 2, NEW id \in Nat,
           ReceivePublish(topic, data, qos, id)
    PROVE  MsgInv'
<1> DEFINE body == BrokerBody(topic, data, qos, id)
           p == fini_message(body, Header(PUBLISH, qos, 0))
<1>1. MessageBytes(body, topic, data, qos, id)
  BY PublishLayout
<1>2. Len(body) < Radix * Radix
  BY DEF ReceivePublish
<1>3. PICK segment : /\ Receive(segment)
                     /\ sent' = [type |-> PUBLISH, topic |-> topic, data |-> data,
                                 whole |-> Len(segment) >= Len(p)]
                     /\ \/ \E next \in Behind : segment = p \o next
                        \/ \E n \in 1 .. Len(p) - 1 : segment = SubSeq(p, 1, n)
  BY Zenon DEF ReceivePublish
<1> HIDE DEF body
<1>4. body \in Seq(Nat) /\ Len(body) \in Nat
  BY <1>1, LenProperties DEF MessageBytes
<1>5. Len(p) = Digits(body) + Len(body) /\ Digits(body) \in {2, 3}
  BY <1>2, <1>4, PacketBytes DEF Digits
<1>6. p \in Seq(Nat)
  <2> DEFINE h == Header(PUBLISH, qos, 0)
  <2>1. h \in Nat /\ Len(body) % Radix \in Nat /\ Len(body) \div Radix \in Nat /\ Radix \in Nat
    <3>1. h \in Nat
      BY DEF Header, PUBLISH
    <3> HIDE DEF h
    <3> DEFINE len == Len(body)
    <3>2. len \in Nat /\ Radix \in Nat \ {0}
      BY <1>4, RadixAssumption
    <3> HIDE DEF len
    <3>3. len % Radix \in 0 .. Radix - 1 /\ len \div Radix \in Nat
      BY <3>2, Division
    <3> USE DEF len
    <3> QED BY <3>1, <3>2, <3>3
  <2> HIDE DEF h
  <2>2. <<h, Radix + (Len(body) % Radix), Len(body) \div Radix>> \in Seq(Nat) /\ <<h, Len(body)>> \in Seq(Nat)
    BY <1>4, <2>1
  <2> QED BY <1>4, <2>2, ConcatProperties DEF fini_message, h
<1> HIDE DEF p
<1>7. /\ segment \in Seq(Nat)
      /\ \A i \in 1 .. Len(segment) : i <= Len(p) => segment[i] = p[i]
  <2>1. ASSUME NEW next \in Behind, segment = p \o next
        PROVE  segment \in Seq(Nat) /\ \A i \in 1 .. Len(segment) : i <= Len(p) => segment[i] = p[i]
    <3>1. next \in Seq(Nat)
      <4>1. Header(PINGRESP, 0, 0) = 208
        BY DEF Header, PINGRESP
      <4>2. <<>> \in Seq(Nat) /\ <<208, 0>> \in Seq(Nat)
        OBVIOUS
      <4>3. next = <<>> \/ next = <<208, 0>>
        BY <4>1 DEF Behind
      <4> QED BY <4>2, <4>3, Zenon
    <3>2. Joins(segment, Nat, p, next)
      BY <1>6, <2>1, <3>1, Chained
    <3> QED BY <1>4, <1>5, <3>2 DEF Joins
  <2>2. ASSUME NEW n \in 1 .. Len(p) - 1, segment = SubSeq(p, 1, n)
        PROVE  segment \in Seq(Nat) /\ \A i \in 1 .. Len(segment) : i <= Len(p) => segment[i] = p[i]
    <3>1. n \in Int /\ \A i \in 1 .. n : p[i] \in Nat
      BY <1>4, <1>5, <1>6, ElementOfSeq
    <3>2. IsCut(segment, Nat, p, 1, n)
      BY <2>2, <3>1, Cutting
    <3>3. Len(segment) = n /\ \A i \in 1 .. n : segment[i] = p[i]
      <4>1. n - 1 + 1 = n /\ 1 <= n /\ \A i \in 1 .. n : 1 + i - 1 = i
        BY <3>1
      <4> QED BY <3>2, <4>1 DEF IsCut
    <3> QED BY <3>2, <3>3 DEF IsCut
  <2> QED BY <1>3, <2>1, <2>2
<1>8. Len(segment) \in 1 .. MQTT_BUF_SIZE - 1
  BY <1>3, ReceiveIs
<1> DEFINE len == Len(segment)
<1>9. PICK left \in Stale :
         delivered' = IF mqtt_get_type(InBuffer(segment, left)) = PUBLISH
                      THEN deliver_publish(InBuffer(segment, left), len) ELSE NULL
  BY <1>3, ReceiveIs, Zenon
<1> DEFINE buf == InBuffer(segment, left)
<1>10. \A i \in 1 .. len : i <= Len(p) => buf[i] = p[i]
  BY <1>7, <1>8, BufferBytes
<1> HIDE DEF buf
<1>11. len \in Nat \ {0}
  BY <1>8, BufferAssumption
<1>12. ReadOf(buf, len, topic, data, Digits(body) + Len(body))
  <2>1. \A i \in 1 .. len : i <= Digits(body) + Len(body) => buf[i] = fini_message(body, Header(PUBLISH, qos, 0))[i]
    BY <1>5, <1>10 DEF p
  <2> HIDE DEF len
  <2> QED BY <1>1, <1>2, <1>11, <2>1, PublishRead
<1> DEFINE top == mqtt_get_publish_topic(buf, len)
           got == mqtt_get_publish_data(buf, len)
<1>13. delivered' = IF Copied(top) /\ Copied(got) THEN [topic |-> top, data |-> got] ELSE Undefined
  BY <1>9, <1>12 DEF ReadOf, buf, deliver_publish
<1>14. /\ top # NULL => top = topic
       /\ got # NULL => IsPrefix(got, data)
       /\ len >= Len(p) /\ data # <<>> => top = topic /\ got = data
  BY <1>5, <1>12 DEF ReadOf
<1> HIDE DEF top, got
<1>15. /\ sent'.type = PUBLISH /\ sent'.topic = topic /\ sent'.data = data
       /\ sent'.whole => len >= Len(p)
  BY <1>3, Zenon DEF p
<1>16. AnswersId'
  BY <1>15, Types DEF AnswersId
<1>17. DeliveredAsSent'
  <2>1. ASSUME delivered' # Undefined
        PROVE  delivered'.topic = topic /\ IsPrefix(delivered'.data, data)
    BY <1>13, <1>14, <2>1 DEF Copied
  <2>2. ASSUME sent'.whole, data # <<>>, Copied(topic), Copied(data)
        PROVE  delivered' = [topic |-> topic, data |-> data]
    BY <1>13, <1>14, <1>15, <2>2
  <2> QED BY <1>15, <2>1, <2>2 DEF DeliveredAsSent
<1>18. message_id' \in 0 .. Ids - 1 /\ Built(out')
  BY <1>3, ReceiveKeeps
<1> QED BY <1>16, <1>17, <1>18 DEF MsgInv, ReadAsSent

(* Four bytes.                                                             *)
AckBytes(header, id) == <<header, 2, id \div (2 * Radix), id % (2 * Radix)>>

LEMMA AckIs ==
    ASSUME NEW id \in Nat, NEW header
    PROVE  fini_message(Word16(id), header) = AckBytes(header, id)
<1>1. Len(Word16(id)) = 2 /\ ~(2 > Radix - 1)
  BY WordRead, RadixAssumption
<1>2. fini_message(Word16(id), header) = <<header, 2>> \o Word16(id)
  BY <1>1 DEF fini_message
<1> QED BY <1>2 DEF Word16, AckBytes

HoldsAck(buf, type, qos, id) == \A i \in 1 .. 4 : buf[i] = AckBytes(Header(type, qos, 0), id)[i]

(* What is read of them, whatever is behind.                               *)
LEMMA AckRead ==
    ASSUME NEW id \in Nat, NEW type \in {PUBREC, PUBREL, PUBACK, PUBCOMP}, NEW qos \in {0, 1},
           NEW buf, NEW n \in Nat, n >= 4, HoldsAck(buf, type, qos, id)
    PROVE  mqtt_get_type(buf) = type /\ mqtt_get_id(buf, n) = id
<1> DEFINE header == Header(type, qos, 0)
<1>1. buf[1] = header /\ buf[2] = 2 /\ buf[3] = Word16(id)[1] /\ buf[4] = Word16(id)[2]
  <2>1. 1 \in 1 .. 4 /\ 2 \in 1 .. 4 /\ 3 \in 1 .. 4 /\ 4 \in 1 .. 4
    OBVIOUS
  <2>2. buf[1] = AckBytes(header, id)[1] /\ buf[2] = AckBytes(header, id)[2]
        /\ buf[3] = AckBytes(header, id)[3] /\ buf[4] = AckBytes(header, id)[4]
    BY <2>1 DEF HoldsAck
  <2> HIDE DEF header
  <2> QED BY <2>2 DEF AckBytes, Word16
<1>2. header \div 16 = type
  <2>1. /\ 64 \div 16 = 4 /\ 80 \div 16 = 5 /\ 96 \div 16 = 6 /\ 112 \div 16 = 7
        /\ 66 \div 16 = 4 /\ 82 \div 16 = 5 /\ 98 \div 16 = 6 /\ 114 \div 16 = 7
    OBVIOUS
  <2>2. header = 16 * type + 2 * qos
    BY Types DEF Header
  <2>3. /\ type = 4 => header \in {64, 66}
        /\ type = 5 => header \in {80, 82}
        /\ type = 6 => header \in {96, 98}
        /\ type = 7 => header \in {112, 114}
    BY <2>2
  <2>4. type \in {4, 5, 6, 7}
    BY Types
  <2> HIDE DEF header
  <2> QED BY <2>1, <2>3, <2>4
<1>3. mqtt_get_type(buf) = type
  BY <1>1, <1>2 DEF mqtt_get_type, At
<1>4. Read16(buf, 2) = id
  <2>1. At(buf, 2) = Word16(id)[1] /\ At(buf, 3) = Word16(id)[2] /\ 2 + 1 = 3
    BY <1>1 DEF At
  <2> QED BY <2>1, WordRead DEF Read16
<1>5. At(buf, 1) < Radix
  BY <1>1, RadixAssumption DEF At
<1>6. type # PUBLISH /\ type \in Ack
  BY Types
<1> QED BY <1>3, <1>4, <1>5, <1>6 DEF mqtt_get_id

LEMMA AckReceived ==
    ASSUME MsgInv, NEW type \in Ack, NEW id \in 1 .. Ids - 1, ReceiveAck(type, id)
    PROVE  MsgInv'
<1> DEFINE header == Header(type, IF type = PUBREL THEN 1 ELSE 0, 0)
           segment == BrokerAck(type, id)
<1>0. id \in Nat /\ id # 0 /\ type \in {PUBREC, PUBREL, PUBACK, PUBCOMP}
  <2>1. Ids - 1 \in Int
    BY NextIdRange, IdAssumption, RadixAssumption DEF MsgInv
  <2> QED BY <2>1, Types
<1>1. Receive(segment) /\ sent' = [type |-> type, id |-> id]
  BY DEF ReceiveAck
<1>2. segment = AckBytes(header, id)
  BY <1>0, AckIs DEF BrokerAck
<1> HIDE DEF header
<1>3. segment \in Seq(Nat) /\ Len(segment) = 4
  <2>1. header \in Nat
    BY <1>0, Types DEF header, Header
  <2>2. id \div (2 * Radix) \in Nat /\ id % (2 * Radix) \in Nat
    <3> DEFINE b == 2 * Radix
    <3>1. b \in Nat \ {0}
      BY RadixAssumption
    <3> HIDE DEF b
    <3>2. id \div b \in Nat /\ id % b \in 0 .. b - 1
      BY <1>0, <3>1, Division
    <3> QED BY <3>1, <3>2 DEF b
  <2>3. AckBytes(header, id) \in Seq(Nat) /\ Len(AckBytes(header, id)) = 4
    BY <2>1, <2>2 DEF AckBytes
  <2> QED BY <1>2, <2>3
<1> HIDE DEF segment
<1>4. 4 <= MQTT_BUF_SIZE - 1 /\ MQTT_BUF_SIZE \in Nat
  <2>1. Len(segment) \in 1 .. MQTT_BUF_SIZE - 1
    BY <1>1, ReceiveIs
  <2> QED BY <1>3, <2>1, BufferAssumption
<1>5. PICK left \in Stale :
         /\ Answer(InBuffer(segment, left))
         /\ delivered' = IF mqtt_get_type(InBuffer(segment, left)) = PUBLISH
                         THEN deliver_publish(InBuffer(segment, left), Len(segment)) ELSE NULL
  BY <1>1, ReceiveIs, Zenon
<1> DEFINE buf == InBuffer(segment, left)
<1>6. \A i \in 1 .. 4 : buf[i] = AckBytes(header, id)[i]
  <2>1. Len(segment) \in 1 .. MQTT_BUF_SIZE - 1
    BY <1>1, ReceiveIs
  <2>2. \A i \in 1 .. Len(segment) : buf[i] = segment[i]
    BY <1>3, <2>1, BufferBytes
  <2> HIDE DEF buf
  <2> QED BY <1>2, <1>3, <2>2
<1> HIDE DEF buf
<1>7. mqtt_get_type(buf) = type /\ mqtt_get_id(buf, MQTT_BUF_SIZE) = id
  <2>1. PICK qos \in {0, 1} : header = Header(type, qos, 0)
    BY DEF header
  <2>2. HoldsAck(buf, type, qos, id)
    BY <1>6, <2>1 DEF HoldsAck
  <2>3. MQTT_BUF_SIZE >= 4
    BY <1>4
  <2> DEFINE n == MQTT_BUF_SIZE
  <2>4. n \in Nat /\ n >= 4
    BY <1>4
  <2> HIDE DEF n
  <2>5. mqtt_get_type(buf) = type /\ mqtt_get_id(buf, n) = id
    BY <1>0, <2>2, <2>4, AckRead
  <2> QED BY <2>5 DEF n
<1>8. ASSUME type \in {PUBREC, PUBREL} PROVE mqtt_get_id(out', Len(out')) = id
  <2>1. PICK answer \in {PUBREL, PUBCOMP}, qos \in {0, 1} : Acknowledge(answer, qos, id)
    <3>1. CASE type = PUBREC
      BY <1>5, <1>7, <3>1, Types DEF Answer, buf
    <3>2. CASE type = PUBREL
      BY <1>5, <1>7, <3>2, Types DEF Answer, buf
    <3> QED BY <1>8, <3>1, <3>2
  <2> DEFINE h == Header(answer, qos, 0)
  <2>2. out' = Packet(Word16(id), h)
    BY <1>0, <2>1 DEF Acknowledge, IdFor
  <2>3. Fits(Word16(id))
    <3>1. Len(Word16(id)) = 2
      BY <1>0, WordRead
    <3> QED BY <1>4, <3>1 DEF Fits, MQTT_MAX_FIXED_HEADER_SIZE
  <2>4. out' = AckBytes(h, id)
    BY <1>0, <2>2, <2>3, AckIs DEF Packet
  <2>5. Len(out') = 4
    BY <2>4 DEF AckBytes
  <2>6. HoldsAck(out', answer, qos, id)
    BY <2>4 DEF HoldsAck
  <2>7. Len(out') \in Nat /\ Len(out') >= 4
    BY <2>5
  <2> HIDE DEF h
  <2> QED BY <1>0, <2>6, <2>7, AckRead
<1>9. sent'.type = type /\ sent'.id = id
  BY <1>1
<1>10. AnswersId'
  BY <1>8, <1>9 DEF AnswersId
<1>11. DeliveredAsSent'
  BY <1>0, <1>9, Types DEF DeliveredAsSent
<1>12. message_id' \in 0 .. Ids - 1 /\ Built(out')
  BY <1>1, ReceiveKeeps
<1> QED BY <1>10, <1>11, <1>12 DEF MsgInv, ReadAsSent

LEMMA PingReceived == ASSUME MsgInv, ReceivePing PROVE MsgInv'
<1>1. message_id' \in 0 .. Ids - 1 /\ Built(out') /\ sent' = NULL
  BY ReceiveKeeps, Zenon DEF ReceivePing
<1>2. ReadAsSent'
  BY <1>1 DEF ReadAsSent, AnswersId, DeliveredAsSent
<1> QED BY <1>1, <1>2 DEF MsgInv

LEMMA NoId == 0 \in 0 .. Ids - 1
<1> DEFINE most == 4 * Radix * Radix
<1>1. most \in Nat /\ Ids \in 3 .. most
  BY RadixAssumption, IdAssumption
<1> HIDE DEF most
<1> QED BY <1>1

LEMMA MsgBegins == MsgInit => MsgInv
<1> SUFFICES ASSUME MsgInit PROVE MsgInv
  OBVIOUS
<1>1. message_id \in 0 .. Ids - 1
  BY NoId DEF MsgInit
<1>2. Built(out) /\ sent = NULL
  BY NothingBuilt DEF MsgInit
<1>3. ReadAsSent
  BY <1>2 DEF ReadAsSent, AnswersId, DeliveredAsSent
<1> QED BY <1>1, <1>2, <1>3 DEF MsgInv

LEMMA MsgStep == MsgInv /\ [MsgNext]_msgvars => MsgInv'
<1> SUFFICES ASSUME MsgInv, [MsgNext]_msgvars PROVE MsgInv'
  OBVIOUS
<1>1. CASE Build
  BY <1>1, Builds, UnreadSound DEF BuildStep, MsgInv
<1>2. CASE FromBroker
  <2>1. ASSUME NEW n \in Topics, NEW m \in Payloads, NEW qos \in 0 .. 2, NEW id \in {1, Ids - 1},
               ReceivePublish(Text(n, 1), Text(m, 2), qos, id)
        PROVE  MsgInv'
    <3>1. Ids - 1 \in Nat
      <4> DEFINE most == 4 * Radix * Radix
      <4>1. most \in Nat /\ Ids \in 3 .. most
        BY RadixAssumption, IdAssumption
      <4> HIDE DEF most
      <4> QED BY <4>1
    <3>2. n \in Nat /\ m \in Nat /\ id \in Nat /\ 1 \in Nat /\ 2 \in Nat
      BY <3>1, TextAssumption
    <3>3. Text(n, 1) \in Seq(Nat) /\ Text(m, 2) \in Seq(Nat)
      BY <3>2, TextBytes
    <3> QED BY <2>1, <3>2, <3>3, PublishReceived
  <2>2. ASSUME NEW type \in Ack, NEW id \in 1 .. Ids - 1, ReceiveAck(type, id) PROVE MsgInv'
    BY <2>2, AckReceived
  <2> QED BY <1>2, <2>1, <2>2, PingReceived, Zenon DEF FromBroker
<1>3. CASE UNCHANGED msgvars
  BY <1>3 DEF msgvars, MsgInv, ReadAsSent, AnswersId, DeliveredAsSent
<1>4. CASE Restart
  <2>1. message_id' \in 0 .. Ids - 1
    BY <1>4, NoId DEF Restart
  <2> QED BY <1>4, <2>1, NothingBuilt, UnreadSound DEF Restart, MsgInv
<1> QED BY <1>1, <1>2, <1>3, <1>4 DEF MsgNext

(* Whatever is built or received, for every size of buffer and of text:    *)
(* the length in a packet is its length, and none is longer than the       *)
(* buffer.                                                                 *)
THEOREM LengthAlwaysAgrees == MsgSpec => []LengthAgrees
<1>1. MsgInv => LengthAgrees
  BY BuiltAgrees DEF MsgInv
<1> QED BY <1>1, MsgBegins, MsgStep, PTL DEF MsgSpec

(* What the broker sends is understood, however it is cut, whatever is     *)
(* behind it and whatever earlier segments left in the buffer, as long as  *)
(* topic and data fit the buffers that deliver_publish() copies them into. *)
THEOREM AlwaysReadAsSent == MsgSpec => []ReadAsSent
<1>1. MsgInv => ReadAsSent
  BY DEF MsgInv
<1> QED BY <1>1, MsgBegins, MsgStep, PTL DEF MsgSpec

(* Each packet that waits for an acknowledgement has an id of its own,     *)
(* whatever failed before it and when the counter wraps.                   *)
THEOREM IdAlwaysFresh == MsgSpec => IdFresh
<1>1. MsgInv /\ [MsgNext]_msgvars =>
          [Build /\ CarriesId(asked') /\ out' # <<>> =>
              Read16(out', IdAt(out', asked'.call)) \notin {0, message_id}]_msgvars
  BY Builds, Zenon DEF BuildStep, FreshIn
<1> QED BY <1>1, MsgBegins, MsgStep, PTL DEF MsgSpec, IdFresh

-------------------------------------------------------------------------------
(***************************************************************************)
(* Texts, of any length: the fold of UTILS_StrToIP() is followed a token   *)
(* at a time, by an induction on the set of the places up to which what is *)
(* said of it holds.                                                       *)
(***************************************************************************)

LEMMA LessNat == IsWellFoundedOn({p \in Nat \X Nat : p[1] < p[2]}, Nat)
BY NatLessThanWellFounded DEF OpToRel

LEMMA CountUp ==
    ASSUME NEW T, T \subseteq Nat, 0 \in T, \A n \in T : n + 1 \in T
    PROVE  T = Nat
<1> DEFINE R == {p \in Nat \X Nat : p[1] < p[2]}
           Rest == Nat \ T
<1> SUFFICES ASSUME Rest # {} PROVE FALSE
  OBVIOUS
<1>1. PICK x \in Rest : \A y \in Rest : ~(<<y, x>> \in R)
  BY LessNat, WFMin
<1>2. x - 1 \in Nat /\ x - 1 < x /\ x \in Nat
  BY <1>1
<1>3. <<x - 1, x>> \in R
  BY <1>2
<1>4. x - 1 \in T
  BY <1>1, <1>2, <1>3, Zenon
<1> QED BY <1>1, <1>2, <1>4

(* The function behind the fold of UTILS_StrToIP(), over sets of places.   *)
IsFold(f, s, base, n) ==
    f = [S \in SUBSET (1 .. n) |-> IF S = {} THEN base ELSE ReadToken(f[S \ {Max(S)}], s[Max(S)])]

LEMMA FoldIs ==
    ASSUME NEW s, NEW base
    PROVE  FoldLeft(ReadToken, base, s) =
             (CHOOSE f : f = [S \in SUBSET (DOMAIN s) |-> IF S = {} THEN base ELSE ReadToken(f[S \ {Max(S)}], s[Max(S)])])[DOMAIN s]
BY Zenon DEF FoldLeft, MapThenFoldSet

LEMMA MaxIs ==
    ASSUME NEW n \in Nat, NEW S \in SUBSET (1 .. n + 1), n + 1 \in S
    PROVE  Max(S) = n + 1
<1>1. \A y \in S : n + 1 >= y
  OBVIOUS
<1>2. \A x \in S : (\A y \in S : x >= y) => x = n + 1
  BY <1>1
<1> QED BY <1>1, <1>2 DEF Max

LEMMA FoldExists ==
    ASSUME NEW s, NEW base, NEW n \in Nat
    PROVE  \E f : IsFold(f, s, base, n)
<1> DEFINE T == {m \in Nat : \E f : IsFold(f, s, base, m)}
<1>1. 0 \in T
  <2> DEFINE f == [S \in SUBSET (1 .. 0) |-> base]
  <2>1. \A S \in SUBSET (1 .. 0) : S = {}
    OBVIOUS
  <2>2. f = [S \in SUBSET (1 .. 0) |->
              IF S = {} THEN base ELSE ReadToken(f[S \ {Max(S)}], s[Max(S)])]
    BY <2>1
  <2> HIDE DEF f
  <2> QED BY <2>2 DEF IsFold
<1>2. ASSUME NEW m \in T PROVE m + 1 \in T
  <2>1. PICK f : IsFold(f, s, base, m)
    OBVIOUS
  <2> DEFINE g == [S \in SUBSET (1 .. m + 1) |->
                    IF m + 1 \in S THEN ReadToken(f[S \ {m + 1}], s[m + 1]) ELSE f[S]]
  <2>2. ASSUME NEW S \in SUBSET (1 .. m + 1)
        PROVE  g[S] = IF S = {} THEN base ELSE ReadToken(g[S \ {Max(S)}], s[Max(S)])
    <3>1. CASE m + 1 \in S
      <4>1. Max(S) = m + 1 /\ S # {}
        BY <3>1, MaxIs
      <4>2. S \ {m + 1} \in SUBSET (1 .. m + 1) /\ m + 1 \notin S \ {m + 1}
        OBVIOUS
      <4>3. g[S \ {m + 1}] = f[S \ {m + 1}]
        BY <4>2
      <4>4. g[S] = ReadToken(f[S \ {m + 1}], s[m + 1])
        BY <3>1
      <4> QED BY <4>1, <4>3, <4>4
    <3>2. CASE m + 1 \notin S
      <4>1. S \in SUBSET (1 .. m)
        BY <3>2
      <4>2. f[S] = IF S = {} THEN base ELSE ReadToken(f[S \ {Max(S)}], s[Max(S)])
        BY <2>1, <4>1 DEF IsFold
      <4>3. \A R \in SUBSET S : R \in SUBSET (1 .. m + 1) /\ m + 1 \notin R
        BY <3>2
      <4>5. S \ {Max(S)} \in SUBSET S
        OBVIOUS
      <4>4. g[S] = f[S] /\ g[S \ {Max(S)}] = f[S \ {Max(S)}]
        BY <3>2, <4>3, <4>5
      <4> QED BY <4>2, <4>4
    <3> QED BY <3>1, <3>2
  <2>3. g = [S \in SUBSET (1 .. m + 1) |-> g[S]]
    OBVIOUS
  <2> HIDE DEF g
  <2>4. g = [S \in SUBSET (1 .. m + 1) |->
              IF S = {} THEN base ELSE ReadToken(g[S \ {Max(S)}], s[Max(S)])]
    BY <2>2, <2>3, Zenon
  <2>5. IsFold(g, s, base, m + 1)
    BY <2>4 DEF IsFold
  <2> QED BY <2>5
<1> HIDE DEF T
<1>3. T = Nat
  <2>1. T \subseteq Nat
    BY DEF T
  <2> QED BY <1>1, <1>2, <2>1, CountUp
<1> QED BY <1>3 DEF T

(* What the fold is: the last of the states that start with the base, each *)
(* of them the one before it with one more token read.                     *)
LEMMA Folded ==
    ASSUME NEW T, NEW s \in Seq(T), NEW base
    PROVE  \E g : /\ g[0] = base
                  /\ \A k \in 1 .. Len(s) : g[k] = ReadToken(g[k - 1], s[k])
                  /\ FoldLeft(ReadToken, base, s) = g[Len(s)]
<1> DEFINE D == 1 .. Len(s)
           h == CHOOSE f : IsFold(f, s, base, Len(s))
           g == [k \in 0 .. Len(s) |-> h[1 .. k]]
<1>1. DOMAIN s = D /\ Len(s) \in Nat
  OBVIOUS
<1>2. \E f : IsFold(f, s, base, Len(s))
  BY <1>1, FoldExists
<1>3. IsFold(h, s, base, Len(s))
  BY <1>2, Zenon
<1>4. FoldLeft(ReadToken, base, s) = h[D]
  BY <1>1, FoldIs DEF IsFold
<1> HIDE DEF h
<1>5. \A S \in SUBSET D : h[S] = IF S = {} THEN base ELSE ReadToken(h[S \ {Max(S)}], s[Max(S)])
  BY <1>3 DEF IsFold
<1>6. g[0] = base
  <2>1. 1 .. 0 = {} /\ 0 \in 0 .. Len(s)
    BY <1>1
  <2> QED BY <1>5, <2>1
<1>7. ASSUME NEW k \in 1 .. Len(s) PROVE g[k] = ReadToken(g[k - 1], s[k])
  <2>1. k - 1 \in Nat /\ (k - 1) + 1 = k
    BY <1>1
  <2>2. 1 .. k \in SUBSET D /\ k \in 1 .. k /\ 1 .. k # {}
    <3>1. k \in Nat /\ 1 <= k /\ k <= Len(s)
      BY <1>1
    <3>2. k \in 1 .. k /\ \A j \in 1 .. k : j \in D
      BY <1>1, <3>1
    <3> QED BY <3>2
  <2>3. Max(1 .. k) = k
    BY <2>1, <2>2, MaxIs
  <2>4. (1 .. k) \ {k} = 1 .. k - 1
    BY <1>1
  <2>5. h[1 .. k] = ReadToken(h[1 .. k - 1], s[k])
    BY <1>5, <2>2, <2>3, <2>4
  <2>6. k \in 0 .. Len(s) /\ k - 1 \in 0 .. Len(s)
    BY <1>1
  <2> QED BY <2>5, <2>6
<1>8. FoldLeft(ReadToken, base, s) = g[Len(s)]
  BY <1>1, <1>4
<1> QED BY <1>6, <1>7, <1>8


(* The texts of the model: their numbers are not negative, and two numbers *)
(* that follow each other would be one.                                    *)
Token == {HTTP, Dot, Slash, Colon, Letter} \cup {Number(v) : v \in Nat}

NumbersApart(s) == \A k \in 1 .. Len(s) - 1 : ~(IsNumber(s[k]) /\ IsNumber(s[k + 1]))

TextType == /\ alphabet \in Alphabets \cup {{}} /\ temp \in Int
            /\ text \in Seq(Token) /\ NumbersApart(text)

LEMMA TokenIs ==
    ASSUME NEW t \in Token \cup {EndOfText}
    PROVE  /\ IsNumber(t) => t.value \in Nat /\ t = Number(t.value)
           /\ t \in {Dot, Slash, Colon, EndOfText} => ~IsNumber(t)
BY DEF Token, IsNumber, Number, Sign, HTTP, Dot, Slash, Colon, Letter, EndOfText

LEMMA TextTyped == TextSpec => []TextType
<1>1. TextInit => TextType
  BY TempAssumption DEF TextInit, TextType, NumbersApart
<1>2. ASSUME TextType, [TextNext]_tvars PROVE TextType'
  <2>1. CASE NextToken
    <3>1. PICK t \in alphabet : /\ text # <<>> => ~(IsNumber(t) /\ IsNumber(Last(text))) /\ t # HTTP
                                /\ text' = Append(text, t)
      BY <2>1 DEF NextToken
    <3>2. t \in Token
      <4>1. alphabet \in Alphabets
        BY <1>2 DEF TextType
      <4> QED BY <4>1, AlphabetAssumption DEF Token
    <3>3. text' \in Seq(Token)
      BY <1>2, <3>1, <3>2 DEF TextType
    <3>4. ASSUME NEW k \in 1 .. Len(text') - 1 PROVE ~(IsNumber(text'[k]) /\ IsNumber(text'[k + 1]))
      <4>1. text \in Seq(Token) /\ Len(text) \in Nat /\ Len(text') = Len(text) + 1
        BY <1>2, <3>1, <3>2 DEF TextType
      <4>2. CASE k = Len(text)
        <5>1. text # <<>> /\ text'[k] = Last(text) /\ text'[k + 1] = t
          BY <3>1, <3>2, <4>1, <4>2 DEF Last
        <5> QED BY <3>1, <5>1
      <4>3. CASE k # Len(text)
        <5>1. k \in 1 .. Len(text) - 1
          BY <4>1, <4>3
        <5>2. text'[k] = text[k] /\ text'[k + 1] = text[k + 1]
          BY <3>1, <3>2, <4>1, <5>1
        <5> QED BY <1>2, <5>1, <5>2 DEF TextType, NumbersApart
      <4> QED BY <4>2, <4>3
    <3>5. NumbersApart(text')
      BY <3>4 DEF NumbersApart
    <3> QED BY <1>2, <2>1, <3>3, <3>5 DEF TextType, NextToken
  <2>2. CASE OtherText
    BY <1>2, <2>2 DEF OtherText, TextType, NumbersApart
  <2>3. CASE UNCHANGED tvars
    BY <1>2, <2>3 DEF tvars, TextType
  <2> QED BY <1>2, <2>1, <2>2, <2>3 DEF TextNext
<1> QED BY <1>1, <1>2, PTL DEF TextSpec

-------------------------------------------------------------------------------
(* UTILS_StrToIP(), a token at a time. *)

(* Between two places of a text: one number, or nothing for 0. *)
PieceAt(str, from, to, value) ==
    \/ to = from /\ value = 0
    \/ to = from + 1 /\ str[to] = Number(value)

(* What k tokens have come to: unless the text was refused, each number    *)
(* that is stored ended at a place of its own, the first three at a dot,   *)
(* and the next one is read from there on.                                 *)
Ended(str, k, s, q) ==
    /\ q[1] = 0 /\ q[s.i + 1] <= k
    /\ \A j \in 1 .. s.i : /\ q[j + 1] # 0 /\ PieceAt(str, q[j], q[j + 1] - 1, s.ip[j])
                           /\ j < 4 => str[q[j + 1]] = Dot
    /\ s.i < 4 => PieceAt(str, q[s.i + 1], k, s.n)

ReadSoFar(str, k, s) ==
    /\ s \in [i : 0 .. 4, n : Nat, ip : Seq(Nat), failed : BOOLEAN]
    /\ Len(s.ip) = s.i
    /\ \A j \in 1 .. s.i : s.ip[j] < 256
    /\ s.failed => s.i < 4
    /\ ~s.failed => \E q \in [1 .. 5 -> Nat] : Ended(str, k, s, q)

LEMMA TokenRead ==
    ASSUME NEW str \in Seq(Token \cup {EndOfText}), NumbersApart(str),
           NEW k \in 0 .. Len(str) - 1, NEW s, ReadSoFar(str, k, s)
    PROVE  ReadSoFar(str, k + 1, ReadToken(s, str[k + 1]))
<1> DEFINE t == str[k + 1]
           z == ReadToken(s, t)
<1>1. /\ s.i \in 0 .. 4 /\ s.n \in Nat /\ s.ip \in Seq(Nat) /\ s.failed \in BOOLEAN
      /\ s = [i |-> s.i, n |-> s.n, ip |-> s.ip, failed |-> s.failed]
      /\ k \in Nat
  BY DEF ReadSoFar
<1>2. t \in Token \cup {EndOfText}
  OBVIOUS
<1>3. CASE s.failed \/ s.i = 4
  <2>1. z = s
    BY <1>3 DEF ReadToken
  <2>2. ASSUME ~s.failed PROVE \E q \in [1 .. 5 -> Nat] : Ended(str, k + 1, s, q)
    <3>1. s.i = 4
      BY <1>3, <2>2
    <3>2. PICK q \in [1 .. 5 -> Nat] : Ended(str, k, s, q)
      BY <2>2 DEF ReadSoFar
    <3>3. Ended(str, k + 1, s, q)
      BY <1>1, <3>1, <3>2 DEF Ended
    <3> QED BY <3>3
  <2> QED BY <2>1, <2>2 DEF ReadSoFar
<1>4. CASE ~s.failed /\ s.i # 4
  <2>1. s.i + 1 \in 1 .. 4 /\ s.i < 4 /\ (s.i + 1) + 1 = s.i + 2 /\ s.i + 2 \in 1 .. 5
    BY <1>1, <1>4
  <2>2. PICK q \in [1 .. 5 -> Nat] :
           /\ q[1] = 0 /\ q[s.i + 1] <= k
           /\ \A j \in 1 .. s.i : /\ q[j + 1] # 0 /\ PieceAt(str, q[j], q[j + 1] - 1, s.ip[j])
                                  /\ j < 4 => str[q[j + 1]] = Dot
           /\ PieceAt(str, q[s.i + 1], k, s.n)
    BY <1>4, <2>1 DEF ReadSoFar, Ended
  <2>3. CASE IsNumber(t)
    <3>1. t.value \in Nat /\ t = Number(t.value)
      BY <1>2, <2>3, TokenIs
    <3>2. z = [s EXCEPT !.n = s.n + t.value]
      BY <1>4, <2>3 DEF ReadToken
    <3>3. z = [i |-> s.i, n |-> s.n + t.value, ip |-> s.ip, failed |-> s.failed]
      BY <1>1, <3>2
    <3>4. k = q[s.i + 1] /\ s.n = 0
      <4>1. SUFFICES ASSUME k = q[s.i + 1] + 1, str[k] = Number(s.n) PROVE FALSE
        BY <2>2 DEF PieceAt
      <4>2. k \in 1 .. Len(str) - 1
        BY <2>1, <2>2, <4>1
      <4>3. IsNumber(str[k])
        BY <4>1 DEF IsNumber, Number
      <4> QED BY <2>3, <4>2, <4>3 DEF NumbersApart
    <3>5. PieceAt(str, q[s.i + 1], k + 1, s.n + t.value)
      BY <3>1, <3>4 DEF PieceAt
    <3>6. q[s.i + 1] <= k + 1
      BY <1>1, <2>1, <2>2
    <3>7. \A j \in 1 .. s.i : s.ip[j] < 256
      BY DEF ReadSoFar
    <3>8. Len(s.ip) = s.i /\ s.n + t.value \in Nat
      BY <1>1, <3>1 DEF ReadSoFar
    <3>9. z.i = s.i /\ z.n = s.n + t.value /\ z.ip = s.ip /\ z.failed = s.failed
          /\ z \in [i : 0 .. 4, n : Nat, ip : Seq(Nat), failed : BOOLEAN]
      BY <1>1, <3>3, <3>8
    <3> HIDE DEF z, t
    <3>10. Ended(str, k + 1, z, q)
      BY <2>2, <3>5, <3>6, <3>9 DEF Ended
    <3>11. ReadSoFar(str, k + 1, z)
      BY <1>4, <2>1, <3>7, <3>8, <3>9, <3>10 DEF ReadSoFar
    <3> QED BY <3>11 DEF z, t
  <2>4. CASE ~IsNumber(t) /\ s.n < 256 /\ (t = Dot \/ s.i = 3)
    <3>1. z = NumberEnds(s)
      BY <1>4, <2>4 DEF ReadToken
    <3>2. z = [i |-> s.i + 1, n |-> 0, ip |-> Append(s.ip, s.n), failed |-> s.failed]
      BY <1>1, <3>1 DEF NumberEnds
    <3> DEFINE p == [q EXCEPT ![s.i + 2] = k + 1]
    <3>3. s.i + 2 \in 1 .. 5 /\ s.i + 1 # s.i + 2 /\ 1 # s.i + 2
      BY <2>1, <1>1
    <3>4. p \in [1 .. 5 -> Nat] /\ p[s.i + 2] = k + 1 /\ \A j \in 1 .. s.i + 1 : p[j] = q[j]
      BY <1>1, <2>1, <3>3
    <3>5. Len(s.ip) = s.i /\ \A j \in 1 .. s.i : s.ip[j] < 256
      BY DEF ReadSoFar
    <3>6. /\ Append(s.ip, s.n) \in Seq(Nat) /\ Len(Append(s.ip, s.n)) = s.i + 1
          /\ Append(s.ip, s.n)[s.i + 1] = s.n /\ \A j \in 1 .. s.i : Append(s.ip, s.n)[j] = s.ip[j]
      BY <1>1, <3>5
    <3> HIDE DEF p
    <3>7. ASSUME NEW j \in 1 .. s.i + 1
          PROVE  /\ p[j + 1] # 0 /\ PieceAt(str, p[j], p[j + 1] - 1, Append(s.ip, s.n)[j])
                 /\ j < 4 => str[p[j + 1]] = Dot
                 /\ Append(s.ip, s.n)[j] < 256
      <4>1. CASE j = s.i + 1
        <5>1. p[j + 1] = k + 1 /\ p[j] = q[s.i + 1] /\ (k + 1) - 1 = k
          <6>1. j + 1 = s.i + 2
            BY <2>1, <4>1
          <6>2. p[j + 1] = k + 1
            BY <3>4, <6>1, Zenon
          <6>3. p[j] = q[s.i + 1]
            BY <3>4, <4>1, Zenon
          <6> QED BY <1>1, <6>2, <6>3
        <5>2. PieceAt(str, p[j], p[j + 1] - 1, s.n)
          BY <2>2, <5>1
        <5>3. Append(s.ip, s.n)[j] = s.n
          BY <3>6, <4>1
        <5>4. j < 4 => t = Dot
          BY <1>1, <2>4, <4>1
        <5>5. k + 1 # 0
          BY <1>1
        <5> QED BY <2>4, <5>1, <5>2, <5>3, <5>4, <5>5
      <4>2. CASE j # s.i + 1
        <5>1. j \in 1 .. s.i /\ j + 1 \in 1 .. s.i + 1
          BY <1>1, <4>2
        <5>2. p[j] = q[j] /\ p[j + 1] = q[j + 1] /\ Append(s.ip, s.n)[j] = s.ip[j]
          BY <3>4, <3>6, <5>1
        <5> QED BY <2>2, <3>5, <5>1, <5>2
      <4> QED BY <4>1, <4>2
    <3>8. p[1] = 0 /\ p[(s.i + 1) + 1] <= k + 1 /\ PieceAt(str, p[(s.i + 1) + 1], k + 1, 0)
      <4>1. 1 \in 1 .. s.i + 1
        BY <1>1
      <4>2. p[(s.i + 1) + 1] = k + 1
        BY <2>1, <3>4, Zenon
      <4>3. p[1] = 0
        BY <2>2, <3>4, <4>1, Zenon
      <4>4. PieceAt(str, k + 1, k + 1, 0) /\ k + 1 <= k + 1
        BY <1>1 DEF PieceAt
      <4> QED BY <4>2, <4>3, <4>4, Zenon
    <3>9. z.i = s.i + 1 /\ z.n = 0 /\ z.ip = Append(s.ip, s.n) /\ z.failed = s.failed
      BY <3>2
    <3>10. z \in [i : 0 .. 4, n : Nat, ip : Seq(Nat), failed : BOOLEAN]
      BY <1>1, <2>1, <3>2, <3>6
    <3> HIDE DEF z, t
    <3>11. Ended(str, k + 1, z, p)
      BY <3>7, <3>8, <3>9 DEF Ended
    <3>12. ReadSoFar(str, k + 1, z)
      <4>1. Len(z.ip) = z.i /\ \A j \in 1 .. z.i : z.ip[j] < 256
        BY <3>6, <3>7, <3>9
      <4>2. ~z.failed
        BY <1>4, <3>9
      <4> QED BY <3>4, <3>10, <3>11, <4>1, <4>2 DEF ReadSoFar
    <3> QED BY <3>12 DEF z, t
  <2>5. CASE ~IsNumber(t) /\ ~(s.n < 256 /\ (t = Dot \/ s.i = 3))
    <3>1. z = [s EXCEPT !.failed = TRUE]
      BY <1>4, <2>5 DEF ReadToken
    <3>2. z = [i |-> s.i, n |-> s.n, ip |-> s.ip, failed |-> TRUE]
      BY <1>1, <3>1
    <3>3. z.i = s.i /\ z.ip = s.ip /\ z.failed = TRUE
          /\ z \in [i : 0 .. 4, n : Nat, ip : Seq(Nat), failed : BOOLEAN]
      BY <1>1, <3>2
    <3> HIDE DEF z, t
    <3>4. ReadSoFar(str, k + 1, z)
      BY <2>1, <3>3 DEF ReadSoFar
    <3> QED BY <3>4 DEF z, t
  <2> QED BY <2>3, <2>4, <2>5
<1> QED BY <1>1, <1>3, <1>4


LEMMA WithEnd ==
    ASSUME TextType
    PROVE  LET str == Append(text, EndOfText)
           IN  /\ str \in Seq(Token \cup {EndOfText}) /\ Len(str) = Len(text) + 1
               /\ str[Len(text) + 1] = EndOfText /\ \A k \in 1 .. Len(text) : str[k] = text[k]
BY DEF TextType

(* What has been read when k tokens of a text were. *)
LEMMA Reading ==
    ASSUME TextType
    PROVE  \E g : /\ g[0] = [i |-> 0, n |-> 0, ip |-> <<>>, failed |-> FALSE]
                  /\ \A k \in 1 .. Len(text) + 1 : g[k] = ReadToken(g[k - 1], Append(text, EndOfText)[k])
                  /\ \A k \in 0 .. Len(text) + 1 : ReadSoFar(Append(text, EndOfText), k, g[k])
                  /\ UTILS_StrToIP(text) = [ok |-> g[Len(text) + 1].i = 4, ip |-> g[Len(text) + 1].ip]
<1> DEFINE str == Append(text, EndOfText)
           base == [i |-> 0, n |-> 0, ip |-> <<>>, failed |-> FALSE]
<1>1. text \in Seq(Token) /\ Len(text) \in Nat /\ NumbersApart(text)
  BY DEF TextType
<1>2. str \in Seq(Token \cup {EndOfText}) /\ Len(str) = Len(text) + 1
      /\ str[Len(text) + 1] = EndOfText /\ \A k \in 1 .. Len(text) : str[k] = text[k]
  BY WithEnd
<1> HIDE DEF str
<1>3. PICK g : /\ g[0] = base
               /\ \A k \in 1 .. Len(str) : g[k] = ReadToken(g[k - 1], str[k])
               /\ FoldLeft(ReadToken, base, str) = g[Len(str)]
  BY <1>2, Folded
<1>4. NumbersApart(str)
  <2> SUFFICES ASSUME NEW k \in 1 .. Len(str) - 1 PROVE ~(IsNumber(str[k]) /\ IsNumber(str[k + 1]))
    BY DEF NumbersApart
  <2>1. CASE k = Len(text)
    <3>1. str[k + 1] = EndOfText
      BY <1>2, <2>1
    <3> QED BY <3>1, TokenIs
  <2>2. CASE k # Len(text)
    <3>1. k \in 1 .. Len(text) - 1 /\ k \in 1 .. Len(text) /\ k + 1 \in 1 .. Len(text)
      BY <1>1, <1>2, <2>2
    <3> QED BY <1>1, <1>2, <3>1 DEF NumbersApart
  <2> QED BY <2>1, <2>2
<1>5. ReadSoFar(str, 0, base)
  <2> DEFINE q == [j \in 1 .. 5 |-> 0]
  <2>1. q \in [1 .. 5 -> Nat] /\ q[1] = 0
    OBVIOUS
  <2>2. base.i = 0 /\ base.n = 0 /\ base.ip = <<>> /\ base.failed = FALSE
        /\ base \in [i : 0 .. 4, n : Nat, ip : Seq(Nat), failed : BOOLEAN]
    OBVIOUS
  <2> HIDE DEF q, base
  <2>3. Ended(str, 0, base, q)
    BY <2>1, <2>2 DEF Ended, PieceAt
  <2> QED BY <2>1, <2>2, <2>3 DEF ReadSoFar
<1> HIDE DEF base
<1> DEFINE T == {k \in Nat : k <= Len(str) => ReadSoFar(str, k, g[k])}
<1>6. 0 \in T
  BY <1>3, <1>5
<1>7. ASSUME NEW k \in T PROVE k + 1 \in T
  <2> SUFFICES ASSUME k + 1 <= Len(str) PROVE ReadSoFar(str, k + 1, g[k + 1])
    OBVIOUS
  <2>1. k \in 0 .. Len(str) - 1 /\ k + 1 \in 1 .. Len(str) /\ (k + 1) - 1 = k /\ ReadSoFar(str, k, g[k])
    BY <1>1, <1>2
  <2>2. g[k + 1] = ReadToken(g[k], str[k + 1])
    BY <1>3, <2>1
  <2> QED BY <1>2, <1>4, <2>1, <2>2, TokenRead
<1>8. T = Nat
  <2> HIDE DEF T
  <2>1. T \subseteq Nat
    BY DEF T
  <2> QED BY <1>6, <1>7, <2>1, CountUp
<1>9. \A k \in 0 .. Len(text) + 1 : ReadSoFar(str, k, g[k])
  BY <1>1, <1>2, <1>8
<1>10. UTILS_StrToIP(text) = [ok |-> g[Len(text) + 1].i = 4, ip |-> g[Len(text) + 1].ip]
  BY <1>2, <1>3 DEF UTILS_StrToIP, str, base
<1> QED BY <1>2, <1>3, <1>9, <1>10 DEF str, base

LEMMA NumberRead ==
    ASSUME NEW s \in [i : 0 .. 4, n : Nat, ip : Seq(Nat), failed : BOOLEAN], ~s.failed, s.i # 4,
           NEW t, IsNumber(t)
    PROVE  LET z == ReadToken(s, t) IN z.i = s.i /\ z.n = s.n + t.value /\ ~z.failed
BY DEF ReadToken

LEMMA NumberEnded ==
    ASSUME NEW s \in [i : 0 .. 4, n : Nat, ip : Seq(Nat), failed : BOOLEAN], ~s.failed, s.i # 4,
           NEW t, ~IsNumber(t), s.n < 256, t = Dot \/ s.i = 3
    PROVE  LET z == ReadToken(s, t) IN z.i = s.i + 1 /\ z.n = 0 /\ ~z.failed
BY DEF ReadToken, NumberEnds

(* Four numbers below 256 with dots between them are an address. *)
LEMMA AddressTaken ==
    ASSUME TextType, Len(text) = 7,
           \A k \in {1, 3, 5, 7} : IsNumber(text[k]) /\ text[k].value < 256,
           \A k \in {2, 4, 6} : text[k] = Dot
    PROVE  UTILS_StrToIP(text).ok
<1> DEFINE str == Append(text, EndOfText)
<1>0. text \in Seq(Token) /\ Len(text) + 1 = 8
  BY DEF TextType
<1>1. PICK g : /\ g[0] = [i |-> 0, n |-> 0, ip |-> <<>>, failed |-> FALSE]
               /\ \A k \in 1 .. 8 : g[k] = ReadToken(g[k - 1], str[k])
               /\ \A k \in 0 .. 8 : ReadSoFar(str, k, g[k])
               /\ UTILS_StrToIP(text) = [ok |-> g[8].i = 4, ip |-> g[8].ip]
  BY <1>0, Reading
<1>2. /\ str[8] = EndOfText
      /\ \A k \in 1 .. 7 : str[k] = text[k] /\ text[k] \in Token
  <2>1. /\ str[Len(text) + 1] = EndOfText
        /\ \A k \in 1 .. Len(text) : str[k] = text[k] /\ text[k] \in Token
    BY <1>0, WithEnd
  <2> QED BY <1>0, <2>1
<1> HIDE DEF str
<1>3. \A k \in 0 .. 8 : g[k] \in [i : 0 .. 4, n : Nat, ip : Seq(Nat), failed : BOOLEAN]
  BY <1>1 DEF ReadSoFar
<1>4. \A k \in 1 .. 8 : g[k] = ReadToken(g[k - 1], str[k])
  BY <1>1
<1>5. \A k \in {1, 3, 5, 7} : IsNumber(str[k]) /\ str[k].value \in Nat /\ str[k].value < 256
  BY <1>2, TokenIs
<1>6. \A k \in {2, 4, 6} : str[k] = Dot /\ ~IsNumber(str[k])
  BY <1>2, TokenIs
<1>7. ~IsNumber(str[8])
  BY <1>2, TokenIs
<1> DEFINE Dots(k, i) == g[k].i = i /\ g[k].n = 0 /\ ~g[k].failed
<1>8. Dots(0, 0)
  BY <1>1
<1>9. ASSUME NEW k \in {0, 2, 4, 6}, NEW i \in 0 .. 3, Dots(k, i), k = 6 => i = 3
      PROVE  Dots(k + 2, i + 1)
  <2>1. k + 1 \in {1, 3, 5, 7} /\ k + 1 \in 1 .. 8 /\ k + 2 \in 1 .. 8 /\ k \in 0 .. 8 /\ k + 1 \in 0 .. 8
        /\ (k + 1) - 1 = k /\ (k + 2) - 1 = k + 1 /\ k + 2 \in {2, 4, 6, 8}
    OBVIOUS
  <2>2. g[k + 1] = ReadToken(g[k], str[k + 1]) /\ g[k + 2] = ReadToken(g[k + 1], str[k + 2])
    BY <1>4, <2>1
  <2>3. g[k + 1].i = i /\ g[k + 1].n = str[k + 1].value /\ ~g[k + 1].failed
    <3>1. IsNumber(str[k + 1]) /\ g[k] \in [i : 0 .. 4, n : Nat, ip : Seq(Nat), failed : BOOLEAN]
      BY <1>3, <1>5, <2>1
    <3>2. ~g[k].failed /\ g[k].i # 4 /\ g[k].i = i /\ g[k].n = 0
      BY <1>9
    <3>3. g[k + 1].i = g[k].i /\ g[k + 1].n = g[k].n + str[k + 1].value /\ ~g[k + 1].failed
      BY <2>2, <3>1, <3>2, NumberRead
    <3>4. str[k + 1].value \in Nat
      BY <1>5, <2>1
    <3> QED BY <3>2, <3>3, <3>4
  <2>4. ~IsNumber(str[k + 2]) /\ (str[k + 2] = Dot \/ i = 3)
    BY <1>6, <1>7, <1>9, <2>1
  <2>5. g[k + 1] \in [i : 0 .. 4, n : Nat, ip : Seq(Nat), failed : BOOLEAN] /\ str[k + 1].value < 256
    BY <1>3, <1>5, <2>1
  <2>6. ~g[k + 1].failed /\ g[k + 1].i # 4 /\ g[k + 1].n < 256 /\ (str[k + 2] = Dot \/ g[k + 1].i = 3)
    BY <2>3, <2>4, <2>5
  <2>7. g[k + 2].i = g[k + 1].i + 1 /\ g[k + 2].n = 0 /\ ~g[k + 2].failed
    BY <2>2, <2>4, <2>5, <2>6, NumberEnded
  <2> QED BY <2>3, <2>7
<1>10. Dots(2, 1)
  BY <1>8, <1>9
<1>11. Dots(4, 2)
  BY <1>9, <1>10
<1>12. Dots(6, 3)
  BY <1>9, <1>11
<1>13. Dots(8, 4)
  BY <1>9, <1>12
<1>14. g[8].i = 4
  BY <1>13
<1>15. UTILS_StrToIP(text).ok = (g[8].i = 4)
  BY <1>1
<1> QED BY <1>14, <1>15, Zenon

(* What is taken for an address begins with its bytes. *)
LEMMA AddressBegins ==
    ASSUME TextType, UTILS_StrToIP(text).ok
    PROVE  LET r == UTILS_StrToIP(text)
               Piece(k) == {<<Number(r.ip[k])>>} \cup (IF r.ip[k] = 0 THEN {<<>>} ELSE {})
           IN  \E a \in Piece(1), b \in Piece(2), c \in Piece(3), d \in Piece(4) :
                   /\ IsPrefix(a \o <<Dot>> \o b \o <<Dot>> \o c \o <<Dot>> \o d, text)
                   /\ \A k \in 1 .. 4 : r.ip[k] < 256
<1> DEFINE str == Append(text, EndOfText)
           L == Len(text)
           r == UTILS_StrToIP(text)
           Piece(k) == {<<Number(r.ip[k])>>} \cup (IF r.ip[k] = 0 THEN {<<>>} ELSE {})
<1>1. PICK g : /\ \A k \in 0 .. L + 1 : ReadSoFar(str, k, g[k])
               /\ r = [ok |-> g[L + 1].i = 4, ip |-> g[L + 1].ip]
  BY Reading
<1>2. /\ text \in Seq(Token) /\ L \in Nat /\ \A k \in 1 .. L : str[k] = text[k]
  BY DEF TextType
<1> HIDE DEF str, r
<1> HIDE DEF L
<1>3. g[L + 1].i = 4 /\ r.ip = g[L + 1].ip /\ ReadSoFar(str, L + 1, g[L + 1])
  <2>1. L + 1 \in 0 .. L + 1
    BY <1>2
  <2>2. r.ok
    BY DEF r
  <2> QED BY <1>1, <2>1, <2>2
<1>4. PICK q \in [1 .. 5 -> Nat] : Ended(str, L + 1, g[L + 1], q)
  BY <1>3 DEF ReadSoFar
<1>5. \A k \in 1 .. 4 : r.ip[k] < 256
  BY <1>3 DEF ReadSoFar
<1>6. /\ q[1] = 0 /\ q[5] <= L + 1
      /\ \A j \in 1 .. 4 : /\ q[j + 1] # 0 /\ PieceAt(str, q[j], q[j + 1] - 1, r.ip[j])
                           /\ j < 4 => str[q[j + 1]] = Dot
  BY <1>3, <1>4 DEF Ended
<1>7. ASSUME NEW j \in 1 .. 4
      PROVE  /\ q[j] \in Nat /\ q[j + 1] \in Nat /\ q[j] <= q[j + 1] - 1
             /\ q[j + 1] - 1 = q[j] => r.ip[j] = 0
             /\ q[j + 1] - 1 # q[j] => q[j + 1] - 1 = q[j] + 1 /\ str[q[j + 1] - 1] = Number(r.ip[j])
  <2>1. q[j] \in Nat /\ q[j + 1] \in Nat
    OBVIOUS
  <2>2. PieceAt(str, q[j], q[j + 1] - 1, r.ip[j])
    BY <1>6
  <2>3. \/ q[j + 1] - 1 = q[j] /\ r.ip[j] = 0
        \/ q[j + 1] - 1 = q[j] + 1 /\ str[q[j + 1] - 1] = Number(r.ip[j])
    BY <2>2 DEF PieceAt
  <2>4. q[j] + 1 # q[j] /\ q[j] <= q[j] + 1
    BY <2>1
  <2> QED BY <2>1, <2>3, <2>4
<1>8. \A j \in 1 .. 4 : q[j + 1] - 1 \in 0 .. L /\ q[j] \in 0 .. L
  <2>1. 1 + 1 = 2 /\ 2 + 1 = 3 /\ 3 + 1 = 4 /\ 4 + 1 = 5
    OBVIOUS
  <2>2. /\ q[1] <= q[2] - 1 /\ q[2] <= q[3] - 1 /\ q[3] <= q[4] - 1 /\ q[4] <= q[5] - 1
        /\ q[1] \in Nat /\ q[2] \in Nat /\ q[3] \in Nat /\ q[4] \in Nat /\ q[5] \in Nat
    BY <1>7, <2>1
  <2>3. /\ q[1] \in 0 .. L /\ q[2] \in 0 .. L /\ q[3] \in 0 .. L /\ q[4] \in 0 .. L
        /\ q[2] - 1 \in 0 .. L /\ q[3] - 1 \in 0 .. L /\ q[4] - 1 \in 0 .. L /\ q[5] - 1 \in 0 .. L
    BY <1>2, <1>6, <2>2
  <2> QED BY <2>1, <2>3
<1> DEFINE piece(j) == IF q[j + 1] - 1 = q[j] THEN <<>> ELSE <<Number(r.ip[j])>>
<1>9. \A j \in 1 .. 4 : piece(j) \in Piece(j)
  BY <1>7
<1>10. ASSUME NEW j \in 1 .. 4
       PROVE  SubSeq(text, 1, q[j]) \o piece(j) = SubSeq(text, 1, q[j + 1] - 1)
  <2>1. q[j] \in 0 .. L /\ SubSeq(text, 1, q[j]) \in Seq(Token)
    <3>1. q[j] \in 0 .. L
      BY <1>8
    <3>2. q[j] \in Int /\ \A k \in 1 .. q[j] : text[k] \in Token
      BY <1>2, <3>1 DEF L
    <3> QED BY <3>1, <3>2, SubSeqProperties
  <2>2. CASE q[j + 1] - 1 = q[j]
    BY <2>1, <2>2, ConcatEmptySeq
  <2>3. CASE q[j + 1] - 1 # q[j]
    <3> DEFINE n == q[j + 1] - 1
    <3>1. n = q[j] + 1 /\ str[n] = Number(r.ip[j]) /\ n \in 1 .. L
      <4>1. n = q[j] + 1 /\ str[n] = Number(r.ip[j])
        BY <1>7, <2>3
      <4> QED BY <1>7, <1>8, <4>1
    <3>2. text[n] = Number(r.ip[j]) /\ n - 1 = q[j]
      <4>1. text[n] = str[n]
        BY <1>2, <3>1
      <4> QED BY <1>7, <3>1, <4>1
    <3>3. SubSeq(text, 1, n) = SubSeq(text, 1, n - 1) \o <<text[n]>>
      <4>1. 1 \in 1 .. Len(text) /\ n \in 1 .. Len(text)
        BY <1>2, <3>1 DEF L
      <4> HIDE DEF n
      <4> QED BY <1>2, <4>1, SubSeqRecursiveSecond
    <3> QED BY <2>3, <3>2, <3>3
  <2> QED BY <2>2, <2>3
<1>11. ASSUME NEW j \in 1 .. 3
       PROVE  SubSeq(text, 1, q[j + 1] - 1) \o <<Dot>> = SubSeq(text, 1, q[j + 1])
  <2>1. q[j + 1] \in 1 .. L
    <3>1. j + 1 \in 1 .. 4 /\ j \in 1 .. 4
      OBVIOUS
    <3>2. q[j + 1] \in 0 .. L
      BY <1>8, <3>1
    <3>3. q[j + 1] # 0
      BY <1>6, <3>1
    <3> QED BY <1>2, <3>2, <3>3
  <2>2. text[q[j + 1]] = Dot
    <3>1. j \in 1 .. 4 /\ j < 4
      OBVIOUS
    <3> QED BY <1>2, <1>6, <2>1, <3>1
  <2>3. 1 \in 1 .. Len(text) /\ q[j + 1] \in 1 .. Len(text)
    BY <1>2, <2>1 DEF L
  <2> QED BY <1>2, <2>2, <2>3, SubSeqRecursiveSecond
<1>12. SubSeq(text, 1, q[1]) \o piece(1) = piece(1)
  <2>1. SubSeq(text, 1, 0) = <<>>
    BY SubSeqEmpty
  <2>2. piece(1) \in Seq({Number(r.ip[1])})
    <3>1. <<Number(r.ip[1])>> \in Seq({Number(r.ip[1])}) /\ <<>> \in Seq({Number(r.ip[1])})
      OBVIOUS
    <3> QED BY <3>1
  <2> QED BY <1>6, <2>1, <2>2, ConcatEmptySeq
<1> HIDE DEF piece
<1> DEFINE a == piece(1)
           b == piece(2)
           c == piece(3)
           d == piece(4)
<1>20. /\ SubSeq(text, 1, q[1]) \o a = SubSeq(text, 1, q[2] - 1)
       /\ SubSeq(text, 1, q[2]) \o b = SubSeq(text, 1, q[3] - 1)
       /\ SubSeq(text, 1, q[3]) \o c = SubSeq(text, 1, q[4] - 1)
       /\ SubSeq(text, 1, q[4]) \o d = SubSeq(text, 1, q[5] - 1)
  <2>1. 1 + 1 = 2 /\ 2 + 1 = 3 /\ 3 + 1 = 4 /\ 4 + 1 = 5
    OBVIOUS
  <2>2. 1 \in 1 .. 4 /\ 2 \in 1 .. 4 /\ 3 \in 1 .. 4 /\ 4 \in 1 .. 4
    OBVIOUS
  <2> QED BY <1>10, <2>1, <2>2, Zenon
<1>21. /\ SubSeq(text, 1, q[2] - 1) \o <<Dot>> = SubSeq(text, 1, q[2])
       /\ SubSeq(text, 1, q[3] - 1) \o <<Dot>> = SubSeq(text, 1, q[3])
       /\ SubSeq(text, 1, q[4] - 1) \o <<Dot>> = SubSeq(text, 1, q[4])
  <2>1. 1 + 1 = 2 /\ 2 + 1 = 3 /\ 3 + 1 = 4
    OBVIOUS
  <2>2. 1 \in 1 .. 3 /\ 2 \in 1 .. 3 /\ 3 \in 1 .. 3
    OBVIOUS
  <2> QED BY <1>11, <2>1, <2>2, Zenon
<1>13. a \o <<Dot>> = SubSeq(text, 1, q[2])
  BY <1>12, <1>20, <1>21
<1>14. a \o <<Dot>> \o b \o <<Dot>> = SubSeq(text, 1, q[3])
  BY <1>13, <1>20, <1>21
<1>15. a \o <<Dot>> \o b \o <<Dot>> \o c \o <<Dot>> = SubSeq(text, 1, q[4])
  BY <1>14, <1>20, <1>21
<1>16. a \o <<Dot>> \o b \o <<Dot>> \o c \o <<Dot>> \o d = SubSeq(text, 1, q[5] - 1)
  BY <1>15, <1>20
<1>17. IsPrefix(SubSeq(text, 1, q[5] - 1), text)
  <2> DEFINE m == q[5] - 1
             p == SubSeq(text, 1, m)
  <2>1. m \in 0 .. Len(text) /\ m \in Int
    <3>1. 4 \in 1 .. 4 /\ 4 + 1 = 5
      OBVIOUS
    <3>2. q[5] - 1 \in 0 .. L
      BY <1>8, <3>1, Zenon
    <3> QED BY <1>2, <3>2 DEF L
  <2> HIDE DEF m
  <2>2. p \in Seq(Token) /\ Len(p) = m
    <3>1. \A k \in 1 .. m : text[k] \in Token
      BY <1>2, <2>1
    <3> QED BY <2>1, <3>1, SubSeqProperties
  <2> HIDE DEF p
  <2>3. SubSeq(p, 1, Len(p)) = p
    BY <2>2, SubSeqFull
  <2>4. SubSeq(text, 1, Len(p)) = p /\ Len(p) <= Len(text)
    BY <1>2, <2>1, <2>2 DEF p
  <2>5. IsPrefix(p, text)
    BY <2>3, <2>4 DEF IsPrefix
  <2> QED BY <2>5 DEF p, m
<1>18. a \in Piece(1) /\ b \in Piece(2) /\ c \in Piece(3) /\ d \in Piece(4)
  BY <1>9
<1>19. IsPrefix(a \o <<Dot>> \o b \o <<Dot>> \o c \o <<Dot>> \o d, text)
  BY <1>16, <1>17
<1> HIDE DEF a, b, c, d, Piece
<1>22. \E aa \in Piece(1), bb \in Piece(2), cc \in Piece(3), dd \in Piece(4) :
          /\ IsPrefix(aa \o <<Dot>> \o bb \o <<Dot>> \o cc \o <<Dot>> \o dd, text)
          /\ \A k \in 1 .. 4 : r.ip[k] < 256
  BY <1>5, <1>18, <1>19
<1> QED BY <1>22 DEF Piece, r

LEMMA AddressFound == TextType => AddressRead
BY AddressTaken, AddressBegins DEF AddressRead


-------------------------------------------------------------------------------
(* http_post(), from the places of the first slash and the first colon.    *)

LEMMA SmallestOf ==
    ASSUME NEW T, T \subseteq Nat, T # {}
    PROVE  \E n \in T : \A m \in T : n <= m
<1> DEFINE R == {p \in Nat \X Nat : p[1] < p[2]}
<1>1. PICK x \in T : \A y \in T : ~(<<y, x>> \in R)
  BY LessNat, WFMin
<1>2. ASSUME NEW y \in T PROVE x <= y
  <2>1. ~(<<y, x>> \in R) /\ x \in Nat /\ y \in Nat
    BY <1>1
  <2>2. ~(y < x)
    BY <2>1, Zenon
  <2> QED BY <2>1, <2>2
<1> QED BY <1>2

LEMMA FirstIs ==
    ASSUME NEW url \in Seq(Token), NEW sign \in Token
    PROVE  LET n == First(url, sign)
           IN  /\ n \in 1 .. Len(url) + 1 /\ \A j \in 1 .. n - 1 : url[j] # sign
               /\ n <= Len(url) => url[n] = sign
<1> DEFINE s == Append(url, sign)
           I == {i \in 1 .. Len(s) : s[i] = sign}
           n == First(url, sign)
<1>1. /\ Len(s) = Len(url) + 1 /\ s[Len(url) + 1] = sign /\ Len(url) \in Nat
      /\ \A i \in 1 .. Len(url) : s[i] = url[i]
  OBVIOUS
<1> HIDE DEF s
<1>2. Len(url) + 1 \in I
  BY <1>1
<1>3. n = Min(I)
  BY <1>2 DEF First, SelectInSeq, s
<1>4. \E i \in I : \A j \in I : i <= j
  <2>1. I \subseteq Nat /\ I # {}
    BY <1>2
  <2> HIDE DEF I
  <2> QED BY <2>1, SmallestOf
<1>5. n \in I /\ \A j \in I : n <= j
  <2> HIDE DEF I
  <2> QED BY <1>3, <1>4 DEF Min
<1> HIDE DEF n
<1>6. n \in 1 .. Len(url) + 1 /\ s[n] = sign
  BY <1>1, <1>5
<1>7. ASSUME NEW j \in 1 .. n - 1 PROVE url[j] # sign
  <2>1. j \in 1 .. Len(url) /\ j \in 1 .. Len(s) /\ ~(n <= j)
    BY <1>1, <1>6
  <2>2. s[j] # sign
    BY <1>5, <2>1
  <2> QED BY <1>1, <2>1, <2>2
<1>8. n <= Len(url) => url[n] = sign
  BY <1>1, <1>6
<1> QED BY <1>6, <1>7, <1>8 DEF n

LEMMA CutOfTail ==
    ASSUME NEW T, NEW s \in Seq(T), s # <<>>, NEW m \in 1 .. Len(s), NEW n \in 0 .. Len(s) - 1
    PROVE  SubSeq(Tail(s), m, n) = SubSeq(s, m + 1, n + 1)
<1>1. /\ Tail(s) \in Seq(T) /\ Len(Tail(s)) = Len(s) - 1
      /\ \A i \in 1 .. Len(Tail(s)) : Tail(s)[i] = s[i + 1]
  BY HeadTailProperties
<1> DEFINE a == SubSeq(Tail(s), m, n)
           b == SubSeq(s, m + 1, n + 1)
<1>2. Len(s) \in Nat /\ m \in Nat /\ n \in Nat /\ n <= Len(s) - 1 /\ 1 <= m
  OBVIOUS
<1>3. \A i \in m .. n : Tail(s)[i] \in T /\ Tail(s)[i] = s[i + 1]
  BY <1>1, <1>2
<1>4. \A i \in m + 1 .. n + 1 : s[i] \in T
  BY <1>2
<1>5. a \in Seq(T) /\ Len(a) = (IF m <= n THEN n - m + 1 ELSE 0)
      /\ \A i \in 1 .. n - m + 1 : a[i] = Tail(s)[m + i - 1]
  BY <1>2, <1>3, SubSeqProperties
<1>6. b \in Seq(T) /\ Len(b) = (IF m + 1 <= n + 1 THEN (n + 1) - (m + 1) + 1 ELSE 0)
      /\ \A i \in 1 .. (n + 1) - (m + 1) + 1 : b[i] = s[(m + 1) + i - 1]
  BY <1>2, <1>4, SubSeqProperties
<1> HIDE DEF a, b
<1>7. Len(a) = Len(b)
  BY <1>2, <1>5, <1>6
<1>8. ASSUME NEW i \in 1 .. Len(a) PROVE a[i] = b[i]
  <2>1. i \in 1 .. n - m + 1 /\ i \in 1 .. (n + 1) - (m + 1) + 1 /\ m + i - 1 \in m .. n
    BY <1>2, <1>5
  <2>2. (m + 1) + i - 1 = (m + i - 1) + 1
    BY <1>2, <2>1
  <2>3. a[i] = Tail(s)[m + i - 1] /\ Tail(s)[m + i - 1] = s[(m + i - 1) + 1]
    BY <1>3, <1>5, <2>1
  <2>4. b[i] = s[(m + 1) + i - 1]
    BY <1>6, <2>1
  <2> QED BY <2>2, <2>3, <2>4
<1>9. a = b
  BY <1>5, <1>6, <1>7, <1>8, SeqEqual
<1> QED BY <1>9 DEF a, b

LEMMA PartsOfUrl ==
    ASSUME TextType, NEW r \in http_post(text)
    PROVE  \E path \in {r.path, <<>>} :
             LET portText == SubSeq(text, 2 + Len(r.hostname), Len(text) - Len(path))
             IN  /\ text = <<HTTP>> \o r.hostname \o portText \o path
                 /\ path = <<>> => r.path = <<Slash>>
                 /\ r.path[1] = Slash
                 /\ {Slash, Colon} \cap ToSet(r.hostname) = {} /\ Slash \notin ToSet(portText)
                 /\ \/ portText = <<>> /\ r.port = 80
                    \/ IsPrefix(<<Colon, Number(r.port)>>, portText)
<1> DEFINE url == Tail(text)
           L == Len(text)
           F == First(url, Slash)
           C == First(url, Colon)
           H == IF ColonAt(url) = 0 THEN F ELSE ColonAt(url)
           port == IF ColonAt(url) = 0 THEN 80 ELSE Atoi(url, ColonAt(url) + 1)
           path == SubSeq(url, F, Len(url))
           host == SubSeq(url, 1, H - 1)
<1>1. text # <<>> /\ Head(text) = HTTP /\ port # 0 /\ text \in Seq(Token)
      /\ r.hostname = host /\ r.port = port /\ r.path = IF path = <<>> THEN <<Slash>> ELSE path
  <2> DEFINE q == [hostname |-> host, port |-> port, path |-> IF path = <<>> THEN <<Slash>> ELSE path]
  <2>1. http_post(text) = IF text = <<>> \/ Head(text) # HTTP THEN {} ELSE IF port = 0 THEN {} ELSE {q}
    BY Zenon DEF http_post
  <2> HIDE DEF q, port, host, path
  <2>2. text # <<>> /\ Head(text) = HTTP /\ port # 0 /\ r = q
    BY <2>1
  <2>3. r.hostname = host /\ r.port = port /\ r.path = IF path = <<>> THEN <<Slash>> ELSE path
    BY <2>2 DEF q
  <2> QED BY <2>2, <2>3 DEF TextType, port, host, path
<1>2. /\ url \in Seq(Token) /\ Len(url) = L - 1 /\ \A i \in 1 .. L - 1 : url[i] = text[i + 1]
      /\ text[1] = HTTP /\ L \in Nat \ {0}
  BY <1>1, HeadTailProperties
<1>3. Slash \in Token /\ Colon \in Token
  BY DEF Token
<1>4. F \in 1 .. L /\ (\A j \in 1 .. F - 1 : url[j] # Slash) /\ (F <= L - 1 => url[F] = Slash)
  <2> HIDE DEF url, L
  <2>1. F \in 1 .. Len(url) + 1 /\ (\A j \in 1 .. F - 1 : url[j] # Slash) /\ (F <= Len(url) => url[F] = Slash)
    BY <1>2, <1>3, FirstIs
  <2> QED BY <1>2, <2>1
<1>5. C \in 1 .. L /\ (\A j \in 1 .. C - 1 : url[j] # Colon) /\ (C <= L - 1 => url[C] = Colon)
  <2> HIDE DEF url, L
  <2>1. C \in 1 .. Len(url) + 1 /\ (\A j \in 1 .. C - 1 : url[j] # Colon) /\ (C <= Len(url) => url[C] = Colon)
    BY <1>2, <1>3, FirstIs
  <2> QED BY <1>2, <2>1
<1>6. ColonAt(url) = IF C < F /\ C <= L - 1 THEN C ELSE 0
  BY <1>2 DEF ColonAt
<1>7. path = SubSeq(text, F + 1, L)
  <2>1. F \in 1 .. Len(text) /\ L - 1 \in 0 .. Len(text) - 1 /\ (L - 1) + 1 = L
    BY <1>2, <1>4
  <2> QED BY <1>1, <1>2, <2>1, CutOfTail
<1> HIDE DEF F, C
<1>8. H \in 1 .. F /\ H <= C
  BY <1>2, <1>4, <1>5, <1>6
<1>9. host = SubSeq(text, 2, H)
  <2>1. 1 \in 1 .. Len(text) /\ H - 1 \in 0 .. Len(text) - 1 /\ (H - 1) + 1 = H /\ 1 + 1 = 2
    BY <1>2, <1>4, <1>8
  <2> HIDE DEF H
  <2> QED BY <1>1, <2>1, CutOfTail
<1> HIDE DEF path, host, H, url, L, port
<1>10. Len(host) = H - 1 /\ \A i \in 1 .. H - 1 : host[i] = url[i]
  <2>1. H \in Int /\ 2 \in Int /\ \A i \in 2 .. H : text[i] \in Token
    BY <1>1, <1>2, <1>4, <1>8 DEF L
  <2>2. Len(host) = (IF 2 <= H THEN H - 2 + 1 ELSE 0) /\ \A i \in 1 .. H - 2 + 1 : host[i] = text[2 + i - 1]
    BY <1>9, <2>1, SubSeqProperties
  <2>3. Len(host) = H - 1
    BY <1>4, <1>8, <2>2
  <2>4. ASSUME NEW i \in 1 .. H - 1 PROVE host[i] = url[i]
    <3>1. i \in 1 .. H - 2 + 1 /\ 2 + i - 1 = i + 1 /\ i \in 1 .. L - 1
      BY <1>2, <1>4, <1>8
    <3> QED BY <1>2, <2>2, <3>1
  <2> QED BY <2>3, <2>4
<1>11. Len(path) = L - F /\ (F <= L - 1 => path[1] = Slash)
  <2>1. F + 1 \in Int /\ L \in Int /\ \A i \in F + 1 .. L : text[i] \in Token
    BY <1>1, <1>2, <1>4 DEF L
  <2>2. Len(path) = (IF F + 1 <= L THEN L - (F + 1) + 1 ELSE 0)
        /\ \A i \in 1 .. L - (F + 1) + 1 : path[i] = text[(F + 1) + i - 1]
    BY <1>7, <2>1, SubSeqProperties
  <2>3. Len(path) = L - F
    BY <1>2, <1>4, <2>2
  <2>4. ASSUME F <= L - 1 PROVE path[1] = Slash
    <3>1. 1 \in 1 .. L - (F + 1) + 1 /\ (F + 1) + 1 - 1 = F + 1 /\ F \in 1 .. L - 1
      BY <1>2, <1>4, <2>4
    <3>2. path[1] = text[F + 1]
      BY <2>2, <3>1
    <3> QED BY <1>2, <1>4, <2>4, <3>1, <3>2
  <2> QED BY <2>3, <2>4
<1> DEFINE portText == SubSeq(text, 2 + Len(host), L - Len(path))
<1>12. portText = SubSeq(text, H + 1, F)
  <2>1. 2 + Len(host) = H + 1 /\ L - Len(path) = F
    BY <1>2, <1>4, <1>8, <1>10, <1>11
  <2> QED BY <2>1
<1> HIDE DEF portText
<1>13. Len(portText) = F - H /\ portText \in Seq(Token)
       /\ \A i \in 1 .. F - H : portText[i] = url[H + i - 1]
  <2>1. H + 1 \in Int /\ F \in Int /\ \A i \in H + 1 .. F : text[i] \in Token
    BY <1>1, <1>2, <1>4, <1>8 DEF L
  <2>2. Len(portText) = (IF H + 1 <= F THEN F - (H + 1) + 1 ELSE 0) /\ portText \in Seq(Token)
        /\ \A i \in 1 .. F - (H + 1) + 1 : portText[i] = text[(H + 1) + i - 1]
    BY <1>12, <2>1, SubSeqProperties
  <2>3. Len(portText) = F - H
    BY <1>4, <1>8, <2>2
  <2>4. ASSUME NEW i \in 1 .. F - H PROVE portText[i] = url[H + i - 1]
    <3>1. i \in 1 .. F - (H + 1) + 1 /\ (H + 1) + i - 1 = (H + i - 1) + 1 /\ H + i - 1 \in 1 .. L - 1
      BY <1>2, <1>4, <1>8
    <3> QED BY <1>2, <2>2, <3>1
  <2> QED BY <2>2, <2>3, <2>4
<1>14. text = <<HTTP>> \o host \o portText \o path
  <2>1. 1 \in 1 .. Len(text) + 1 /\ 1 \in 0 .. Len(text) /\ H \in 1 .. Len(text) /\ F \in H .. Len(text)
        /\ Len(text) \in F .. Len(text) /\ F \in 0 .. Len(text) /\ H \in 0 .. Len(text)
    BY <1>2, <1>4, <1>8 DEF L
  <2>2. <<HTTP>> = SubSeq(text, 1, 1)
    <3>1. 1 \in 1 .. Len(text) /\ SubSeq(text, 1, 0) = <<>>
      BY <2>1, SubSeqEmpty
    <3>2. SubSeq(text, 1, 1) = SubSeq(text, 1, 1 - 1) \o <<text[1]>>
      BY <1>1, <3>1, SubSeqRecursiveSecond
    <3>3. <<>> \o <<HTTP>> = <<HTTP>>
      OBVIOUS
    <3> QED BY <1>2, <3>1, <3>2, <3>3
  <2>3. SubSeq(text, 1, 1) \o SubSeq(text, 2, H) = SubSeq(text, 1, H)
    <3>1. 1 \in 1 - 1 .. Len(text) /\ 1 + 1 = 2
      BY <2>1
    <3> QED BY <1>1, <2>1, <3>1, ConcatAdjacentSubSeq
  <2>4. SubSeq(text, 1, H) \o SubSeq(text, H + 1, F) = SubSeq(text, 1, F)
    <3>1. H \in 1 - 1 .. Len(text)
      BY <2>1
    <3> QED BY <1>1, <2>1, <3>1, ConcatAdjacentSubSeq
  <2>5. SubSeq(text, 1, F) \o SubSeq(text, F + 1, Len(text)) = SubSeq(text, 1, Len(text))
    <3>1. F \in 1 - 1 .. Len(text)
      BY <2>1
    <3> QED BY <1>1, <2>1, <3>1, ConcatAdjacentSubSeq
  <2>6. SubSeq(text, 1, Len(text)) = text
    BY <1>1, SubSeqFull
  <2> QED BY <1>7, <1>9, <1>12, <2>2, <2>3, <2>4, <2>5, <2>6 DEF L
<1>15. path = <<>> => r.path = <<Slash>>
  BY <1>1
<1>16. r.path[1] = Slash
  <2>1. CASE path = <<>>
    BY <1>15, <2>1
  <2>2. CASE path # <<>>
    <3>1. F <= L - 1
      <4>1. SUFFICES ASSUME F = L PROVE FALSE
        BY <1>2, <1>4
      <4>2. path = <<>>
        BY <1>2, <1>4, <1>7, <4>1, SubSeqEmpty
      <4> QED BY <2>2, <4>2
    <3> QED BY <1>1, <1>11, <2>2, <3>1
  <2> QED BY <2>1, <2>2
<1>17. {Slash, Colon} \cap ToSet(host) = {}
  <2> SUFFICES ASSUME NEW i \in DOMAIN host PROVE host[i] \notin {Slash, Colon}
    BY DEF ToSet
  <2>1. i \in 1 .. H - 1
    <3>1. H \in Int /\ 2 \in Int /\ \A k \in 2 .. H : text[k] \in Token
      BY <1>1, <1>2, <1>4, <1>8 DEF L
    <3>2. host \in Seq(Token)
      BY <1>9, <3>1, SubSeqProperties
    <3> QED BY <1>10, <3>2
  <2>2. i \in 1 .. F - 1 /\ i \in 1 .. C - 1
    BY <1>4, <1>5, <1>8, <2>1
  <2> QED BY <1>4, <1>5, <1>10, <2>1, <2>2
<1>18. Slash \notin ToSet(portText)
  <2> SUFFICES ASSUME NEW i \in DOMAIN portText PROVE portText[i] # Slash
    BY DEF ToSet
  <2>1. i \in 1 .. F - H
    BY <1>13
  <2>2. H + i - 1 \in 1 .. F - 1
    BY <1>4, <1>8, <2>1
  <2> QED BY <1>4, <1>13, <2>1, <2>2
<1>19. \/ portText = <<>> /\ r.port = 80
       \/ IsPrefix(<<Colon, Number(r.port)>>, portText)
  <2>1. CASE ColonAt(url) = 0
    <3>1. H = F /\ port = 80
      BY <2>1 DEF H, port
    <3>2. portText = <<>>
      BY <1>4, <1>12, <3>1, SubSeqEmpty
    <3> QED BY <1>1, <3>1, <3>2
  <2>2. CASE ColonAt(url) # 0
    <3>1. H = C /\ C < F /\ C <= L - 1 /\ port = Atoi(url, C + 1) /\ ColonAt(url) = C
      BY <1>6, <2>2 DEF H, port
    <3>2. C + 1 <= L - 1 /\ IsNumber(url[C + 1]) /\ url[C + 1].value = port
      BY <1>1, <1>2, <3>1 DEF Atoi
    <3>3. C \in 1 .. L - 1 /\ C + 1 \in 1 .. L - 1 /\ C + 1 \in 1 .. Len(url)
      BY <1>2, <1>5, <3>1, <3>2
    <3>4. url[C + 1] = Number(port) /\ url[C] = Colon
      <4>1. url[C + 1] \in Token
        BY <1>2, <3>3
      <4> QED BY <1>5, <3>1, <3>2, <4>1, TokenIs
    <3>5. C + 1 # F
      <4>1. SUFFICES ASSUME C + 1 = F PROVE FALSE
        OBVIOUS
      <4>2. url[C + 1] = Slash
        BY <1>4, <3>2, <4>1
      <4>3. ~IsNumber(Slash)
        BY <1>3, TokenIs
      <4> QED BY <3>2, <4>2, <4>3
    <3>6. 2 <= F - H /\ 1 \in 1 .. F - H /\ 2 \in 1 .. F - H /\ H + 1 - 1 = C /\ H + 2 - 1 = C + 1
      BY <1>4, <1>5, <3>1, <3>5
    <3>7. portText[1] = Colon /\ portText[2] = Number(port)
      BY <1>13, <3>4, <3>6
    <3> DEFINE p == <<Colon, Number(port)>>
    <3>8. p \in Seq({Colon, Number(port)}) /\ Len(p) = 2 /\ p[1] = Colon /\ p[2] = Number(port)
      OBVIOUS
    <3> HIDE DEF p
    <3>9. SubSeq(p, 1, 2) = p
      BY <3>8, SubSeqFull
    <3>10. SubSeq(portText, 1, 2) = p
      <4> DEFINE c == SubSeq(portText, 1, 2)
      <4>1. 1 \in Int /\ 2 \in Int /\ \A i \in 1 .. 2 : portText[i] \in {Colon, Number(port)}
        BY <3>7
      <4>2. c \in Seq({Colon, Number(port)}) /\ Len(c) = (IF 1 <= 2 THEN 2 - 1 + 1 ELSE 0)
            /\ \A i \in 1 .. 2 - 1 + 1 : c[i] = portText[1 + i - 1]
        BY <4>1, SubSeqProperties
      <4> HIDE DEF c
      <4>3. Len(c) = 2 /\ c[1] = portText[1] /\ c[2] = portText[2]
        BY <4>2
      <4>4. \A i \in 1 .. Len(c) : c[i] = p[i]
        BY <3>7, <3>8, <4>3
      <4>5. c = p
        BY <3>8, <4>2, <4>3, <4>4, SeqEqual
      <4> QED BY <4>5 DEF c
    <3>11. IsPrefix(p, portText)
      BY <1>13, <3>6, <3>8, <3>9, <3>10 DEF IsPrefix
    <3> QED BY <1>1, <3>11 DEF p
  <2> QED BY <2>1, <2>2
<1>20. path \in {r.path, <<>>}
  BY <1>1
<1> QED BY <1>1, <1>14, <1>15, <1>16, <1>17, <1>18, <1>19, <1>20 DEF portText, L

LEMMA UrlTaken == TextType => UrlRead
BY PartsOfUrl DEF UrlRead

LEMMA TempText == TextType => TempShown
<1> SUFFICES ASSUME TextType, temp >= 0
             PROVE  LET s == temp_to_string(temp)
                    IN  s.sign = "+" /\ s.Fract \in 0 .. 99 /\ 100 * s.Whole + s.Fract = (temp * 100) \div 16
  BY DEF TempShown
<1> DEFINE a == temp \div 16
           b == temp % 16
           f == (b * 100) \div 16
<1>1. temp \in Nat
  BY DEF TextType
<1>2. a \in Nat /\ b \in 0 .. 15 /\ temp = 16 * a + b
  BY <1>1
<1> HIDE DEF a, b
<1>3. f \in 0 .. 99 /\ 16 * f <= b * 100 /\ b * 100 < 16 * f + 16
  BY <1>2
<1> HIDE DEF f
<1>4. (temp * 100) \div 16 = 100 * a + f
  BY <1>1, <1>2, <1>3
<1>5. temp_to_string(temp) = [sign |-> "+", Whole |-> a, Fract |-> f]
  BY <1>1 DEF temp_to_string, a, b, f
<1> QED BY <1>3, <1>4, <1>5

(* TextsConverted, for texts of any length and any temperature: four bytes *)
(* with dots between them are taken for an address and whatever is taken   *)
(* for one by UTILS_StrToIP() begins with its bytes, http_post() requests  *)
(* what the URL says, and temp_to_string() shows a temperature from 0 on   *)
(* rounded down to hundredths.                                             *)
THEOREM AlwaysConverted == TextSpec => []TextsConverted
<1>1. TextType => TextsConverted
  BY AddressFound, UrlTaken, TempText DEF TextsConverted
<1> QED BY <1>1, TextTyped, PTL
===============================================================================
