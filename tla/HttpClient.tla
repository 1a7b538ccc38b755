------------------------------ MODULE HttpClient ------------------------------
(***************************************************************************)
(* The HTTP client of user/httpclient.c, which uploads the temperature     *)
(* once a minute: the life of a request from http_raw_request() to the     *)
(* user callback, with the heap objects it owns.  Requests share nothing   *)
(* but the heap, and a slow one may overlap the next.                      *)
(*                                                                         *)
(* The resolver, the TCP stack and the server are external: they call each *)
(* callback in the order TCP allows and may fail at any point.  The only   *)
(* allocation that may fail is the one receive_callback() checks, of the   *)
(* buffer of the response: http_raw_request() and dns_callback() use what  *)
(* os_malloc() returns as it is, and are assumed to get what they ask for. *)
(***************************************************************************)
EXTENDS Integers, Sequences

CONSTANTS
    Request,        \* requests that may be under way
    MaxBuffer,      \* segments of a response that fit, BUFFER_SIZE_MAX
    MaxSegments     \* bound: segments the server sends

ASSUME ResponseAssumption == MaxBuffer \in Nat /\ MaxSegments \in Nat

Object == {"req", "hostname", "path", "post_data", "buffer", "conn", "tcp"}
GENERIC_ERROR == -1
OK == 200

VARIABLE http       \* of each request:
    (* phase       how far it is                                           *)
    (* heap        its objects that are allocated                          *)
    (* text        segments in req->buffer, "head" starts a status line    *)
    (* cut         req->buffer[0] was set to 0 since                       *)
    (* segments    segments the server has sent                            *)
    (* calls       calls of the user callback                              *)
    (* status      http_status passed to it                                *)
    (* broken      history: the connection or the query failed             *)
    (* discarded   history: a part of the response was dropped             *)
    (* fault       history: an object was used or freed twice              *)

Unused == [phase |-> "none", heap |-> {}, text |-> <<>>, cut |-> FALSE, segments |-> 0,
           calls |-> 0, status |-> 0, broken |-> FALSE, discarded |-> FALSE, fault |-> FALSE]

HInit == http = [r \in Request |-> Unused]

Uses(q, objects) == [q EXCEPT !.fault = @ \/ ~(objects \subseteq q.heap)]
Frees(q, objects) == [Uses(q, objects) EXCEPT !.heap = @ \ objects]
Becomes(r, q) == http' = [http EXCEPT ![r] = q]

(* A GET has no post_data.  A name that is known, or an error, makes       *)
(* dns_callback() run at once: the next action of this request either way. *)
http_raw_request(r, post) ==
    /\ http[r].phase = "none"
    /\ Becomes(r, [Unused EXCEPT !.phase = "resolving",
                       !.heap = {"req", "hostname", "path", "buffer"}
                                \cup IF post THEN {"post_data"} ELSE {}])

(* The callback is optional; the one here is there. *)
UserCallback(q, status) == [q EXCEPT !.calls = @ + 1, !.status = status]

(* A failed query frees the request but none of its strings. *)
dns_callback(r, found) ==
    LET q == http[r]
    IN  /\ q.phase = "resolving"
        /\ Becomes(r, IF found
                      THEN [Uses(q, {"req"}) EXCEPT !.phase = "connecting",
                                                    !.heap = @ \cup {"conn", "tcp"}]
                      ELSE [Frees(UserCallback(q, GENERIC_ERROR), {"req"})
                               EXCEPT !.phase = "done", !.broken = TRUE])

connect_callback(r) ==
    /\ http[r].phase = "connecting"
    /\ Becomes(r, [Uses(http[r], {"conn", "req", "path", "hostname"}) EXCEPT !.phase = "open"])

(* The header, then the body are acknowledged. *)
sent_callback(r) ==
    LET q == http[r]
    IN  /\ q.phase \in {"open", "closing"}
        /\ Becomes(r, IF "post_data" \in q.heap
                      THEN Frees(Uses(q, {"conn", "req"}), {"post_data"})
                      ELSE Uses(q, {"conn", "req"}))

(* Mutants: the buffer is freed, or left as it is. *)
Discard_free(q) == [Frees(q, {"buffer"}) EXCEPT !.discarded = TRUE, !.phase = "closing"]
Discard_keep(q) == [q EXCEPT !.discarded = TRUE, !.phase = "closing"]
Discard(q) == [q EXCEPT !.cut = TRUE, !.discarded = TRUE, !.phase = "closing"]

(* A segment is appended; one that does not fit, or finds no memory, ends  *)
(* the connection and marks the buffer empty.  More segments may come in   *)
(* before the connection is closed.                                        *)
receive_callback(r, allocated) ==
    LET q == Uses(http[r], {"conn", "req", "buffer"})
        segment == IF q.segments = 0 THEN "head" ELSE "rest"
        fits == Len(q.text) < MaxBuffer /\ allocated
    IN  /\ q.phase \in {"open", "closing"} /\ q.segments < MaxSegments
        /\ Becomes(r, IF fits
                      THEN [q EXCEPT !.segments = @ + 1, !.text = Append(@, segment),
                                     !.cut = @ /\ q.text # <<>>]
                      ELSE Discard([q EXCEPT !.segments = @ + 1]))

Status(q) == IF q.text # <<>> /\ ~q.cut /\ q.text[1] = "head" THEN OK ELSE GENERIC_ERROR

Owned == {"tcp", "buffer", "hostname", "path", "req", "conn"}

disconnect_callback(r, broken) ==
    LET q == Uses(http[r], {"conn", "tcp", "req", "buffer"})
        told == UserCallback(q, Status(q))
    IN  Becomes(r, [Frees(told, Owned)
                       EXCEPT !.phase = "done", !.broken = broken])

Closed(r) == http[r].phase \in {"open", "closing"} /\ disconnect_callback(r, FALSE)

(* Mutant: the error is only printed. *)
error_callback_silent(r) ==
    http[r].phase \in {"connecting", "open", "closing"} /\ Becomes(r, [http[r] EXCEPT !.phase = "lost"])
error_callback(r) ==
    http[r].phase \in {"connecting", "open", "closing"} /\ disconnect_callback(r, TRUE)

(* The next upload. *)
Again(r) == http[r].phase = "done" /\ Becomes(r, Unused)

HNext == \E r \in Request :
    \/ \E yes \in BOOLEAN : \/ http_raw_request(r, yes)
                            \/ dns_callback(r, yes)
                            \/ receive_callback(r, yes)
    \/ connect_callback(r) \/ sent_callback(r)
    \/ Closed(r) \/ error_callback(r) \/ Again(r)

HSpec == HInit /\ [][HNext]_http

(* Queries and connections come to an end. *)
HFairSpec ==
    /\ HSpec
    /\ \A r \in Request : /\ WF_http(\E found \in BOOLEAN : dns_callback(r, found))
                          /\ WF_http(connect_callback(r) \/ error_callback(r))
                          /\ WF_http(Closed(r) \/ error_callback(r))

-------------------------------------------------------------------------------
(* Properties. *)

(* No callback touches or frees an object the request no longer owns.      *)
NoDanglingRequest == \A r \in Request : ~http[r].fault

(* The user callback is called once, when the request is over.             *)
OneCallback == \A r \in Request : http[r].calls = IF http[r].phase = "done" THEN 1 ELSE 0

(* A request whose body went out leaves nothing on the heap, however its   *)
(* connection ended; only a failed query or an early end loses strings.    *)
NothingLeft == \A r \in Request :
    http[r].phase = "done" /\ http[r].heap # {} =>
        \/ http[r].heap = {"post_data"}
        \/ http[r].broken /\ "buffer" \in http[r].heap

(* The two together: each object is freed once, and not before its end. *)
HeapSound == NoDanglingRequest /\ NothingLeft

(* A response that was cut short by the buffer limit or by lack of memory  *)
(* is never reported as a success, even if segments kept coming in.        *)
DiscardedNotSuccess == \A r \in Request :
    http[r].phase = "done" /\ http[r].discarded => http[r].status = GENERIC_ERROR

(* The two together: one answer, and no wrong success. *)
AnsweredOnce == OneCallback /\ DiscardedNotSuccess

(* Every request comes to its callback. *)
EveryRequestAnswered == \A r \in Request :
    http[r].phase \notin {"none", "done"} ~> http[r].phase = "done"

(* "In case of TCP or DNS error the callback is called with this status",  *)
(* httpclient.h:13.                                                        *)
ErrorReported == \A r \in Request :
    http[r].phase = "done" /\ http[r].broken => http[r].status = GENERIC_ERROR
===============================================================================
