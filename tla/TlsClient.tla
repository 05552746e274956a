------------------------------ MODULE TlsClient ------------------------------
(***************************************************************************)
(* The board's HTTP client (vela_tls.c): requests of several threads share *)
(* a pool of kept connections and one or two static buffers in which       *)
(* responses are read.  A request takes a slot of the pool or, when all    *)
(* are in use, a context of its own; on a kept connection it drains what   *)
(* is left over, writes and reads, and if that fails it connects again and *)
(* sends once more.                                                        *)
(*                                                                         *)
(* A response is a head and body tokens; the server answers, closes,       *)
(* resets, falls silent, or sends a notice on a connection it kept idle.   *)
(***************************************************************************)
EXTENDS Sequences, FiniteSets, Naturals

CONSTANTS
    Pooled, Dates, Plains,  \* vela_https_request, _head_date, vela_http_post_json
    Calls,                  \* sets of requests that are made together
    Hosts, HostOf,          \* request -> host:port
    PoolSize,               \* CONN_POOL_SIZE
    Cap,                    \* body tokens the caller's buffer takes
    Responses,              \* host -> answers it may give
    NoReq, NoHost, NoResp

Reqs   == Pooled \cup Dates \cup Plains
Slots  == 1..PoolSize
Places == Slots \cup Reqs      \* a context: a slot's, or the request's own
Frames == {"length", "chunks", "extended", "close", "empty"}

ASSUME TlsAssumption ==
    /\ Pooled \cap Dates = {} /\ Pooled \cap Plains = {} /\ Dates \cap Plains = {}
    /\ HostOf \in [Reqs -> Hosts] /\ NoHost \notin Hosts
    /\ Calls \subseteq SUBSET Reqs
    /\ PoolSize \in Nat \ {0} /\ Cap \in Nat
    /\ Reqs \cap Nat = {} /\ NoReq \notin Reqs
    /\ Responses \in [Hosts -> SUBSET [frame : Frames, size : Nat, keep : BOOLEAN]]
    /\ \A h \in Hosts : \A resp \in Responses[h] : resp.frame = "empty" => resp.size = 0
    /\ NoResp \notin [frame : Frames \cup {"cut"}, size : Nat, keep : BOOLEAN]

VARIABLES
    pc,     \* request -> where its thread is
    place,  \* request -> the context it uses
    route,  \* request -> on a "reused" connection, a "fresh" one, or "retried" on a
            \* fresh one because a reused one failed
    sent,   \* request -> times a server received it
    head,   \* request -> the head it read: of which request, which response
    got,    \* request -> body tokens read
    result, \* request -> "none", "ok" or "error"
    pool,   \* slot -> [inUse, valid, host]
    conn,   \* place -> its connection
    raw,    \* static buffer -> request that holds its lock, or NoReq
    cleaned \* vela_tls_pool_cleanup has run

request == <<place, route, sent, head, got, result>>
vars    == <<pc, place, route, sent, head, got, result, pool, conn, raw, cleaned>>

-----------------------------------------------------------------------------
NoHead == [of |-> NoReq, resp |-> NoResp, late |-> FALSE]
Part   == NoHead   \* a token of a body
Notice == [frame |-> "length", size |-> 0, keep |-> FALSE]
CutHead == [frame |-> "cut", size |-> 1, keep |-> FALSE]  \* ends after the status line

\* peer: what the other end does; ask: the request it works on.
NoConn    == [peer |-> "none", ask |-> NoReq, inbox |-> <<>>]
FreshConn == [NoConn EXCEPT !.peer = "open"]

RawBufs == 1..(IF PoolSize < 2 THEN 1 ELSE 2)

EmptySlot == [inUse |-> FALSE, valid |-> FALSE, host |-> NoHost]

Init ==
    /\ \E made \in Calls : pc = [r \in Reqs |-> IF r \in made THEN "start" ELSE "done"]
    /\ place = [r \in Reqs |-> r]
    /\ route = [r \in Reqs |-> "fresh"]
    /\ sent = [r \in Reqs |-> 0]
    /\ head = [r \in Reqs |-> NoHead]
    /\ got = [r \in Reqs |-> 0]
    /\ result = [r \in Reqs |-> "none"]
    /\ pool = [s \in Slots |-> EmptySlot]
    /\ conn = [p \in Places |-> NoConn]
    /\ raw = [b \in RawBufs |-> NoReq]
    /\ cleaned = FALSE

MyConn(r) == conn[place[r]]

-----------------------------------------------------------------------------
(* The pool *)

First(S) == CHOOSE s \in S : \A t \in S : s <= t

Kept(r)   == {s \in Slots : pool[s].valid /\ ~pool[s].inUse /\ pool[s].host = HostOf[r]}
Unused    == {s \in Slots : ~pool[s].valid /\ ~pool[s].inUse}
Evictable == {s \in Slots : ~pool[s].inUse}

(* The slot pool_acquire gives to r: a kept one, a free one, an evicted one. *)
TakeSlot(r) ==
    IF Kept(r) # {} THEN First(Kept(r))
    ELSE IF Unused # {} THEN First(Unused)
    ELSE First(Evictable)

AcquireSlot(r) ==
    /\ pc[r] = "start" /\ r \in Pooled
    /\ Evictable # {}
    /\ LET s == TakeSlot(r)
           kept == Kept(r) # {} IN
       /\ place' = [place EXCEPT ![r] = s]
       /\ pc' = [pc EXCEPT ![r] = IF kept THEN "drain" ELSE "connect"]
       /\ pool' = [pool EXCEPT ![s].inUse = TRUE, ![s].valid = kept]
       /\ conn' = IF kept THEN conn ELSE [conn EXCEPT ![s] = NoConn]
    /\ UNCHANGED <<route, sent, head, got, result, raw, cleaned>>

InOwnContext(r) ==
    /\ pc[r] = "start"
    /\ pc' = [pc EXCEPT ![r] = "connect"]
    /\ UNCHANGED <<request, pool, conn, raw, cleaned>>

(* All slots are busy. *)
Ephemeral(r) == r \in Pooled /\ Evictable = {} /\ InOwnContext(r)

(* The date and plain calls never use the pool. *)
Unpooled(r) == r \notin Pooled /\ InOwnContext(r)

(* vela_tls_pool_cleanup, at shutdown: slots in use are skipped. *)
Cleanup ==
    /\ ~cleaned
    /\ cleaned' = TRUE
    /\ pool' = [s \in Slots |-> IF pool[s].inUse THEN pool[s] ELSE EmptySlot]
    /\ conn' = [p \in Places |-> IF p \in Evictable THEN NoConn ELSE conn[p]]
    /\ UNCHANGED <<pc, request, raw>>

-----------------------------------------------------------------------------
(* Ending a request *)

Unlock(r) == raw' = [b \in RawBufs |-> IF raw[b] = r THEN NoReq ELSE raw[b]]

\* Mutant: a context of one's own is not freed.
FinishLeaky(r, outcome, keep) ==
    /\ pc' = [pc EXCEPT ![r] = "done"]
    /\ result' = [result EXCEPT ![r] = outcome]
    /\ Unlock(r)
    /\ IF place[r] \in Slots
       THEN pool' = [pool EXCEPT ![place[r]] =
               IF keep THEN [inUse |-> FALSE, valid |-> TRUE, host |-> HostOf[r]]
                       ELSE EmptySlot]
       ELSE UNCHANGED pool
    /\ UNCHANGED conn

(* pool_release, or tls_ctx_free of the request's own context. *)
Finish(r, outcome, keep) ==
    /\ pc' = [pc EXCEPT ![r] = "done"]
    /\ result' = [result EXCEPT ![r] = outcome]
    /\ Unlock(r)
    /\ IF place[r] \in Slots
       THEN pool' = [pool EXCEPT ![place[r]] =
               IF keep THEN [inUse |-> FALSE, valid |-> TRUE, host |-> HostOf[r]]
                       ELSE EmptySlot]
       ELSE UNCHANGED pool
    /\ conn' = IF keep /\ place[r] \in Slots THEN conn
               ELSE [conn EXCEPT ![place[r]] = NoConn]

(* pool_reconnect: what failed was a kept connection. *)
Reconnect(r) ==
    /\ pc' = [pc EXCEPT ![r] = "connect"]
    /\ route' = [route EXCEPT ![r] = IF @ = "reused" THEN "retried" ELSE @]
    /\ pool' = [pool EXCEPT ![place[r]].valid = FALSE]
    /\ conn' = [conn EXCEPT ![place[r]] = NoConn]
    /\ Unlock(r)
    /\ UNCHANGED result

\* Mutant: whatever failed in a slot is tried again.
GiveUpNever(r) ==
    IF place[r] \in Slots THEN Reconnect(r)
    ELSE Finish(r, "error", FALSE) /\ UNCHANGED route

GiveUp(r) ==
    IF route[r] = "reused" THEN Reconnect(r)
    ELSE Finish(r, "error", FALSE) /\ UNCHANGED route

-----------------------------------------------------------------------------
(* A request *)

\* Mutant: what the last response left is not read away.
DrainNothing(r) ==
    /\ pc[r] = "drain"
    /\ IF MyConn(r).peer = "fin"
       THEN Reconnect(r)
       ELSE /\ pc' = [pc EXCEPT ![r] = "write"]
            /\ route' = [route EXCEPT ![r] = "reused"]
            /\ UNCHANGED <<result, pool, conn, raw>>
    /\ UNCHANGED <<place, sent, head, got, cleaned>>

(* Ten milliseconds for what is left of the last response. *)
Drain(r) ==
    /\ pc[r] = "drain"
    /\ IF MyConn(r).peer = "fin"
       THEN Reconnect(r)
       ELSE /\ pc' = [pc EXCEPT ![r] = "write"]
            /\ route' = [route EXCEPT ![r] = "reused"]
            /\ conn' = [conn EXCEPT ![place[r]].inbox = <<>>]
            /\ UNCHANGED <<result, pool, raw>>
    /\ UNCHANGED <<place, sent, head, got, cleaned>>

Connect(r) ==
    /\ pc[r] = "connect"
    /\ conn' = [conn EXCEPT ![place[r]] = FreshConn]
    /\ pc' = [pc EXCEPT ![r] = "write"]
    /\ UNCHANGED <<request, pool, raw, cleaned>>

(* Name look-up, TCP, entropy or the handshake (30 s) fail. *)
ConnectFails(r) ==
    /\ pc[r] = "connect"
    /\ Finish(r, "error", FALSE)
    /\ UNCHANGED <<place, route, sent, head, got, cleaned>>

(* A peer that has closed does not see what is written. *)
Write(r) ==
    /\ pc[r] = "write"
    /\ MyConn(r).peer # "rst"
    /\ pc' = [pc EXCEPT ![r] = IF r \in Pooled THEN "raw" ELSE "head"]
    /\ IF MyConn(r).peer = "open"
       THEN /\ sent' = [sent EXCEPT ![r] = @ + 1]
            /\ conn' = [conn EXCEPT ![place[r]].ask = r]
       ELSE UNCHANGED <<sent, conn>>
    /\ UNCHANGED <<place, route, head, got, result, pool, raw, cleaned>>

WriteFails(r) ==
    /\ pc[r] = "write"
    /\ GiveUp(r)
    /\ UNCHANGED <<place, sent, head, got, cleaned>>

\* Mutant: a buffer is used though its lock is taken.
FreeAll == RawBufs

Free == {b \in RawBufs : raw[b] = NoReq}

(* tls_raw_acquire tries each buffer, then waits for the first. *)
TakeBuffer(r) ==
    /\ \/ pc[r] = "raw" /\ Free # {}
       \/ pc[r] = "rawWait" /\ 1 \in Free
    /\ raw' = [raw EXCEPT ![First(Free)] = r]
    /\ pc' = [pc EXCEPT ![r] = "head"]
    /\ UNCHANGED <<request, pool, conn, cleaned>>

WaitForFirst(r) ==
    /\ pc[r] = "raw"
    /\ Free = {}
    /\ pc' = [pc EXCEPT ![r] = "rawWait"]
    /\ UNCHANGED <<request, pool, conn, raw, cleaned>>

Arrived(r) == MyConn(r).inbox # <<>>
Take(r, n) == conn' = [conn EXCEPT ![place[r]].inbox = SubSeq(@, n + 1, Len(@))]

(* The head is there; one that was cut off counts when the stream ends, or *)
(* the plain call's time.                                                  *)
HeadRead(r) ==
    LET token == Head(MyConn(r).inbox) IN
    /\ Arrived(r) /\ token # Part
    /\ token.resp = CutHead => MyConn(r).peer = "fin" \/ r \in Plains

\* A status without a body is a response; the date may be missing.
ReadHead(r) ==
    /\ pc[r] = "head"
    /\ HeadRead(r)
    /\ LET token == Head(MyConn(r).inbox)
           cut   == token.resp = CutHead IN
       /\ head' = [head EXCEPT ![r] = token]
       /\ got' = [got EXCEPT ![r] = 0]
       /\ IF r \in Dates \/ cut
          THEN \E outcome \in IF r \in Dates /\ cut THEN {"ok", "error"} ELSE {"ok"} :
                  Finish(r, outcome, FALSE)
          ELSE /\ Take(r, 1)
               /\ pc' = [pc EXCEPT ![r] = "body"]
               /\ UNCHANGED <<result, pool, raw>>
    /\ UNCHANGED <<place, route, sent, cleaned>>

(* No status line: the peer closed or reset, the plain call timed out, or  *)
(* what came is the rest of another body.                                  *)
NoStatus(r) ==
    /\ pc[r] = "head"
    /\ IF Arrived(r) THEN Head(MyConn(r).inbox) = Part
       ELSE MyConn(r).peer \in {"fin", "rst"} \/ r \in Plains
    /\ GiveUp(r)
    /\ UNCHANGED <<place, sent, head, got, cleaned>>

Framed(resp) ==
    IF resp.frame = "empty" THEN 0
    ELSE IF resp.frame \in {"chunks", "extended"} THEN resp.size + 1
    ELSE resp.size

(* The plain call knows lengths only. *)
PlainComplete(r) == head[r].resp.frame = "length" /\ got[r] >= head[r].resp.size

\* Mutant: chunks are complete before the last, empty one.
CompleteEarly(r) ==
    LET resp == head[r].resp IN
    IF r \in Plains THEN PlainComplete(r)
    ELSE resp.frame # "close" /\ got[r] + 1 >= Framed(resp)

(* body_complete *)
Complete(r) ==
    LET resp == head[r].resp IN
    IF r \in Plains THEN PlainComplete(r)
    ELSE resp.frame # "close" /\ got[r] >= Framed(resp)

(* decode_chunked stops at a chunk with an extension, which                *)
(* chunked_body_complete accepts.                                          *)
Delivered(r) ==
    LET resp == head[r].resp IN
    IF resp.frame = "extended" THEN 0
    ELSE IF got[r] < resp.size THEN got[r] ELSE resp.size

ReadBody(r) ==
    /\ pc[r] = "body"
    /\ ~Complete(r) /\ got[r] < Cap
    /\ Arrived(r)
    /\ LET room == Cap - got[r]
           all  == Len(MyConn(r).inbox)
           n    == IF all < room THEN all ELSE room IN
       /\ got' = [got EXCEPT ![r] = @ + n]
       /\ Take(r, n)
    /\ UNCHANGED <<pc, place, route, sent, head, result, pool, raw, cleaned>>

Whole(r) ==
    /\ pc[r] = "body"
    /\ Complete(r)
    /\ Finish(r, "ok", head[r].resp.keep)
    /\ UNCHANGED <<place, route, sent, head, got, cleaned>>

\* Mutant: a time-out of the socket does not leave the loop either.
CutShortWhenFull(r) ==
    /\ pc[r] = "body" /\ r \notin Plains
    /\ ~Complete(r)
    /\ got[r] >= Cap
    /\ GiveUp(r)
    /\ UNCHANGED <<place, sent, head, got, cleaned>>

(* The buffer is full, or the socket timed out or was reset; the end of    *)
(* the stream is no reason to leave the loop.                              *)
CutShort(r) ==
    /\ pc[r] = "body" /\ r \notin Plains
    /\ ~Complete(r)
    /\ got[r] >= Cap \/ (~Arrived(r) /\ MyConn(r).peer # "fin")
    /\ GiveUp(r)
    /\ UNCHANGED <<place, sent, head, got, cleaned>>

(* The plain call returns what it has. *)
PlainCutShort(r) ==
    /\ pc[r] = "body" /\ r \in Plains
    /\ ~Complete(r)
    /\ got[r] >= Cap \/ ~Arrived(r)
    /\ Finish(r, "ok", FALSE)
    /\ UNCHANGED <<place, route, sent, head, got, cleaned>>

Request(r) ==
    \/ AcquireSlot(r) \/ Ephemeral(r) \/ Unpooled(r)
    \/ Drain(r) \/ Connect(r) \/ ConnectFails(r) \/ Write(r) \/ WriteFails(r)
    \/ TakeBuffer(r) \/ WaitForFirst(r)
    \/ ReadHead(r) \/ NoStatus(r) \/ ReadBody(r) \/ Whole(r)
    \/ CutShort(r) \/ PlainCutShort(r)

-----------------------------------------------------------------------------
(* Servers *)

Set(p, new) == conn' = [conn EXCEPT ![p] = new]
Quiet == UNCHANGED <<pc, request, pool, raw, cleaned>>

(* An answer or, before it closes or falls silent for good, a prefix of    *)
(* one, or nothing.  (A reset ends a body as a time-out does.)             *)
Respond(p) ==
    /\ conn[p].peer = "open" /\ conn[p].ask # NoReq
    /\ \/ \E resp \in Responses[HostOf[conn[p].ask]] : \E n \in 0..Framed(resp) :
             \E peer \in IF n = Framed(resp) THEN {"open"} ELSE {"fin", "mute"} :
                Set(p, [peer |-> peer, ask |-> NoReq,
                        inbox |-> conn[p].inbox
                            \o <<[of |-> conn[p].ask, resp |-> resp, late |-> FALSE]>>
                            \o [i \in 1..n |-> Part]])
       \/ \E peer \in {"fin", "mute"} :
             Set(p, [peer |-> peer, ask |-> NoReq,
                     inbox |-> Append(conn[p].inbox,
                         [of |-> conn[p].ask, resp |-> CutHead, late |-> FALSE])])
       \/ \E peer \in {"fin", "rst", "mute"} :
             Set(p, [conn[p] EXCEPT !.peer = peer, !.ask = NoReq])
    /\ Quiet

(* A kept connection is closed or reset before the next request, or after  *)
(* an answer framed by its end.                                            *)
HangUp(p) ==
    /\ conn[p].peer = "open" /\ conn[p].ask = NoReq
    /\ \/ p \in Slots /\ pool[p].valid
       \/ \E r \in Reqs : place[r] = p /\ pc[r] = "body"
    /\ \E peer \in {"fin", "rst"} : Set(p, [conn[p] EXCEPT !.peer = peer])
    /\ Quiet

(* A time-out response nobody asked for, on a connection kept idle; it is  *)
(* late if it comes when its slot has been drained.                        *)
Notify(s) ==
    /\ conn[s].peer = "open" /\ conn[s].ask = NoReq /\ conn[s].inbox = <<>>
    /\ pool[s].valid
    /\ \A r \in Reqs : place[r] = s => pc[r] \in {"done", "drain", "write"}
    /\ LET late == \E r \in Reqs : place[r] = s /\ pc[r] = "write" IN
       Set(s, [conn[s] EXCEPT !.inbox =
                  <<[of |-> NoReq, resp |-> Notice, late |-> late]>>])
    /\ Quiet

Next ==
    \/ \E r \in Reqs : Request(r)
    \/ \E p \in Places : Respond(p) \/ HangUp(p)
    \/ \E s \in Slots : Notify(s)
    \/ Cleanup

Spec == Init /\ [][Next]_vars

(***************************************************************************)
(* Threads run, connecting and writing succeed or fail in bounded time, a  *)
(* lock that is free is taken, and a server that will not answer has       *)
(* closed, reset or fallen silent for good.                                *)
(***************************************************************************)
FairSpec ==
    /\ Spec
    /\ \A r \in Reqs : WF_vars(Request(r))
    /\ \A p \in Places : WF_vars(Respond(p))

-----------------------------------------------------------------------------
(* Properties *)

Answers == (UNION {Responses[h] : h \in Hosts}) \cup {Notice, CutHead}
Tokens  == [of : Reqs \cup {NoReq}, late : BOOLEAN, resp : Answers \cup {NoResp}]
PoolSlot == [inUse : BOOLEAN, valid : BOOLEAN, host : Hosts \cup {NoHost}]
Connection == [peer : {"none", "open", "fin", "rst", "mute"},
               ask : Reqs \cup {NoReq}, inbox : Seq(Tokens)]

(* Every variable has its type. *)
TypeOK ==
    /\ pc \in [Reqs -> {"start", "drain", "connect", "write", "raw", "rawWait",
                        "head", "body", "done"}]
    /\ place \in [Reqs -> Places]
    /\ route \in [Reqs -> {"reused", "fresh", "retried"}]
    /\ sent \in [Reqs -> 0..2]
    /\ head \in [Reqs -> Tokens]
    /\ got \in [Reqs -> Nat]
    /\ result \in [Reqs -> {"none", "ok", "error"}]
    /\ pool \in [Slots -> PoolSlot]
    /\ conn \in [Places -> Connection]
    /\ raw \in [RawBufs -> Reqs \cup {NoReq}]
    /\ cleaned \in BOOLEAN

Active(r) == pc[r] \notin {"start", "done"}
Reading(r) == r \in Pooled /\ pc[r] \in {"head", "body"}

(* No two requests in flight share a context, a slot is marked in use      *)
(* exactly while one is on it, and a static buffer is locked exactly by a  *)
(* request that is reading: pool_acquire, pool_release, tls_raw_acquire.   *)
ContextsExclusive ==
    /\ \A r, q \in Reqs : r # q /\ Active(r) /\ Active(q) => place[r] # place[q]
    /\ \A s \in Slots : pool[s].inUse <=> \E r \in Reqs : Active(r) /\ place[r] = s

BuffersExclusive ==
    \A r \in Reqs : Reading(r) <=> \E b \in RawBufs :
        raw[b] = r /\ \A c \in RawBufs \ {b} : raw[c] # r

Exclusive == ContextsExclusive /\ BuffersExclusive

(* A connection stays open only where a request is on it or in a slot that *)
(* the pool counts as valid: tls_ctx_free on every path out of a request.  *)
NothingLeaks ==
    \A p \in Places :
        \/ conn[p].peer = "none"
        \/ \E r \in Reqs : Active(r) /\ place[r] = p
        \/ p \in Slots /\ pool[p].valid

(* A pooled request that returns a response returns all of its body,       *)
(* unless a chunk carried an extension or the stream ended within the head *)
(* (tls_read_response).                                                    *)
WholeBody ==
    \A r \in Pooled : result[r] = "ok" /\ head[r].resp.frame \notin {"extended", "cut"}
        => Delivered(r) = head[r].resp.size

(* A request gets its own answer, never what an earlier exchange left on a *)
(* kept connection; only a notice that arrives after the drain is taken    *)
(* for it.                                                                 *)
OwnAnswer ==
    \A r \in Reqs : result[r] = "ok" =>
        head[r].of = r \/ (r \in Pooled /\ head[r].late)

(* A server sees a request a second time only if a kept connection failed  *)
(* under it, and never a third time.                                       *)
DoubledByReuseOnly == \A r \in Reqs : sent[r] > 1 => sent[r] = 2 /\ route[r] = "retried"

(* The two reads that no time-out ends: for the head of a server that has  *)
(* fallen silent, and for the rest of a body after the peer closed.        *)
Stuck(r) ==
    /\ r \notin Plains
    /\ \/ pc[r] = "head" /\ MyConn(r).peer = "mute" /\ ~HeadRead(r)
       \/ pc[r] = "body" /\ ~Arrived(r) /\ MyConn(r).peer = "fin" /\ ~Complete(r) /\ got[r] < Cap

(* A request that has begun returns, unless it is in such a read itself or *)
(* waits for the first buffer, which a request in such a read holds.       *)
RequestsEnd ==
    \A r \in Reqs : Active(r) ~>
        \/ pc[r] = "done"
        \/ Stuck(r)
        \/ pc[r] = "rawWait" /\ raw[1] # NoReq /\ Stuck(raw[1])

=============================================================================
