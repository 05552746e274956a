--------------------------- MODULE TlsClientProofs ---------------------------
(***************************************************************************)
(* Proofs about TlsClient for any requests, hosts, slots, answers and      *)
(* sizes of the caller's buffer.                                           *)
(***************************************************************************)
EXTENDS TlsClient, WellFoundedInduction, SequenceTheorems, TLAPS

(* Where a request may be: only a pooled one has a slot or a buffer. *)
Stages ==
    \A r \in Reqs :
        /\ place[r] \in Slots \cup {r}
        /\ pc[r] = "start" => place[r] = r
        /\ pc[r] = "drain" => place[r] \in Slots
        /\ r \notin Pooled => place[r] = r /\ pc[r] \notin {"drain", "raw", "rawWait"}
        /\ result[r] # "none" => pc[r] = "done"

(* The locks of the buffers, in a form that is inductive. *)
Locks ==
    /\ \A r \in Reqs : \A b \in RawBufs : raw[b] = r => Reading(r)
    /\ \A r \in Reqs : \A b, c \in RawBufs : raw[b] = r /\ raw[c] = r => b = c
    /\ \A r \in Reqs : Reading(r) => \E b \in RawBufs : raw[b] = r

(* How often a request was sent, by its route. *)
Tries ==
    \A r \in Reqs :
        /\ sent[r] <= (IF route[r] = "retried" THEN 2 ELSE 1)
        /\ pc[r] \in {"start", "drain"} => route[r] = "fresh"
        /\ pc[r] \in {"start", "drain", "connect", "write"}
              => sent[r] = 0 \/ (sent[r] = 1 /\ route[r] = "retried")
        /\ pc[r] = "connect" => route[r] # "reused"

(* What a connection holds for the request on it: before it is asked a     *)
(* notice that came after the drain, then that or the request's own answer.*)
Late(r) == {t \in Tokens : r \in Pooled /\ t.late /\ t.resp = Notice}
Mine(r) == {t \in Tokens : t = Part \/ t \in Late(r) \/ (t.of = r /\ t.resp \in Answers)}

Asked == {"raw", "rawWait", "head", "body"}

AskedFor ==
    \A p \in Places : LET q == conn[p].ask IN
        q # NoReq => q \in Reqs /\ place[q] = p /\ pc[q] \in Asked

InboxFits(r) ==
    /\ pc[r] = "write" => MyConn(r).inbox \in Seq(Late(r))
    /\ pc[r] \in {"raw", "rawWait", "head"} =>
          /\ MyConn(r).inbox \in Seq(Mine(r))
          /\ MyConn(r).ask = r => MyConn(r).inbox \in Seq(Late(r))
    /\ pc[r] = "body" /\ MyConn(r).ask = r => ~head[r].resp.keep

Inboxes == \A r \in Reqs : InboxFits(r)

(* The head a request has read, and what it returns. *)
Heads ==
    \A r \in Reqs : pc[r] = "body" \/ result[r] = "ok" =>
        /\ head[r].resp \in Answers
        /\ head[r].of = r \/ (r \in Pooled /\ head[r].late)

Inv ==
    /\ TypeOK /\ Stages /\ ContextsExclusive /\ Locks /\ NothingLeaks
    /\ Tries /\ AskedFor /\ Inboxes /\ Heads /\ WholeBody

-----------------------------------------------------------------------------
(* The smallest element of a set of slots or buffers is one of them. *)
LEMMA FirstIn ==
    ASSUME NEW S, S \subseteq Nat, S # {}
    PROVE  First(S) \in S
<1> DEFINE R == {ss \in Nat \X Nat : ss[1] < ss[2]}
<1>1. IsWellFoundedOn(R, Nat)
  BY NatLessThanWellFounded DEF OpToRel
<1>2. \A s, t \in Nat : t < s => <<t, s>> \in R
  OBVIOUS
<1> HIDE DEF R
<1>3. PICK s \in S : \A t \in S : ~(<<t, s>> \in R)
  BY <1>1, WFMin
<1>4. ASSUME NEW t \in S PROVE s <= t
  <2>1. s \in Nat /\ t \in Nat
    OBVIOUS
  <2>2. ~(t < s)
    BY <1>2, <1>3, <2>1
  <2> QED
    BY <2>1, <2>2
<1> QED
  BY <1>4 DEF First

LEMMA Constants ==
    /\ Slots \cap Reqs = {} /\ Slots \subseteq Nat /\ RawBufs \subseteq Nat
    /\ 1 \in RawBufs
    /\ NoHead \in Tokens /\ Part \in Tokens
    /\ NoResp \notin Answers
    /\ \A resp \in Answers : resp \in [frame : Frames \cup {"cut"}, size : Nat, keep : BOOLEAN]
    /\ Notice \in Answers /\ CutHead \in Answers
    /\ NoConn \in Connection /\ FreshConn \in Connection
<1> USE TlsAssumption
<1>1. /\ Slots \cap Reqs = {} /\ Slots \subseteq Nat /\ RawBufs \subseteq Nat
      /\ 1 \in RawBufs
  BY DEF Slots, RawBufs
<1>2. NoHead \in Tokens /\ Part \in Tokens
  BY DEF Tokens, NoHead, Part
<1>3. \A resp \in Answers : resp \in [frame : Frames \cup {"cut"}, size : Nat, keep : BOOLEAN]
  <2> DEFINE Resps == [frame : Frames \cup {"cut"}, size : Nat, keep : BOOLEAN]
  <2>1. \A h \in Hosts : \A resp \in Responses[h] : resp \in Resps
    <3>1. \A h \in Hosts : Responses[h] \subseteq [frame : Frames, size : Nat, keep : BOOLEAN]
      OBVIOUS
    <3> QED
      BY <3>1
  <2>2. Notice \in Resps /\ CutHead \in Resps
    BY DEF Notice, CutHead, Frames
  <2>3. \A resp \in Answers :
           resp = Notice \/ resp = CutHead \/ \E h \in Hosts : resp \in Responses[h]
    BY DEF Answers
  <2> QED
    BY <2>1, <2>2, <2>3
<1>4. NoResp \notin Answers
  BY <1>3
<1>5. Notice \in Answers /\ CutHead \in Answers
  <2> DEFINE A == UNION {Responses[h] : h \in Hosts}
  <2>1. Answers = A \cup {Notice, CutHead}
    BY DEF Answers
  <2> HIDE DEF A
  <2> QED
    BY <2>1
<1>6. NoConn \in Connection
  <2>1. <<>> \in Seq(Tokens)
    BY EmptySeq
  <2> QED
    BY <2>1 DEF NoConn, Connection
<1>7. FreshConn \in Connection
  BY <1>6 DEF FreshConn, NoConn, Connection
<1> QED
  BY <1>1, <1>2, <1>3, <1>4, <1>5, <1>6, <1>7

-----------------------------------------------------------------------------
(* What the two ways out of an exchange do, request by request, slot by    *)
(* slot and connection by connection.                                      *)
LEMMA FinishEffect ==
    ASSUME TypeOK, NEW r \in Reqs, NEW outcome \in {"ok", "error"}, NEW keep \in BOOLEAN,
           Finish(r, outcome, keep)
    PROVE  /\ pc' = [pc EXCEPT ![r] = "done"]
           /\ result' = [result EXCEPT ![r] = outcome]
           /\ raw' = [b \in RawBufs |-> IF raw[b] = r THEN NoReq ELSE raw[b]]
           /\ pool' \in [Slots -> PoolSlot]
           /\ \A s \in Slots : s # place[r] => pool'[s] = pool[s]
           /\ place[r] \in Slots =>
                 pool'[place[r]].inUse = FALSE /\ pool'[place[r]].valid = keep
           /\ conn' \in [Places -> Connection]
           /\ \A p \in Places : p # place[r] => conn'[p] = conn[p]
           /\ conn'[place[r]] =
                 IF keep /\ place[r] \in Slots THEN conn[place[r]] ELSE NoConn
<1>1. /\ pc' = [pc EXCEPT ![r] = "done"]
      /\ result' = [result EXCEPT ![r] = outcome]
      /\ raw' = [b \in RawBufs |-> IF raw[b] = r THEN NoReq ELSE raw[b]]
  BY DEF Finish, Unlock
<1>2. HostOf[r] \in Hosts
  BY TlsAssumption
<1>3. /\ pool' \in [Slots -> PoolSlot]
      /\ \A s \in Slots : s # place[r] => pool'[s] = pool[s]
      /\ place[r] \in Slots =>
            pool'[place[r]].inUse = FALSE /\ pool'[place[r]].valid = keep
  <2> DEFINE new == IF keep THEN [inUse |-> FALSE, valid |-> TRUE, host |-> HostOf[r]]
                    ELSE EmptySlot
  <2>1. new \in PoolSlot /\ new.inUse = FALSE /\ new.valid = keep
    <3>1. CASE keep
      BY <1>2, <3>1 DEF PoolSlot
    <3>2. CASE ~keep
      BY <3>2 DEF PoolSlot, EmptySlot
    <3> QED
      BY <3>1, <3>2
  <2>2. IF place[r] \in Slots THEN pool' = [pool EXCEPT ![place[r]] = new]
        ELSE pool' = pool
    BY DEF Finish
  <2>3. pool \in [Slots -> PoolSlot]
    BY DEF TypeOK
  <2> HIDE DEF new
  <2> QED
    BY <2>1, <2>2, <2>3
<1>4. /\ conn' \in [Places -> Connection]
      /\ \A p \in Places : p # place[r] => conn'[p] = conn[p]
      /\ conn'[place[r]] =
            IF keep /\ place[r] \in Slots THEN conn[place[r]] ELSE NoConn
  BY Constants DEF Finish, TypeOK
<1> QED
  BY <1>1, <1>3, <1>4

LEMMA ReconnectEffect ==
    ASSUME TypeOK, NEW r \in Reqs, Reconnect(r)
    PROVE  /\ pc' = [pc EXCEPT ![r] = "connect"]
           /\ route' = [route EXCEPT ![r] = IF route[r] = "reused" THEN "retried" ELSE route[r]]
           /\ result' = result
           /\ raw' = [b \in RawBufs |-> IF raw[b] = r THEN NoReq ELSE raw[b]]
           /\ pool' \in [Slots -> PoolSlot]
           /\ \A s \in Slots : pool'[s].inUse = pool[s].inUse
           /\ \A s \in Slots : s # place[r] => pool'[s] = pool[s]
           /\ conn' \in [Places -> Connection]
           /\ \A p \in Places : p # place[r] => conn'[p] = conn[p]
           /\ conn'[place[r]] = NoConn
<1>1. /\ pc' = [pc EXCEPT ![r] = "connect"]
      /\ route' = [route EXCEPT ![r] = IF route[r] = "reused" THEN "retried" ELSE route[r]]
      /\ result' = result
      /\ raw' = [b \in RawBufs |-> IF raw[b] = r THEN NoReq ELSE raw[b]]
  BY DEF Reconnect, Unlock
<1>2. /\ pool' \in [Slots -> PoolSlot]
      /\ \A s \in Slots : pool'[s].inUse = pool[s].inUse
      /\ \A s \in Slots : s # place[r] => pool'[s] = pool[s]
  <2>1. pool' = [pool EXCEPT ![place[r]] = [pool[place[r]] EXCEPT !.valid = FALSE]]
    BY DEF Reconnect
  <2>0. \A s \in Slots : pool[s] \in PoolSlot
    BY DEF TypeOK
  <2>2. \A s \in Slots : /\ [pool[s] EXCEPT !.valid = FALSE] \in PoolSlot
                         /\ [pool[s] EXCEPT !.valid = FALSE].inUse = pool[s].inUse
    BY <2>0 DEF PoolSlot
  <2>3. pool \in [Slots -> PoolSlot]
    BY DEF TypeOK
  <2>4. pool' \in [Slots -> PoolSlot]
    BY <2>1, <2>2, <2>3, ZenonT(40)
  <2>5. \A s \in Slots : s # place[r] => pool'[s] = pool[s]
    BY <2>1, <2>3, ZenonT(40)
  <2>6. \A s \in Slots : pool'[s].inUse = pool[s].inUse
    BY <2>1, <2>2, <2>3, ZenonT(40)
  <2> QED
    BY <2>4, <2>5, <2>6
<1>3. /\ conn' \in [Places -> Connection]
      /\ \A p \in Places : p # place[r] => conn'[p] = conn[p]
      /\ conn'[place[r]] = NoConn
  BY Constants DEF Reconnect, TypeOK
<1> QED
  BY <1>1, <1>2, <1>3

(* A sequence of tokens with its first ones taken. *)
LEMMA TakeEffect ==
    ASSUME TypeOK, NEW r \in Reqs, NEW n \in Nat, NEW S,
           MyConn(r).inbox \in Seq(S), n <= Len(MyConn(r).inbox), Take(r, n)
    PROVE  /\ conn' = [conn EXCEPT ![place[r]] = [conn[place[r]] EXCEPT !.inbox =
                          SubSeq(conn[place[r]].inbox, n + 1, Len(conn[place[r]].inbox))]]
           /\ conn'[place[r]].inbox \in Seq(S)
<1> DEFINE box == conn[place[r]].inbox
           left == SubSeq(box, n + 1, Len(box))
<1>1. place[r] \in Places /\ conn[place[r]] \in Connection
  BY DEF TypeOK
<1>2. box \in Seq(S)
  BY DEF MyConn
<1>3. Len(box) \in Nat /\ \A i \in n + 1 .. Len(box) : box[i] \in S
  BY <1>2, ElementOfSeq, LenProperties
<1>4. left \in Seq(S)
  <2> HIDE DEF box
  <2> QED
    BY <1>3, SubSeqProperties
<1>5. conn' = [conn EXCEPT ![place[r]] = [conn[place[r]] EXCEPT !.inbox = left]]
  BY DEF Take
<1>6. conn'[place[r]].inbox = left
  <2> HIDE DEF left
  <2> QED
    BY <1>1, <1>5 DEF TypeOK, Connection
<1> QED
  BY <1>4, <1>5, <1>6

-----------------------------------------------------------------------------
(* A request that ends keeps the invariant.  It may keep its connection    *)
(* only once it has read a whole answer of its own.                        *)
LEMMA FinishKeeps ==
    ASSUME Inv, NEW r \in Reqs, Active(r),
           NEW outcome \in {"ok", "error"}, NEW keep \in BOOLEAN,
           Finish(r, outcome, keep),
           UNCHANGED <<place, route, sent, cleaned>>,
           head' \in [Reqs -> Tokens], got' \in [Reqs -> Nat],
           \A q \in Reqs : q # r => head'[q] = head[q] /\ got'[q] = got[q],
           outcome = "ok" =>
              /\ head'[r].resp \in Answers
              /\ head'[r].of = r \/ (r \in Pooled /\ head'[r].late)
              /\ r \in Pooled /\ head'[r].resp.frame \notin {"extended", "cut"}
                    => Delivered(r)' = head'[r].resp.size,
           keep => pc[r] = "body" /\ head[r].resp.keep
    PROVE  Inv'
<1> USE DEF Inv
<1>1. /\ pc' = [pc EXCEPT ![r] = "done"]
      /\ result' = [result EXCEPT ![r] = outcome]
      /\ raw' = [b \in RawBufs |-> IF raw[b] = r THEN NoReq ELSE raw[b]]
      /\ pool' \in [Slots -> PoolSlot]
      /\ conn' \in [Places -> Connection]
  BY FinishEffect
<1>2. /\ \A s \in Slots : s # place[r] => pool'[s] = pool[s]
      /\ place[r] \in Slots =>
            pool'[place[r]].inUse = FALSE /\ pool'[place[r]].valid = keep
  BY FinishEffect
<1>3. /\ \A p \in Places : p # place[r] => conn'[p] = conn[p]
      /\ conn'[place[r]] =
            IF keep /\ place[r] \in Slots THEN conn[place[r]] ELSE NoConn
  BY FinishEffect
<1>4. TypeOK'
  <2>1. /\ pc' \in [Reqs -> {"start", "drain", "connect", "write", "raw", "rawWait",
                              "head", "body", "done"}]
        /\ result' \in [Reqs -> {"none", "ok", "error"}]
    BY <1>1 DEF TypeOK
  <2>2. raw' \in [RawBufs -> Reqs \cup {NoReq}]
    BY <1>1 DEF TypeOK
  <2> QED
    BY <1>1, <2>1, <2>2 DEF TypeOK
<1>5. \A q \in Reqs : pc'[q] = IF q = r THEN "done" ELSE pc[q]
  BY <1>1 DEF TypeOK
<1>6. \A q \in Reqs : result'[q] = IF q = r THEN outcome ELSE result[q]
  BY <1>1 DEF TypeOK
<1>7. \A q \in Reqs : q # r /\ Active(q) => place[q] # place[r]
  BY DEF ContextsExclusive
<1>8. Stages'
  BY <1>5, <1>6 DEF Stages
<1>9. ContextsExclusive'
  <2>1. \A q \in Reqs : Active(q)' <=> Active(q) /\ q # r
    BY <1>5 DEF Active
  <2>2. \A p, q \in Reqs : p # q /\ Active(p)' /\ Active(q)' => place'[p] # place'[q]
    BY <2>1 DEF ContextsExclusive
  <2>3. ASSUME NEW s \in Slots
        PROVE  pool'[s].inUse <=> \E q \in Reqs : Active(q)' /\ place'[q] = s
    <3>1. CASE s = place[r]
      BY <1>2, <1>7, <2>1, <3>1
    <3>2. CASE s # place[r]
      BY <1>2, <2>1, <3>2 DEF ContextsExclusive
    <3> QED
      BY <3>1, <3>2
  <2> QED
    BY <2>2, <2>3 DEF ContextsExclusive
<1>10. Locks'
  <2>1. \A q \in Reqs : Reading(q)' <=> Reading(q) /\ q # r
    BY <1>5 DEF Reading
  <2>2. \A b \in RawBufs : raw'[b] = IF raw[b] = r THEN NoReq ELSE raw[b]
    BY <1>1
  <2>3. \A q \in Reqs : \A b \in RawBufs : raw'[b] = q <=> raw[b] = q /\ q # r
    BY <2>2, TlsAssumption
  <2> QED
    BY <2>1, <2>3 DEF Locks
<1>11. NothingLeaks'
  <2>1. \A q \in Reqs : Active(q)' <=> Active(q) /\ q # r
    BY <1>5 DEF Active
  <2>2. ASSUME NEW p \in Places
        PROVE  \/ conn'[p].peer = "none"
               \/ \E q \in Reqs : Active(q)' /\ place'[q] = p
               \/ p \in Slots /\ pool'[p].valid
    <3>1. CASE p = place[r]
      BY <1>2, <1>3, <3>1 DEF NoConn
    <3>2. CASE p # place[r]
      BY <1>2, <1>3, <2>1, <3>2 DEF NothingLeaks
    <3> QED
      BY <3>1, <3>2
  <2> QED
    BY <2>2 DEF NothingLeaks
<1>12. Tries'
  BY <1>5 DEF Tries
<1>13. AskedFor'
  <2>1. conn[place[r]].ask # r \/ conn'[place[r]] = NoConn
    BY <1>3 DEF Inboxes, InboxFits, MyConn
  <2>2. ASSUME NEW p \in Places, conn'[p].ask # NoReq
        PROVE  /\ conn'[p].ask \in Reqs /\ place'[conn'[p].ask] = p
               /\ pc'[conn'[p].ask] \in Asked
    <3>1. conn'[p] = conn[p]
      BY <1>3, <2>2 DEF NoConn
    <3>2. conn[p].ask \in Reqs /\ place[conn[p].ask] = p /\ pc[conn[p].ask] \in Asked
      BY <2>2, <3>1 DEF AskedFor
    <3>3. conn[p].ask # r
      BY <1>3, <2>1, <2>2, <3>1, <3>2 DEF NoConn
    <3> QED
      BY <1>5, <3>1, <3>2, <3>3
  <2> QED
    BY <2>2 DEF AskedFor
<1>14. Inboxes'
  <2>1. ASSUME NEW q \in Reqs, pc'[q] # "done", pc'[q] # "start"
        PROVE  q # r /\ pc'[q] = pc[q] /\ MyConn(q)' = MyConn(q) /\ head'[q] = head[q]
    <3>1. q # r /\ pc'[q] = pc[q]
      BY <1>5, <2>1
    <3>2. place[q] # place[r] /\ place[q] \in Places
      BY <1>7, <2>1, <3>1 DEF Active, TypeOK
    <3> QED
      BY <1>3, <3>1, <3>2 DEF MyConn
  <2> QED
    BY <2>1 DEF Inboxes, InboxFits, Late, Mine
<1>15. Heads'
  BY <1>5, <1>6 DEF Heads
<1>16. WholeBody'
  <2>1. ASSUME NEW q \in Pooled, result'[q] = "ok",
               head'[q].resp.frame \notin {"extended", "cut"}
        PROVE  Delivered(q)' = head'[q].resp.size
    <3>1. q \in Reqs
      BY DEF Reqs
    <3>2. CASE q = r
      BY <1>6, <2>1, <3>2
    <3>3. CASE q # r
      BY <1>6, <2>1, <3>1, <3>3 DEF WholeBody, Delivered
    <3> QED
      BY <3>2, <3>3
  <2> QED
    BY <2>1 DEF WholeBody
<1> QED
  BY <1>4, <1>8, <1>9, <1>10, <1>11, <1>12, <1>13, <1>14, <1>15, <1>16

(* So does one that connects again. *)
LEMMA ReconnectKeeps ==
    ASSUME Inv, NEW r \in Reqs, Active(r), Reconnect(r),
           route[r] = "reused" \/ pc[r] = "drain",
           UNCHANGED <<place, sent, head, got, cleaned>>
    PROVE  Inv'
<1> USE DEF Inv
<1>1. /\ pc' = [pc EXCEPT ![r] = "connect"]
      /\ route' = [route EXCEPT ![r] = IF route[r] = "reused" THEN "retried" ELSE route[r]]
      /\ result' = result
      /\ raw' = [b \in RawBufs |-> IF raw[b] = r THEN NoReq ELSE raw[b]]
      /\ pool' \in [Slots -> PoolSlot]
      /\ conn' \in [Places -> Connection]
  BY ReconnectEffect
<1>2. /\ \A s \in Slots : pool'[s].inUse = pool[s].inUse
      /\ \A s \in Slots : s # place[r] => pool'[s] = pool[s]
      /\ \A p \in Places : p # place[r] => conn'[p] = conn[p]
      /\ conn'[place[r]] = NoConn
  BY ReconnectEffect
<1>3. \A q \in Reqs : pc'[q] = IF q = r THEN "connect" ELSE pc[q]
  BY <1>1 DEF TypeOK
<1>4. \A q \in Reqs : q # r /\ Active(q) => place[q] # place[r]
  BY DEF ContextsExclusive
<1>5. \A q \in Reqs : Active(q)' <=> Active(q)
  BY <1>3 DEF Active
<1>6. TypeOK'
  <2>1. /\ pc' \in [Reqs -> {"start", "drain", "connect", "write", "raw", "rawWait",
                              "head", "body", "done"}]
        /\ route' \in [Reqs -> {"reused", "fresh", "retried"}]
    BY <1>1 DEF TypeOK
  <2>2. raw' \in [RawBufs -> Reqs \cup {NoReq}]
    BY <1>1 DEF TypeOK
  <2> QED
    BY <1>1, <2>1, <2>2 DEF TypeOK
<1>7. Stages'
  BY <1>1, <1>3 DEF Stages, Active
<1>8. ContextsExclusive'
  BY <1>2, <1>5 DEF ContextsExclusive
<1>9. Locks'
  <2>1. \A q \in Reqs : Reading(q)' <=> Reading(q) /\ q # r
    BY <1>3 DEF Reading
  <2>2. \A b \in RawBufs : raw'[b] = IF raw[b] = r THEN NoReq ELSE raw[b]
    BY <1>1
  <2>3. \A q \in Reqs : \A b \in RawBufs : raw'[b] = q <=> raw[b] = q /\ q # r
    BY <2>2, TlsAssumption
  <2> QED
    BY <2>1, <2>3 DEF Locks
<1>10. NothingLeaks'
  <2>1. ASSUME NEW p \in Places
        PROVE  \/ conn'[p].peer = "none"
               \/ \E q \in Reqs : Active(q)' /\ place'[q] = p
               \/ p \in Slots /\ pool'[p].valid
    <3>1. CASE p = place[r]
      BY <1>2, <3>1 DEF NoConn
    <3>2. CASE p # place[r]
      BY <1>2, <1>5, <3>2 DEF NothingLeaks
    <3> QED
      BY <3>1, <3>2
  <2> QED
    BY <2>1 DEF NothingLeaks
<1>11. Tries'
  <2>1. \A q \in Reqs : sent[q] \in 0..2
    BY DEF TypeOK
  <2>2. \A q \in Reqs : route'[q] = IF q = r /\ route[q] = "reused" THEN "retried" ELSE route[q]
    BY <1>1 DEF TypeOK
  <2> QED
    BY <1>3, <2>1, <2>2 DEF Tries
<1>12. AskedFor'
  <2>1. ASSUME NEW p \in Places, conn'[p].ask # NoReq
        PROVE  /\ conn'[p].ask \in Reqs /\ place'[conn'[p].ask] = p
               /\ pc'[conn'[p].ask] \in Asked
    <3>1. p # place[r] /\ conn'[p] = conn[p]
      BY <1>2, <2>1 DEF NoConn
    <3> QED
      BY <1>3, <2>1, <3>1 DEF AskedFor
  <2> QED
    BY <2>1 DEF AskedFor
<1>13. Inboxes'
  <2>1. ASSUME NEW q \in Reqs, pc'[q] # "done", pc'[q] # "start", q # r
        PROVE  pc'[q] = pc[q] /\ MyConn(q)' = MyConn(q) /\ head'[q] = head[q]
    <3>1. place[q] # place[r] /\ place[q] \in Places
      BY <1>3, <1>4, <2>1 DEF Active, TypeOK
    <3> QED
      BY <1>2, <1>3, <2>1, <3>1 DEF MyConn
  <2> QED
    BY <1>3, <2>1 DEF Inboxes, InboxFits, Late, Mine
<1>14. Heads'
  BY <1>1, <1>3 DEF Heads
<1>15. WholeBody'
  BY <1>1 DEF WholeBody, Delivered
<1> QED
  BY <1>6, <1>7, <1>8, <1>9, <1>10, <1>11, <1>12, <1>13, <1>14, <1>15

LEMMA GiveUpKeeps ==
    ASSUME Inv, NEW r \in Reqs, Active(r), GiveUp(r),
           UNCHANGED <<place, sent, head, got, cleaned>>
    PROVE  Inv'
<1>1. CASE route[r] = "reused"
  BY <1>1, ReconnectKeeps DEF GiveUp
<1>2. CASE route[r] # "reused"
  <2>1. Finish(r, "error", FALSE) /\ UNCHANGED route
    BY <1>2 DEF GiveUp
  <2>2. head' \in [Reqs -> Tokens] /\ got' \in [Reqs -> Nat]
    BY DEF Inv, TypeOK
  <2> QED
    BY <2>1, <2>2, FinishKeeps
<1> QED
  BY <1>1, <1>2

-----------------------------------------------------------------------------
(* The steps of a request that ends or connects again *)

LEMMA ExitSteps ==
    ASSUME Inv, NEW r \in Reqs,
           \/ ConnectFails(r) \/ WriteFails(r) \/ NoStatus(r) \/ Whole(r)
           \/ CutShort(r) \/ PlainCutShort(r)
           \/ Drain(r) /\ MyConn(r).peer = "fin"
    PROVE  Inv'
<1> USE DEF Inv
<1>0. head \in [Reqs -> Tokens] /\ got \in [Reqs -> Nat]
  BY DEF TypeOK
<1>1. CASE ConnectFails(r)
  BY <1>0, <1>1, FinishKeeps DEF ConnectFails, Active
<1>2. CASE WriteFails(r)
  BY <1>2, GiveUpKeeps DEF WriteFails, Active
<1>3. CASE NoStatus(r)
  BY <1>3, GiveUpKeeps DEF NoStatus, Active
<1>4. CASE CutShort(r)
  BY <1>4, GiveUpKeeps DEF CutShort, Active
<1>5. CASE Whole(r)
  <2>1. head[r].resp \in Answers /\ (head[r].of = r \/ (r \in Pooled /\ head[r].late))
    BY <1>5 DEF Whole, Heads
  <2>2. head[r].resp \in [frame : Frames \cup {"cut"}, size : Nat, keep : BOOLEAN]
    BY <2>1, Constants
  <2>3. r \in Pooled /\ head[r].resp.frame \notin {"extended", "cut"}
           => Delivered(r) = head[r].resp.size
    <3>1. SUFFICES ASSUME r \in Pooled, head[r].resp.frame \notin {"extended", "cut"}
                   PROVE  Delivered(r) = head[r].resp.size
      OBVIOUS
    <3>2. r \notin Plains
      BY <3>1, TlsAssumption
    <3>3. head[r].resp.frame = "empty" => head[r].resp.size = 0
      BY <2>1, TlsAssumption DEF Answers, Notice, CutHead
    <3>4. got[r] \in Nat /\ head[r].resp.size \in Nat /\ got[r] >= head[r].resp.size
      <4>1. got[r] \in Nat /\ head[r].resp.size \in Nat
        BY <2>2 DEF TypeOK
      <4>2. got[r] >= Framed(head[r].resp)
        BY <1>5, <3>2 DEF Whole, Complete
      <4> QED
        BY <3>3, <4>1, <4>2 DEF Framed
    <3> QED
      BY <3>1, <3>4 DEF Delivered
  <2>4. Delivered(r)' = Delivered(r)
    BY <1>5 DEF Whole, Delivered
  <2>5. head[r].resp.keep \in BOOLEAN
    BY <2>2
  <2>6. Finish(r, "ok", head[r].resp.keep) /\ pc[r] = "body" /\ Active(r)
    BY <1>5 DEF Whole, Active
  <2>7. UNCHANGED <<place, route, sent, head, got, cleaned>>
    BY <1>5 DEF Whole
  <2> DEFINE keep == head[r].resp.keep
  <2>8. keep => pc[r] = "body" /\ head[r].resp.keep
    BY <2>6
  <2>9. keep \in BOOLEAN /\ Finish(r, "ok", keep)
    BY <2>5, <2>6
  <2> HIDE DEF keep
  <2> QED
    BY <1>0, <2>1, <2>3, <2>4, <2>6, <2>7, <2>8, <2>9, FinishKeeps
<1>6. CASE PlainCutShort(r)
  <2>1. r \notin Pooled
    BY <1>6, TlsAssumption DEF PlainCutShort
  <2>2. head[r].resp \in Answers /\ head[r].of = r
    BY <1>6, <2>1 DEF PlainCutShort, Heads
  <2> QED
    BY <1>0, <1>6, <2>1, <2>2, FinishKeeps DEF PlainCutShort, Active
<1>7. CASE Drain(r) /\ MyConn(r).peer = "fin"
  BY <1>7, ReconnectKeeps DEF Drain, Active
<1> QED
  BY <1>1, <1>2, <1>3, <1>4, <1>5, <1>6, <1>7

-----------------------------------------------------------------------------
(* The steps of a request within an exchange: it stays on its connection,  *)
(* and no other connection changes.                                        *)
Moved == {"connect", "write", "raw", "rawWait", "head", "body"}

LEMMA MoveKeeps ==
    ASSUME Inv, NEW r \in Reqs, Active(r), NEW stage \in Moved,
           pc' = [pc EXCEPT ![r] = stage],
           r \notin Pooled => stage \notin {"raw", "rawWait"},
           UNCHANGED <<place, result, pool>>,
           conn' \in [Places -> Connection],
           \A p \in Places : p # place[r] => conn'[p] = conn[p],
           conn'[place[r]].ask = NoReq \/ (conn'[place[r]].ask = r /\ stage \in Asked),
           \A q \in Reqs : q # r =>
               route'[q] = route[q] /\ sent'[q] = sent[q] /\ head'[q] = head[q]
    PROVE  /\ \A q \in Reqs : pc'[q] = IF q = r THEN stage ELSE pc[q]
           /\ Stages' /\ ContextsExclusive' /\ NothingLeaks' /\ AskedFor'
           /\ \A q \in Reqs : q # r => InboxFits(q)'
<1> USE DEF Inv, Moved
<1>1. \A q \in Reqs : pc'[q] = IF q = r THEN stage ELSE pc[q]
  BY DEF TypeOK
<1>2. \A q \in Reqs : q # r /\ Active(q) => place[q] # place[r]
  BY DEF ContextsExclusive
<1>3. \A q \in Reqs : Active(q)' <=> Active(q)
  BY <1>1 DEF Active
<1>4. Stages'
  BY <1>1 DEF Stages, Active
<1>5. ContextsExclusive'
  BY <1>3 DEF ContextsExclusive
<1>6. NothingLeaks'
  <2>1. ASSUME NEW p \in Places
        PROVE  \/ conn'[p].peer = "none"
               \/ \E q \in Reqs : Active(q)' /\ place'[q] = p
               \/ p \in Slots /\ pool'[p].valid
    <3>1. CASE p = place[r]
      BY <1>3, <3>1
    <3>2. CASE p # place[r]
      BY <1>3, <3>2 DEF NothingLeaks
    <3> QED
      BY <3>1, <3>2
  <2> QED
    BY <2>1 DEF NothingLeaks
<1>7. AskedFor'
  <2>1. ASSUME NEW p \in Places, conn'[p].ask # NoReq
        PROVE  /\ conn'[p].ask \in Reqs /\ place'[conn'[p].ask] = p
               /\ pc'[conn'[p].ask] \in Asked
    <3>1. CASE p = place[r]
      <4>1. conn'[p].ask = r /\ stage \in Asked
        BY <2>1, <3>1
      <4> QED
        BY <1>1, <3>1, <4>1
    <3>2. CASE p # place[r]
      BY <1>1, <2>1, <3>2 DEF AskedFor
    <3> QED
      BY <3>1, <3>2
  <2> QED
    BY <2>1 DEF AskedFor
<1>8. ASSUME NEW q \in Reqs, q # r
      PROVE  InboxFits(q)'
  <2>1. pc'[q] = pc[q] /\ head'[q] = head[q]
    BY <1>1, <1>8
  <2>2. Active(q) => MyConn(q)' = MyConn(q)
    <3>1. Active(q) => place[q] # place[r] /\ place[q] \in Places
      BY <1>2, <1>8 DEF TypeOK
    <3> QED
      BY <3>1 DEF MyConn
  <2> QED
    BY <2>1, <2>2 DEF Inboxes, InboxFits, Active, Late, Mine
<1> QED
  BY <1>1, <1>4, <1>5, <1>6, <1>7, <1>8

(* No step within an exchange ends a request. *)
LEMMA NoneEnds ==
    ASSUME Inv, NEW r \in Reqs, Active(r),
           UNCHANGED result,
           \A q \in Reqs : q # r => pc'[q] = pc[q] /\ head'[q] = head[q] /\ got'[q] = got[q],
           pc'[r] = "body" => /\ head'[r].resp \in Answers
                              /\ head'[r].of = r \/ (r \in Pooled /\ head'[r].late)
    PROVE  Heads' /\ WholeBody'
<1>1. result[r] # "ok"
  BY DEF Inv, Stages, Active
<1>2. Heads'
  BY <1>1 DEF Inv, Heads
<1>3. WholeBody'
  <2>1. \A q \in Pooled : q \in Reqs
    BY DEF Reqs
  <2> QED
    BY <1>1, <2>1 DEF Inv, WholeBody, Delivered
<1> QED
  BY <1>2, <1>3

LEMMA NoteSets ==
    ASSUME NEW r \in Reqs
    PROVE  /\ <<>> \in Seq(Late(r)) /\ Late(r) \subseteq Mine(r) /\ Mine(r) \subseteq Tokens
           /\ Seq(Late(r)) \subseteq Seq(Mine(r)) /\ Seq(Mine(r)) \subseteq Seq(Tokens)
<1>1. Late(r) \subseteq Mine(r) /\ Mine(r) \subseteq Tokens
  BY DEF Late, Mine
<1> QED
  BY <1>1, EmptySeq, SeqMonotonic

LEMMA WithinSteps ==
    ASSUME Inv, NEW r \in Reqs,
           \/ Drain(r) /\ MyConn(r).peer # "fin"
           \/ Connect(r) \/ Write(r) \/ TakeBuffer(r) \/ WaitForFirst(r) \/ ReadBody(r)
    PROVE  Inv'
<1> USE DEF Inv
<1>0. /\ place[r] \in Places /\ conn[place[r]] \in Connection
      /\ <<>> \in Seq(Late(r)) /\ <<>> \in Seq(Tokens)
      /\ r \in Reqs /\ r # NoReq
  BY TlsAssumption, EmptySeq DEF TypeOK
<1>1. CASE Drain(r) /\ MyConn(r).peer # "fin"
  <2>1. /\ pc[r] = "drain" /\ Active(r) /\ r \in Pooled
        /\ pc' = [pc EXCEPT ![r] = "write"]
        /\ route' = [route EXCEPT ![r] = "reused"]
        /\ UNCHANGED <<place, sent, head, got, result, pool, raw, cleaned>>
    BY <1>1 DEF Drain, Active, Stages
  <2>2. conn' = [conn EXCEPT ![place[r]] = [conn[place[r]] EXCEPT !.inbox = <<>>]]
    BY <1>1 DEF Drain
  <2>3. [conn[place[r]] EXCEPT !.inbox = <<>>] \in Connection
    BY <1>0 DEF Connection
  <2>4. /\ conn' \in [Places -> Connection]
        /\ \A p \in Places : p # place[r] => conn'[p] = conn[p]
        /\ conn'[place[r]].ask = conn[place[r]].ask
        /\ conn'[place[r]].inbox = <<>>
    BY <1>0, <2>2, <2>3 DEF TypeOK, Connection
  <2>5. conn[place[r]].ask = NoReq
    <3>1. SUFFICES ASSUME conn[place[r]].ask # NoReq PROVE FALSE
      OBVIOUS
    <3>2. /\ conn[place[r]].ask \in Reqs /\ place[conn[place[r]].ask] = place[r]
          /\ pc[conn[place[r]].ask] \in Asked
      BY <1>0, <3>1 DEF AskedFor
    <3> QED
      BY <2>1, <3>2 DEF ContextsExclusive, Active, Asked
  <2>6. /\ \A q \in Reqs : pc'[q] = IF q = r THEN "write" ELSE pc[q]
        /\ \A q \in Reqs : route'[q] = IF q = r THEN "reused" ELSE route[q]
    BY <2>1 DEF TypeOK
  <2>7. TypeOK'
    BY <2>1, <2>4 DEF TypeOK
  <2>8. Locks'
    BY <2>1, <2>6 DEF Locks, Reading
  <2>9. Tries'
    <3>1. sent[r] = 0
      BY <2>1 DEF Tries
    <3> QED
      BY <2>1, <2>6, <3>1 DEF Tries
  <2>10. /\ Stages' /\ ContextsExclusive' /\ NothingLeaks' /\ AskedFor'
         /\ \A q \in Reqs : q # r => InboxFits(q)'
    BY <2>1, <2>4, <2>5, <2>6, MoveKeeps DEF Moved
  <2>11. Inboxes'
    <3>1. MyConn(r)'.inbox \in Seq(Late(r))
      BY <1>0, <2>1, <2>4 DEF MyConn
    <3>2. InboxFits(r)'
      BY <2>6, <3>1 DEF InboxFits, Late, Mine
    <3> QED
      BY <2>10, <3>2 DEF Inboxes
  <2>12. Heads' /\ WholeBody'
    BY <2>1, <2>6, NoneEnds
  <2> QED
    BY <2>7, <2>8, <2>9, <2>10, <2>11, <2>12
<1>2. CASE Connect(r)
  <2>1. /\ pc[r] = "connect" /\ Active(r)
        /\ pc' = [pc EXCEPT ![r] = "write"]
        /\ conn' = [conn EXCEPT ![place[r]] = FreshConn]
        /\ UNCHANGED <<place, route, sent, head, got, result, pool, raw, cleaned>>
    BY <1>2 DEF Connect, Active, request
  <2>2. /\ conn' \in [Places -> Connection]
        /\ \A p \in Places : p # place[r] => conn'[p] = conn[p]
        /\ conn'[place[r]] = FreshConn
        /\ conn'[place[r]].ask = NoReq /\ conn'[place[r]].inbox = <<>>
    BY <1>0, <2>1, Constants DEF TypeOK, FreshConn, NoConn
  <2>3. \A q \in Reqs : pc'[q] = IF q = r THEN "write" ELSE pc[q]
    BY <2>1 DEF TypeOK
  <2>4. TypeOK'
    BY <2>1, <2>2 DEF TypeOK
  <2>5. Locks'
    BY <2>1, <2>3 DEF Locks, Reading
  <2>6. Tries'
    BY <2>1, <2>3 DEF Tries
  <2>7. /\ Stages' /\ ContextsExclusive' /\ NothingLeaks' /\ AskedFor'
        /\ \A q \in Reqs : q # r => InboxFits(q)'
    BY <2>1, <2>2, MoveKeeps DEF Moved
  <2>8. Inboxes'
    <3>1. MyConn(r)'.inbox \in Seq(Late(r))
      BY <1>0, <2>1, <2>2 DEF MyConn
    <3>2. InboxFits(r)'
      BY <2>3, <3>1 DEF InboxFits, Late, Mine
    <3> QED
      BY <2>7, <3>2 DEF Inboxes
  <2>9. Heads' /\ WholeBody'
    BY <2>1, <2>3, NoneEnds
  <2> QED
    BY <2>4, <2>5, <2>6, <2>7, <2>8, <2>9
<1>3. CASE Write(r)
  <2> DEFINE stage == IF r \in Pooled THEN "raw" ELSE "head"
  <2>1. /\ pc[r] = "write" /\ Active(r)
        /\ pc' = [pc EXCEPT ![r] = stage]
        /\ UNCHANGED <<place, route, head, got, result, pool, raw, cleaned>>
    BY <1>3 DEF Write, Active
  <2>2. stage \in {"raw", "head"} /\ (r \notin Pooled => stage = "head")
    OBVIOUS
  <2>3. MyConn(r).inbox \in Seq(Late(r)) /\ MyConn(r).ask # r
    <3>1. MyConn(r).inbox \in Seq(Late(r))
      BY <2>1 DEF Inboxes, InboxFits
    <3>2. MyConn(r).ask # r
      BY <1>0, <2>1 DEF AskedFor, MyConn, Asked
    <3> QED
      BY <3>1, <3>2
  <2>4. /\ conn' \in [Places -> Connection]
        /\ \A p \in Places : p # place[r] => conn'[p] = conn[p]
        /\ conn'[place[r]].ask = NoReq \/ conn'[place[r]].ask = r
        /\ conn'[place[r]].inbox = conn[place[r]].inbox
    <3>1. CASE MyConn(r).peer = "open"
      <4>1. conn' = [conn EXCEPT ![place[r]] = [conn[place[r]] EXCEPT !.ask = r]]
        BY <1>3, <3>1 DEF Write
      <4>2. [conn[place[r]] EXCEPT !.ask = r] \in Connection
        BY <1>0 DEF Connection
      <4> QED
        BY <1>0, <4>1, <4>2 DEF TypeOK, Connection
    <3>2. CASE MyConn(r).peer # "open"
      <4>1. conn' = conn
        BY <1>3, <3>2 DEF Write
      <4>2. conn[place[r]].ask = NoReq
        <5>1. SUFFICES ASSUME conn[place[r]].ask # NoReq PROVE FALSE
          OBVIOUS
        <5>2. /\ conn[place[r]].ask \in Reqs /\ place[conn[place[r]].ask] = place[r]
              /\ pc[conn[place[r]].ask] \in Asked
          BY <1>0, <5>1 DEF AskedFor
        <5> QED
          BY <2>1, <5>2 DEF ContextsExclusive, Active, Asked
      <4> QED
        BY <4>1, <4>2 DEF TypeOK
    <3> QED
      BY <3>1, <3>2
  <2>5. /\ sent' \in [Reqs -> 0..2]
        /\ \A q \in Reqs : q # r => sent'[q] = sent[q]
        /\ sent'[r] = sent[r] \/ sent'[r] = sent[r] + 1
    <3>1. sent[r] \in 0..1
      BY <2>1 DEF Tries, TypeOK
    <3>2. sent' = sent \/ sent' = [sent EXCEPT ![r] = sent[r] + 1]
      BY <1>3 DEF Write
    <3> QED
      BY <3>1, <3>2 DEF TypeOK
  <2> HIDE DEF stage
  <2>6. \A q \in Reqs : pc'[q] = IF q = r THEN stage ELSE pc[q]
    BY <2>1 DEF TypeOK
  <2>7. TypeOK'
    <3>1. pc' \in [Reqs -> {"start", "drain", "connect", "write", "raw", "rawWait",
                              "head", "body", "done"}]
      BY <2>1, <2>2 DEF TypeOK
    <3> QED
      BY <2>1, <2>4, <2>5, <3>1 DEF TypeOK
  <2>8. Locks'
    <3>1. \A q \in Reqs : Reading(q)' <=> Reading(q)
      BY <2>1, <2>2, <2>6 DEF Reading, stage
    <3>2. \A b \in RawBufs : raw[b] \in Reqs \cup {NoReq}
      BY DEF TypeOK
    <3> QED
      BY <2>1, <3>1, <3>2 DEF Locks
  <2>9. Tries'
    <3>1. sent[r] = 0 \/ (sent[r] = 1 /\ route[r] = "retried")
      BY <2>1 DEF Tries
    <3>2. stage \notin {"start", "drain", "connect", "write"}
      BY <2>2
    <3> QED
      BY <2>1, <2>5, <2>6, <3>1, <3>2 DEF Tries
  <2>10. /\ Stages' /\ ContextsExclusive' /\ NothingLeaks' /\ AskedFor'
         /\ \A q \in Reqs : q # r => InboxFits(q)'
    <3>1. stage \in Moved /\ stage \in Asked /\ (r \notin Pooled => stage \notin {"raw", "rawWait"})
      BY <2>2 DEF Moved, Asked
    <3> QED
      BY <2>1, <2>4, <2>5, <3>1, MoveKeeps
  <2>11. Inboxes'
    <3>1. MyConn(r)'.inbox \in Seq(Late(r)) /\ MyConn(r)'.inbox \in Seq(Mine(r))
      BY <1>0, <2>1, <2>3, <2>4, NoteSets DEF MyConn
    <3>2. InboxFits(r)'
      BY <2>2, <2>6, <3>1 DEF InboxFits, Late, Mine
    <3> QED
      BY <2>10, <3>2 DEF Inboxes
  <2>12. Heads' /\ WholeBody'
    BY <2>1, <2>2, <2>6, NoneEnds
  <2> QED
    BY <2>7, <2>8, <2>9, <2>10, <2>11, <2>12
<1>4. CASE TakeBuffer(r)
  <2>1. /\ pc[r] \in {"raw", "rawWait"} /\ Active(r) /\ r \in Pooled
        /\ Free # {}
        /\ pc' = [pc EXCEPT ![r] = "head"]
        /\ raw' = [raw EXCEPT ![First(Free)] = r]
        /\ UNCHANGED <<place, route, sent, head, got, result, pool, conn, cleaned>>
    BY <1>4 DEF TakeBuffer, Active, request, Stages
  <2>2. First(Free) \in RawBufs /\ raw[First(Free)] = NoReq
    <3>1. Free \subseteq RawBufs /\ Free \subseteq Nat
      BY Constants DEF Free
    <3>2. First(Free) \in Free
      BY <2>1, <3>1, FirstIn
    <3> QED
      BY <3>2 DEF Free
  <2>3. \A q \in Reqs : pc'[q] = IF q = r THEN "head" ELSE pc[q]
    BY <2>1 DEF TypeOK
  <2>4. TypeOK'
    BY <2>1, <2>2 DEF TypeOK
  <2>5. Locks'
    <3>1. \A q \in Reqs : Reading(q)' <=> Reading(q) \/ q = r
      BY <2>1, <2>3 DEF Reading
    <3>2. \A b \in RawBufs : raw'[b] = IF b = First(Free) THEN r ELSE raw[b]
      BY <2>1, <2>2 DEF TypeOK
    <3>3. ~Reading(r)
      BY <2>1 DEF Reading
    <3>4. \A b \in RawBufs : raw[b] \in Reqs \cup {NoReq} /\ raw[b] # r
      BY <1>0, <3>3 DEF TypeOK, Locks
    <3>5. \A q \in Reqs : \A b \in RawBufs : raw'[b] = q => Reading(q)'
      BY <3>1, <3>2 DEF Locks
    <3>6. \A q \in Reqs : \A b, c \in RawBufs : raw'[b] = q /\ raw'[c] = q => b = c
      BY <3>2, <3>4 DEF Locks
    <3>7. ASSUME NEW q \in Reqs, Reading(q)' PROVE \E b \in RawBufs : raw'[b] = q
      <4>1. CASE q = r
        BY <2>2, <3>2, <4>1
      <4>2. CASE q # r
        <5>1. PICK b \in RawBufs : raw[b] = q
          BY <3>1, <3>7, <4>2 DEF Locks
        <5> QED
          BY <1>0, <2>2, <3>2, <5>1, TlsAssumption
      <4> QED
        BY <4>1, <4>2
    <3> QED
      BY <3>5, <3>6, <3>7 DEF Locks
  <2>6. Tries'
    BY <2>1, <2>3 DEF Tries
  <2>7. /\ Stages' /\ ContextsExclusive' /\ NothingLeaks' /\ AskedFor'
        /\ \A q \in Reqs : q # r => InboxFits(q)'
    <3>1. conn[place[r]].ask = NoReq \/ conn[place[r]].ask = r
      BY <1>0, <2>1 DEF AskedFor, ContextsExclusive, Active, Asked
    <3>2. conn' \in [Places -> Connection]
      BY <2>1 DEF TypeOK
    <3> QED
      BY <2>1, <3>1, <3>2, MoveKeeps DEF Moved, Asked
  <2>8. Inboxes'
    <3>1. MyConn(r)' = MyConn(r)
      BY <2>1 DEF MyConn
    <3>2. /\ MyConn(r).inbox \in Seq(Mine(r))
          /\ MyConn(r).ask = r => MyConn(r).inbox \in Seq(Late(r))
      BY <2>1 DEF Inboxes, InboxFits
    <3>3. InboxFits(r)'
      BY <2>3, <3>1, <3>2 DEF InboxFits, Late, Mine
    <3> QED
      BY <2>7, <3>3 DEF Inboxes
  <2>9. Heads' /\ WholeBody'
    BY <2>1, <2>3, NoneEnds
  <2> QED
    BY <2>4, <2>5, <2>6, <2>7, <2>8, <2>9
<1>5. CASE WaitForFirst(r)
  <2>1. /\ pc[r] = "raw" /\ Active(r) /\ r \in Pooled
        /\ pc' = [pc EXCEPT ![r] = "rawWait"]
        /\ UNCHANGED <<place, route, sent, head, got, result, pool, conn, raw, cleaned>>
    BY <1>5 DEF WaitForFirst, Active, request, Stages
  <2>2. \A q \in Reqs : pc'[q] = IF q = r THEN "rawWait" ELSE pc[q]
    BY <2>1 DEF TypeOK
  <2>3. TypeOK'
    BY <2>1 DEF TypeOK
  <2>4. Locks'
    <3>1. \A q \in Reqs : Reading(q)' <=> Reading(q)
      BY <2>1, <2>2 DEF Reading
    <3> QED
      BY <2>1, <3>1 DEF Locks
  <2>5. Tries'
    BY <2>1, <2>2 DEF Tries
  <2>6. /\ Stages' /\ ContextsExclusive' /\ NothingLeaks' /\ AskedFor'
        /\ \A q \in Reqs : q # r => InboxFits(q)'
    <3>1. conn[place[r]].ask = NoReq \/ conn[place[r]].ask = r
      BY <1>0, <2>1 DEF AskedFor, ContextsExclusive, Active, Asked
    <3>2. conn' \in [Places -> Connection]
      BY <2>1 DEF TypeOK
    <3> QED
      BY <2>1, <3>1, <3>2, MoveKeeps DEF Moved, Asked
  <2>7. Inboxes'
    <3>1. MyConn(r)' = MyConn(r)
      BY <2>1 DEF MyConn
    <3>2. /\ MyConn(r).inbox \in Seq(Mine(r))
          /\ MyConn(r).ask = r => MyConn(r).inbox \in Seq(Late(r))
      BY <2>1 DEF Inboxes, InboxFits
    <3>3. InboxFits(r)'
      BY <2>2, <3>1, <3>2 DEF InboxFits, Late, Mine
    <3> QED
      BY <2>6, <3>3 DEF Inboxes
  <2>8. Heads' /\ WholeBody'
    BY <2>1, <2>2, NoneEnds
  <2> QED
    BY <2>3, <2>4, <2>5, <2>6, <2>7, <2>8
<1>6. CASE ReadBody(r)
  <2> DEFINE all == Len(MyConn(r).inbox)
             room == Cap - got[r]
             n == IF all < room THEN all ELSE room
  <2>1. /\ pc[r] = "body" /\ Active(r) /\ got[r] < Cap
        /\ got' = [got EXCEPT ![r] = got[r] + n]
        /\ Take(r, n)
        /\ UNCHANGED <<pc, place, route, sent, head, result, pool, raw, cleaned>>
    BY <1>6 DEF ReadBody, Active
  <2>2. MyConn(r).inbox \in Seq(Tokens)
    BY <1>0 DEF MyConn, Connection
  <2>3. n \in Nat /\ n <= Len(MyConn(r).inbox)
    <3>1. all \in Nat
      BY <2>2, LenProperties
    <3>2. room \in Nat
      BY <2>1, TlsAssumption DEF TypeOK
    <3> HIDE DEF all, room
    <3> QED
      BY <3>1, <3>2 DEF all
  <2> HIDE DEF n
  <2>4. /\ conn' = [conn EXCEPT ![place[r]] = [conn[place[r]] EXCEPT !.inbox =
                       SubSeq(conn[place[r]].inbox, n + 1, Len(conn[place[r]].inbox))]]
        /\ conn'[place[r]].inbox \in Seq(Tokens)
    BY <2>1, <2>2, <2>3, TakeEffect
  <2>5. /\ conn' \in [Places -> Connection]
        /\ \A p \in Places : p # place[r] => conn'[p] = conn[p]
        /\ conn'[place[r]].ask = conn[place[r]].ask
    <3> DEFINE left == SubSeq(conn[place[r]].inbox, n + 1, Len(conn[place[r]].inbox))
    <3>1. conn' = [conn EXCEPT ![place[r]] = [conn[place[r]] EXCEPT !.inbox = left]]
      BY <2>4
    <3> HIDE DEF left
    <3>2. conn'[place[r]] = [conn[place[r]] EXCEPT !.inbox = left]
      BY <1>0, <3>1 DEF TypeOK
    <3>3. left \in Seq(Tokens)
      BY <1>0, <2>4, <3>2 DEF Connection
    <3>4. [conn[place[r]] EXCEPT !.inbox = left] \in Connection
      BY <1>0, <3>3 DEF Connection
    <3> QED
      BY <1>0, <3>1, <3>2, <3>4 DEF TypeOK, Connection
  <2>6. TypeOK'
    <3>1. got' \in [Reqs -> Nat]
      BY <2>1, <2>3 DEF TypeOK
    <3> QED
      BY <2>1, <2>5, <3>1 DEF TypeOK
  <2>7. Locks'
    BY <2>1 DEF Locks, Reading
  <2>8. Tries'
    BY <2>1 DEF Tries
  <2>9. /\ Stages' /\ ContextsExclusive' /\ NothingLeaks' /\ AskedFor'
        /\ \A q \in Reqs : q # r => InboxFits(q)'
    <3>1. conn[place[r]].ask = NoReq \/ conn[place[r]].ask = r
      BY <1>0, <2>1 DEF AskedFor, ContextsExclusive, Active, Asked
    <3>2. pc' = [pc EXCEPT ![r] = "body"]
      BY <2>1 DEF TypeOK
    <3> QED
      BY <2>1, <2>5, <3>1, <3>2, MoveKeeps DEF Moved, Asked
  <2>10. Inboxes'
    <3>1. MyConn(r)'.ask = MyConn(r).ask
      BY <2>1, <2>5 DEF MyConn
    <3>2. InboxFits(r)'
      BY <2>1, <3>1 DEF Inboxes, InboxFits
    <3> QED
      BY <2>9, <3>2 DEF Inboxes
  <2>11. Heads' /\ WholeBody'
    <3>1. head[r].resp \in Answers /\ (head[r].of = r \/ (r \in Pooled /\ head[r].late))
      BY <2>1 DEF Heads
    <3>2. \A q \in Reqs : q # r => got'[q] = got[q]
      BY <2>1 DEF TypeOK
    <3> QED
      BY <2>1, <3>1, <3>2, NoneEnds
  <2> QED
    BY <2>6, <2>7, <2>8, <2>9, <2>10, <2>11
<1> QED
  BY <1>1, <1>2, <1>3, <1>4, <1>5, <1>6

(* The head: of the request's own answer, or of a notice that came late. *)
LEMMA ReadHeadStep ==
    ASSUME Inv, NEW r \in Reqs, ReadHead(r)
    PROVE  Inv'
<1> USE DEF Inv
<1> DEFINE box == MyConn(r).inbox
           token == Head(box)
           cut == token.resp = CutHead
<1>1. /\ pc[r] = "head" /\ Active(r) /\ box # <<>> /\ token # Part
      /\ head' = [head EXCEPT ![r] = token]
      /\ got' = [got EXCEPT ![r] = 0]
      /\ UNCHANGED <<place, route, sent, cleaned>>
  BY DEF ReadHead, HeadRead, Arrived, Active
<1>2. /\ place[r] \in Places /\ conn[place[r]] \in Connection /\ r \in Reqs /\ r # NoReq
  BY TlsAssumption DEF TypeOK
<1>3. box \in Seq(Mine(r)) /\ (MyConn(r).ask = r => box \in Seq(Late(r)))
  BY <1>1 DEF Inboxes, InboxFits
<1>4. token \in Mine(r) /\ (MyConn(r).ask = r => token \in Late(r))
  <2> HIDE DEF box
  <2> QED
    BY <1>1, <1>3, HeadTailProperties
<1> HIDE DEF token
<1>5. /\ token \in Tokens
      /\ token.resp \in Answers
      /\ token.of = r \/ (r \in Pooled /\ token.late)
      /\ MyConn(r).ask = r => token.resp = Notice
  BY <1>1, <1>4, Constants DEF Mine, Late
<1>6. head' \in [Reqs -> Tokens] /\ got' \in [Reqs -> Nat]
  BY <1>1, <1>5 DEF TypeOK
<1>7. /\ head'[r] = token
      /\ \A q \in Reqs : q # r => head'[q] = head[q] /\ got'[q] = got[q]
  BY <1>1 DEF TypeOK
<1>8. CASE r \in Dates \/ cut
  <2>1. PICK outcome \in {"ok", "error"} : Finish(r, outcome, FALSE)
    BY <1>8 DEF ReadHead, token
  <2>2. r \in Pooled => token.resp.frame = "cut"
    BY <1>8, TlsAssumption DEF CutHead
  <2>3. /\ head'[r].resp \in Answers
        /\ head'[r].of = r \/ (r \in Pooled /\ head'[r].late)
        /\ ~(r \in Pooled /\ head'[r].resp.frame \notin {"extended", "cut"})
    BY <1>5, <1>7, <2>2
  <2>4. UNCHANGED <<place, route, sent, cleaned>> /\ Active(r)
    BY <1>1
  <2> HIDE DEF Inv, box, cut
  <2> QED
    BY <1>6, <1>7, <2>1, <2>3, <2>4, FinishKeeps, ZenonT(30)
<1>9. CASE ~(r \in Dates \/ cut)
  <2>1. /\ Take(r, 1)
        /\ pc' = [pc EXCEPT ![r] = "body"]
        /\ UNCHANGED <<result, pool, raw>>
    BY <1>9 DEF ReadHead, token
  <2>2. box \in Seq(Tokens) /\ Len(box) \in Nat /\ 1 <= Len(box)
    <3>1. box \in Seq(Tokens)
      BY <1>2 DEF MyConn, Connection
    <3> HIDE DEF box
    <3> QED
      BY <1>1, <3>1, EmptySeq, LenProperties
  <2>3. /\ conn' = [conn EXCEPT ![place[r]] = [conn[place[r]] EXCEPT !.inbox =
                       SubSeq(conn[place[r]].inbox, 1 + 1, Len(conn[place[r]].inbox))]]
        /\ conn'[place[r]].inbox \in Seq(Tokens)
    BY <2>1, <2>2, TakeEffect
  <2>4. /\ conn' \in [Places -> Connection]
        /\ \A p \in Places : p # place[r] => conn'[p] = conn[p]
        /\ conn'[place[r]].ask = conn[place[r]].ask
    <3> DEFINE left == SubSeq(conn[place[r]].inbox, 1 + 1, Len(conn[place[r]].inbox))
    <3>1. conn' = [conn EXCEPT ![place[r]] = [conn[place[r]] EXCEPT !.inbox = left]]
      BY <2>3
    <3> HIDE DEF left
    <3>2. conn'[place[r]] = [conn[place[r]] EXCEPT !.inbox = left]
      BY <1>2, <3>1 DEF TypeOK
    <3>3. left \in Seq(Tokens)
      BY <1>2, <2>3, <3>2 DEF Connection
    <3>4. [conn[place[r]] EXCEPT !.inbox = left] \in Connection
      BY <1>2, <3>3 DEF Connection
    <3> QED
      BY <1>2, <3>1, <3>2, <3>4 DEF TypeOK, Connection
  <2>5. \A q \in Reqs : pc'[q] = IF q = r THEN "body" ELSE pc[q]
    BY <2>1 DEF TypeOK
  <2>6. TypeOK'
    <3>1. pc' \in [Reqs -> {"start", "drain", "connect", "write", "raw", "rawWait",
                              "head", "body", "done"}]
      BY <2>1 DEF TypeOK
    <3> QED
      BY <1>1, <1>6, <2>1, <2>4, <3>1 DEF TypeOK
  <2>7. Locks'
    <3>1. \A q \in Reqs : Reading(q)' <=> Reading(q)
      BY <1>1, <2>5 DEF Reading
    <3> QED
      BY <2>1, <3>1 DEF Locks
  <2>8. Tries'
    BY <1>1, <2>5 DEF Tries
  <2>9. /\ Stages' /\ ContextsExclusive' /\ NothingLeaks' /\ AskedFor'
        /\ \A q \in Reqs : q # r => InboxFits(q)'
    <3>1. conn[place[r]].ask = NoReq \/ conn[place[r]].ask = r
      BY <1>1, <1>2 DEF AskedFor, ContextsExclusive, Active, Asked
    <3>2. \A q \in Reqs : q # r =>
             route'[q] = route[q] /\ sent'[q] = sent[q] /\ head'[q] = head[q]
      BY <1>1, <1>7
    <3>3. UNCHANGED <<place, result, pool>>
      BY <1>1, <2>1
    <3>4. "body" \in Moved /\ (r \notin Pooled => "body" \notin {"raw", "rawWait"})
      BY DEF Moved
    <3>5. conn'[place[r]].ask = NoReq \/ (conn'[place[r]].ask = r /\ "body" \in Asked)
      BY <2>4, <3>1 DEF Asked
    <3>6. /\ Active(r) /\ pc' = [pc EXCEPT ![r] = "body"]
          /\ conn' \in [Places -> Connection]
          /\ \A p \in Places : p # place[r] => conn'[p] = conn[p]
      BY <1>1, <2>1, <2>4
    <3> QED
      BY <3>2, <3>3, <3>4, <3>5, <3>6, MoveKeeps
  <2>10. Inboxes'
    <3>1. MyConn(r)'.ask = MyConn(r).ask
      BY <1>1, <2>4 DEF MyConn
    <3>2. InboxFits(r)'
      <4>1. pc'[r] = "body" /\ MyConn(r).ask = r => head'[r].resp = Notice
        BY <1>5, <1>7
      <4>2. ~Notice.keep
        BY DEF Notice
      <4> QED
        BY <2>5, <3>1, <4>1, <4>2 DEF InboxFits
    <3> QED
      BY <2>9, <3>2 DEF Inboxes
  <2>11. Heads' /\ WholeBody'
    BY <1>1, <1>5, <1>7, <2>1, <2>5, NoneEnds
  <2> QED
    BY <2>6, <2>7, <2>8, <2>9, <2>10, <2>11
<1> QED
  BY <1>8, <1>9

-----------------------------------------------------------------------------
(* The first step of a request, the cleanup of the pool, and the servers *)

LEMMA StartSteps ==
    ASSUME Inv, NEW r \in Reqs, AcquireSlot(r) \/ Ephemeral(r) \/ Unpooled(r)
    PROVE  Inv'
<1> USE DEF Inv
<1>1. /\ pc[r] = "start" /\ ~Active(r) /\ place[r] = r /\ result[r] = "none"
      /\ UNCHANGED <<route, sent, head, got, result, raw, cleaned>>
  BY DEF AcquireSlot, Ephemeral, Unpooled, InOwnContext, request, Active, Stages, TypeOK
<1>2. PICK stage \in {"drain", "connect"} : pc' = [pc EXCEPT ![r] = stage]
  BY DEF AcquireSlot, Ephemeral, Unpooled, InOwnContext
<1>3. /\ pc' \in [Reqs -> {"start", "drain", "connect", "write", "raw", "rawWait",
                            "head", "body", "done"}]
      /\ \A q \in Reqs : pc'[q] = IF q = r THEN stage ELSE pc[q]
  BY <1>2 DEF TypeOK
<1>4. \A q \in Reqs : Active(q)' <=> Active(q) \/ q = r
  BY <1>3 DEF Active
<1>5. Locks'
  <2>1. \A q \in Reqs : Reading(q)' <=> Reading(q)
    BY <1>1, <1>3 DEF Reading
  <2> QED
    BY <1>1, <2>1 DEF Locks
<1>6. Tries'
  BY <1>1, <1>3 DEF Tries
<1>7. Heads' /\ WholeBody'
  <2>1. Heads'
    BY <1>1, <1>3 DEF Heads
  <2> QED
    BY <1>1, <2>1 DEF WholeBody, Delivered
<1>8. CASE Ephemeral(r) \/ Unpooled(r)
  <2>1. /\ stage = "connect" /\ UNCHANGED <<place, pool, conn>>
    BY <1>1, <1>2, <1>3, <1>8 DEF Ephemeral, Unpooled, InOwnContext, request, TypeOK
  <2>2. TypeOK'
    BY <1>1, <1>3, <2>1 DEF TypeOK
  <2>3. Stages'
    BY <1>1, <1>3, <2>1 DEF Stages
  <2>4. ContextsExclusive'
    <3>1. \A q \in Reqs : q # r /\ Active(q) => place[q] # r
      BY Constants DEF Stages
    <3>2. \A s \in Slots : place[r] # s
      BY <1>1, Constants
    <3> QED
      BY <1>1, <1>4, <2>1, <3>1, <3>2 DEF ContextsExclusive
  <2>5. NothingLeaks'
    BY <1>4, <2>1 DEF NothingLeaks
  <2>6. AskedFor'
    BY <1>1, <1>3, <2>1 DEF AskedFor, Asked
  <2>7. Inboxes'
    <3>1. ASSUME NEW q \in Reqs PROVE InboxFits(q)'
      <4>1. MyConn(q)' = MyConn(q) /\ head' = head
        BY <1>1, <2>1 DEF MyConn
      <4> QED
        BY <1>3, <2>1, <4>1 DEF Inboxes, InboxFits, Late, Mine
    <3> QED
      BY <3>1 DEF Inboxes
  <2> QED
    BY <1>5, <1>6, <1>7, <2>2, <2>3, <2>4, <2>5, <2>6, <2>7
<1>9. CASE AcquireSlot(r)
  <2> DEFINE s == TakeSlot(r)
             kept == Kept(r) # {}
  <2>1. /\ r \in Pooled
        /\ place' = [place EXCEPT ![r] = s]
        /\ pool' = [pool EXCEPT ![s] = [pool[s] EXCEPT !.inUse = TRUE, !.valid = kept]]
        /\ conn' = IF kept THEN conn ELSE [conn EXCEPT ![s] = NoConn]
    BY <1>9 DEF AcquireSlot
  <2>2. s \in Slots /\ ~pool[s].inUse /\ (kept => pool[s].valid)
    <3>1. /\ Kept(r) \subseteq Evictable /\ Unused \subseteq Evictable
          /\ Evictable \subseteq Slots /\ Slots \subseteq Nat
          /\ Evictable # {}
      BY <1>9, Constants DEF AcquireSlot, Kept, Unused, Evictable
    <3>2. CASE kept
      <4>1. s \in Kept(r)
        BY <3>1, <3>2, FirstIn DEF TakeSlot
      <4> QED
        BY <4>1 DEF Kept
    <3>3. CASE ~kept /\ Unused # {}
      <4>1. s \in Unused
        BY <3>1, <3>3, FirstIn DEF TakeSlot
      <4> QED
        BY <3>3, <4>1 DEF Unused
    <3>4. CASE ~kept /\ Unused = {}
      <4>1. s \in Evictable
        BY <3>1, <3>4, FirstIn DEF TakeSlot
      <4> QED
        BY <3>4, <4>1 DEF Evictable
    <3> QED
      BY <3>2, <3>3, <3>4
  <2>3. kept \in BOOLEAN
    OBVIOUS
  <2> HIDE DEF s, kept
  <2>4. \A q \in Reqs : place'[q] = IF q = r THEN s ELSE place[q]
    BY <2>1 DEF TypeOK
  <2>5. \A q \in Reqs : Active(q) => place[q] # s
    BY <2>2 DEF ContextsExclusive
  <2>6. /\ pool' \in [Slots -> PoolSlot]
        /\ pool'[s].inUse /\ pool'[s].valid = kept
        /\ \A t \in Slots : t # s => pool'[t] = pool[t]
    <3>1. pool[s] \in PoolSlot
      BY <2>2 DEF TypeOK
    <3> DEFINE new == [pool[s] EXCEPT !.inUse = TRUE, !.valid = kept]
    <3>2. new \in PoolSlot /\ new.inUse /\ new.valid = kept
      BY <2>3, <3>1 DEF PoolSlot
    <3>3. pool' = [pool EXCEPT ![s] = new]
      BY <2>1
    <3> HIDE DEF new
    <3> QED
      BY <2>2, <3>2, <3>3 DEF TypeOK
  <2>7. /\ conn' \in [Places -> Connection]
        /\ \A p \in Places : p # s => conn'[p] = conn[p]
        /\ kept \/ conn'[s] = NoConn
        /\ conn'[s].ask = NoReq
    <3>1. s \in Places /\ conn[s].ask = NoReq
      <4>1. s \in Places
        BY <2>2 DEF Places
      <4>2. SUFFICES ASSUME conn[s].ask # NoReq PROVE FALSE
        BY <4>1
      <4>3. conn[s].ask \in Reqs /\ place[conn[s].ask] = s /\ pc[conn[s].ask] \in Asked
        BY <4>1, <4>2 DEF AskedFor
      <4> QED
        BY <2>5, <4>3 DEF Active, Asked
    <3> QED
      BY <2>1, <3>1, Constants DEF TypeOK, NoConn
  <2>8. TypeOK'
    <3>1. place' \in [Reqs -> Places]
      BY <2>1, <2>2 DEF TypeOK, Places
    <3> QED
      BY <1>1, <1>3, <2>6, <2>7, <3>1 DEF TypeOK
  <2>9. Stages'
    BY <1>1, <1>2, <1>3, <2>1, <2>2, <2>4 DEF Stages
  <2>10. ContextsExclusive'
    <3>1. \A p, q \in Reqs : p # q /\ Active(p)' /\ Active(q)' => place'[p] # place'[q]
      BY <1>4, <2>4, <2>5 DEF ContextsExclusive
    <3>2. ASSUME NEW t \in Slots
          PROVE  pool'[t].inUse <=> \E q \in Reqs : Active(q)' /\ place'[q] = t
      <4>1. CASE t = s
        BY <1>4, <2>4, <2>6, <4>1
      <4>2. CASE t # s
        <5>1. pool[t].inUse <=> \E q \in Reqs : Active(q) /\ place[q] = t
          BY DEF ContextsExclusive
        <5>2. \A q \in Reqs : Active(q)' /\ place'[q] = t <=> Active(q) /\ place[q] = t
          BY <1>1, <1>4, <2>4, <4>2
        <5> QED
          BY <2>6, <4>2, <5>1, <5>2
      <4> QED
        BY <4>1, <4>2
    <3> QED
      BY <3>1, <3>2 DEF ContextsExclusive
  <2>11. NothingLeaks'
    <3>1. ASSUME NEW p \in Places
          PROVE  \/ conn'[p].peer = "none"
                 \/ \E q \in Reqs : Active(q)' /\ place'[q] = p
                 \/ p \in Slots /\ pool'[p].valid
      <4>1. CASE p = s
        BY <1>4, <2>4, <4>1
      <4>2. CASE p # s
        BY <1>1, <1>4, <2>4, <2>6, <2>7, <4>2 DEF NothingLeaks
      <4> QED
        BY <4>1, <4>2
    <3> QED
      BY <3>1 DEF NothingLeaks
  <2>12. AskedFor'
    <3>1. ASSUME NEW p \in Places, conn'[p].ask # NoReq
          PROVE  /\ conn'[p].ask \in Reqs /\ place'[conn'[p].ask] = p
                 /\ pc'[conn'[p].ask] \in Asked
      <4>1. p # s /\ conn'[p] = conn[p]
        BY <2>7, <3>1
      <4>2. /\ conn[p].ask \in Reqs /\ place[conn[p].ask] = p
            /\ pc[conn[p].ask] \in Asked
        BY <3>1, <4>1 DEF AskedFor
      <4>3. conn[p].ask # r
        BY <1>1, <4>2 DEF Asked
      <4> QED
        BY <1>3, <2>4, <4>1, <4>2, <4>3
    <3> QED
      BY <3>1 DEF AskedFor
  <2>13. Inboxes'
    <3>1. ASSUME NEW q \in Reqs PROVE InboxFits(q)'
      <4>1. CASE q = r
        BY <1>3, <4>1 DEF InboxFits
      <4>2. CASE q # r
        <5>1. pc'[q] = pc[q] /\ head' = head
          BY <1>1, <1>3, <4>2
        <5>2. Active(q) => MyConn(q)' = MyConn(q)
          <6>1. place'[q] = place[q] /\ place[q] \in Places
            BY <2>4, <4>2 DEF TypeOK
          <6> QED
            BY <2>5, <2>7, <6>1 DEF MyConn
        <5> QED
          BY <5>1, <5>2 DEF Inboxes, InboxFits, Active, Late, Mine
      <4> QED
        BY <4>1, <4>2
    <3> QED
      BY <3>1 DEF Inboxes
  <2> QED
    BY <1>5, <1>6, <1>7, <2>8, <2>9, <2>10, <2>11, <2>12, <2>13
<1> QED
  BY <1>8, <1>9

LEMMA CleanupStep ==
    ASSUME Inv, Cleanup
    PROVE  Inv'
<1> USE DEF Inv
<1>1. /\ cleaned' = TRUE
      /\ pool' = [s \in Slots |-> IF pool[s].inUse THEN pool[s] ELSE EmptySlot]
      /\ conn' = [p \in Places |-> IF p \in Evictable THEN NoConn ELSE conn[p]]
      /\ UNCHANGED <<pc, place, route, sent, head, got, result, raw>>
  BY DEF Cleanup, request
<1>2. /\ EmptySlot \in PoolSlot /\ ~EmptySlot.inUse
      /\ \A s \in Slots : pool[s].inUse => s \notin Evictable
      /\ \A p \in Places : p \in Evictable => p \in Slots /\ ~pool[p].inUse
  BY DEF EmptySlot, PoolSlot, Evictable
<1>3. /\ pool' \in [Slots -> PoolSlot] /\ conn' \in [Places -> Connection]
      /\ \A s \in Slots : pool'[s].inUse = pool[s].inUse
  <2>1. \A s \in Slots : pool[s] \in PoolSlot
    BY DEF TypeOK
  <2>2. \A s \in Slots : pool[s].inUse \in BOOLEAN
    BY <2>1 DEF PoolSlot
  <2>3. \A s \in Slots : pool'[s] = IF pool[s].inUse THEN pool[s] ELSE EmptySlot
    BY <1>1
  <2>4. pool' \in [Slots -> PoolSlot]
    BY <1>1, <1>2, <2>1
  <2>5. conn' \in [Places -> Connection]
    BY <1>1, Constants DEF TypeOK
  <2>6. ASSUME NEW s \in Slots PROVE pool'[s].inUse = pool[s].inUse
    <3>1. CASE pool[s].inUse
      BY <2>3, <3>1
    <3>2. CASE ~pool[s].inUse
      <4>1. pool[s].inUse = FALSE /\ pool'[s] = EmptySlot
        BY <2>2, <2>3, <3>2
      <4>2. EmptySlot.inUse = FALSE
        BY DEF EmptySlot
      <4> QED
        BY <4>1, <4>2
    <3> QED
      BY <3>1, <3>2
  <2> QED
    BY <2>4, <2>5, <2>6
<1>4. \A q \in Reqs : Active(q) => place[q] \in Places /\ conn'[place[q]] = conn[place[q]]
  BY <1>1, <1>2 DEF TypeOK, ContextsExclusive
<1>5. TypeOK'
  BY <1>1, <1>3 DEF TypeOK
<1>6. Stages' /\ Tries' /\ Heads'
  BY <1>1 DEF Stages, Tries, Heads
<1>7. Locks' /\ WholeBody'
  BY <1>1 DEF Locks, Reading, WholeBody, Delivered
<1>8. ContextsExclusive'
  BY <1>1, <1>3 DEF ContextsExclusive, Active
<1>9. NothingLeaks'
  <2>1. ASSUME NEW p \in Places
        PROVE  \/ conn'[p].peer = "none"
               \/ \E q \in Reqs : Active(q)' /\ place'[q] = p
               \/ p \in Slots /\ pool'[p].valid
    <3>1. CASE p \in Evictable
      BY <1>1, <3>1 DEF NoConn
    <3>2. CASE p \in Slots /\ pool[p].inUse
      BY <1>1, <3>2 DEF ContextsExclusive, Active
    <3>3. CASE p \notin Slots
      <4>1. conn'[p] = conn[p]
        BY <1>1, <1>2, <3>3
      <4> QED
        BY <1>1, <3>3, <4>1 DEF NothingLeaks, Active
    <3> QED
      BY <3>1, <3>2, <3>3 DEF Evictable
  <2> QED
    BY <2>1 DEF NothingLeaks
<1>10. AskedFor'
  BY <1>1, <1>4 DEF AskedFor, NoConn
<1>11. Inboxes'
  <2>1. ASSUME NEW q \in Reqs PROVE InboxFits(q)'
    <3>1. Active(q) => MyConn(q)' = MyConn(q)
      BY <1>1, <1>4 DEF MyConn
    <3> QED
      BY <1>1, <3>1 DEF Inboxes, InboxFits, Active, Late, Mine
  <2> QED
    BY <2>1 DEF Inboxes
<1> QED
  BY <1>5, <1>6, <1>7, <1>8, <1>9, <1>10, <1>11

(***************************************************************************)
(* A server that still talks changes one connection.  The request it has   *)
(* been asked for may then find its answer, a request that is about to     *)
(* write only a late notice.                                               *)
(***************************************************************************)
LEMMA ServerKeeps ==
    ASSUME Inv, NEW p \in Places, NEW new \in Connection,
           conn[p].peer # "none",
           conn' = [conn EXCEPT ![p] = new], Quiet,
           new.ask \in {conn[p].ask, NoReq},
           \A r \in Reqs : place[r] = p =>
              /\ pc[r] = "write" => new.inbox \in Seq(Late(r))
              /\ pc[r] \in {"raw", "rawWait", "head"} =>
                    /\ new.inbox \in Seq(Mine(r))
                    /\ new.ask = r => new.inbox \in Seq(Late(r))
    PROVE  Inv'
<1> USE DEF Inv
<1>1. UNCHANGED <<pc, place, route, sent, head, got, result, pool, raw, cleaned>>
  BY DEF Quiet, request
<1>2. /\ conn' \in [Places -> Connection] /\ conn'[p] = new
      /\ \A o \in Places : o # p => conn'[o] = conn[o]
  BY DEF TypeOK
<1>3. TypeOK'
  BY <1>1, <1>2 DEF TypeOK
<1>4. Stages' /\ Tries' /\ Heads'
  BY <1>1 DEF Stages, Tries, Heads
<1>5. Locks' /\ WholeBody'
  BY <1>1 DEF Locks, Reading, WholeBody, Delivered
<1>6. ContextsExclusive'
  BY <1>1 DEF ContextsExclusive, Active
<1>7. NothingLeaks'
  BY <1>1, <1>2 DEF NothingLeaks, Active
<1>8. AskedFor'
  <2>1. ASSUME NEW o \in Places, conn'[o].ask # NoReq
        PROVE  /\ conn'[o].ask \in Reqs /\ place'[conn'[o].ask] = o
               /\ pc'[conn'[o].ask] \in Asked
    <3>1. conn'[o].ask = conn[o].ask
      BY <1>2, <2>1
    <3> QED
      BY <1>1, <2>1, <3>1 DEF AskedFor
  <2> QED
    BY <2>1 DEF AskedFor
<1>9. Inboxes'
  <2>1. ASSUME NEW r \in Reqs PROVE InboxFits(r)'
    <3>1. place'[r] = place[r] /\ place[r] \in Places /\ pc'[r] = pc[r] /\ head'[r] = head[r]
      BY <1>1 DEF TypeOK
    <3>2. CASE place[r] = p
      <4>1. MyConn(r)' = new /\ MyConn(r) = conn[p]
        BY <1>2, <3>1, <3>2 DEF MyConn
      <4>2. new.ask = r => conn[p].ask = r
        BY TlsAssumption
      <4> QED
        BY <3>1, <3>2, <4>1, <4>2 DEF Inboxes, InboxFits, Late, Mine
    <3>3. CASE place[r] # p
      <4>1. MyConn(r)' = MyConn(r)
        BY <1>2, <3>1, <3>3 DEF MyConn
      <4> QED
        BY <3>1, <4>1 DEF Inboxes, InboxFits, Late, Mine
    <3> QED
      BY <3>2, <3>3
  <2> QED
    BY <2>1 DEF Inboxes
<1> QED
  BY <1>3, <1>4, <1>5, <1>6, <1>7, <1>8, <1>9

LEMMA AnswerInSeq ==
    ASSUME NEW S, NEW box \in Seq(S), NEW token \in S, Part \in S, NEW n \in Nat
    PROVE  box \o <<token>> \o [i \in 1..n |-> Part] \in Seq(S)
<1> DEFINE parts == [i \in 1..n |-> Part]
<1>1. <<token>> \in Seq(S)
  OBVIOUS
<1>2. parts \in [1..n -> S]
  OBVIOUS
<1>3. parts \in Seq(S)
  BY <1>2, SeqDef
<1>4. box \o <<token>> \in Seq(S)
  BY <1>1, ConcatProperties
<1> HIDE DEF parts
<1> QED
  BY <1>3, <1>4, ConcatProperties

LEMMA RespondStep ==
    ASSUME Inv, NEW p \in Places, Respond(p)
    PROVE  Inv'
<1> USE DEF Inv
<1> DEFINE q == conn[p].ask
<1>1. conn[p].peer = "open" /\ q # NoReq /\ Quiet /\ conn[p] \in Connection
  BY DEF Respond, TypeOK
<1>2. q \in Reqs /\ place[q] = p /\ pc[q] \in Asked /\ Active(q)
  BY <1>1 DEF AskedFor, Asked, Active
<1>3. ASSUME NEW r \in Reqs, place[r] = p, pc[r] \in {"write", "raw", "rawWait", "head"}
      PROVE  r = q /\ pc[r] # "write" /\ conn[p].inbox \in Seq(Late(q))
  <2>1. r = q
    BY <1>2, <1>3 DEF ContextsExclusive, Active
  <2> QED
    BY <1>2, <1>3, <2>1 DEF Inboxes, InboxFits, MyConn, Asked
<1>4. conn[p].inbox \in Seq(Tokens)
  BY <1>1 DEF Connection
<1>5. NoReq \notin Reqs
  BY TlsAssumption
<1>6. ASSUME NEW peer \in {"open", "fin", "mute", "rst"}, NEW n \in Nat, NEW resp \in Answers,
             conn' = [conn EXCEPT ![p] = [peer |-> peer, ask |-> NoReq,
                 inbox |-> conn[p].inbox
                     \o <<[of |-> q, resp |-> resp, late |-> FALSE]>>
                     \o [i \in 1..n |-> Part]]]
      PROVE  Inv'
  <2> DEFINE token == [of |-> q, resp |-> resp, late |-> FALSE]
             box == conn[p].inbox \o <<token>> \o [i \in 1..n |-> Part]
             new == [peer |-> peer, ask |-> NoReq, inbox |-> box]
  <2>1. token \in Tokens /\ token \in Mine(q) /\ Part \in Tokens /\ Part \in Mine(q)
    BY <1>2, Constants DEF Tokens, Mine
  <2>2. box \in Seq(Tokens)
    <3> HIDE DEF token
    <3> QED
      BY <1>4, <2>1, AnswerInSeq
  <2>3. ASSUME conn[p].inbox \in Seq(Late(q)) PROVE box \in Seq(Mine(q))
    <3>1. conn[p].inbox \in Seq(Mine(q))
      BY <1>2, <2>3, NoteSets
    <3> HIDE DEF token
    <3> QED
      BY <2>1, <3>1, AnswerInSeq
  <2>4. conn' = [conn EXCEPT ![p] = new]
    BY <1>6
  <2> HIDE DEF box
  <2>5. new \in Connection
    BY <2>2 DEF Connection
  <2>6. new.ask = NoReq /\ new.inbox = box
    OBVIOUS
  <2> HIDE DEF new
  <2>7. \A r \in Reqs : place[r] = p =>
           /\ pc[r] = "write" => new.inbox \in Seq(Late(r))
           /\ pc[r] \in {"raw", "rawWait", "head"} =>
                 /\ new.inbox \in Seq(Mine(r))
                 /\ new.ask = r => new.inbox \in Seq(Late(r))
    BY <1>3, <1>5, <2>3, <2>6
  <2> QED
    BY <1>1, <2>4, <2>5, <2>6, <2>7, ServerKeeps
<1>7. ASSUME NEW peer \in {"fin", "rst", "mute"},
             conn' = [conn EXCEPT ![p] = [conn[p] EXCEPT !.peer = peer, !.ask = NoReq]]
      PROVE  Inv'
  <2> DEFINE new == [conn[p] EXCEPT !.peer = peer, !.ask = NoReq]
  <2>1. new \in Connection /\ new.ask = NoReq /\ new.inbox = conn[p].inbox
    BY <1>1 DEF Connection
  <2>2. conn' = [conn EXCEPT ![p] = new]
    BY <1>7
  <2> HIDE DEF new
  <2>3. \A r \in Reqs : place[r] = p =>
           /\ pc[r] = "write" => new.inbox \in Seq(Late(r))
           /\ pc[r] \in {"raw", "rawWait", "head"} =>
                 /\ new.inbox \in Seq(Mine(r))
                 /\ new.ask = r => new.inbox \in Seq(Late(r))
    BY <1>2, <1>3, <1>5, <2>1, NoteSets
  <2> QED
    BY <1>1, <2>1, <2>2, <2>3, ServerKeeps
<1>8. CASE \E resp \in Responses[HostOf[q]] : \E n \in 0..Framed(resp) :
             \E peer \in IF n = Framed(resp) THEN {"open"} ELSE {"fin", "mute"} :
                Set(p, [peer |-> peer, ask |-> NoReq,
                        inbox |-> conn[p].inbox
                            \o <<[of |-> q, resp |-> resp, late |-> FALSE]>>
                            \o [i \in 1..n |-> Part]])
  <2>0. PICK resp \in Responses[HostOf[q]] : \E n \in 0..Framed(resp) :
             \E peer \in {"open", "fin", "mute"} :
                Set(p, [peer |-> peer, ask |-> NoReq,
                        inbox |-> conn[p].inbox
                            \o <<[of |-> q, resp |-> resp, late |-> FALSE]>>
                            \o [i \in 1..n |-> Part]])
    BY <1>8
  <2>1. PICK n \in 0..Framed(resp), peer \in {"open", "fin", "mute"} :
                Set(p, [peer |-> peer, ask |-> NoReq,
                        inbox |-> conn[p].inbox
                            \o <<[of |-> q, resp |-> resp, late |-> FALSE]>>
                            \o [i \in 1..n |-> Part]])
    BY <2>0
  <2>2. resp \in Answers
    BY <1>2, TlsAssumption DEF Answers
  <2>3. n \in Nat
    OBVIOUS
  <2> QED
    BY <1>6, <2>1, <2>2, <2>3 DEF Set
<1>9. CASE \E peer \in {"fin", "mute"} :
             Set(p, [peer |-> peer, ask |-> NoReq,
                     inbox |-> Append(conn[p].inbox,
                         [of |-> q, resp |-> CutHead, late |-> FALSE])])
  <2>1. PICK peer \in {"fin", "mute"} :
             Set(p, [peer |-> peer, ask |-> NoReq,
                     inbox |-> Append(conn[p].inbox,
                         [of |-> q, resp |-> CutHead, late |-> FALSE])])
    BY <1>9
  <2> DEFINE token == [of |-> q, resp |-> CutHead, late |-> FALSE]
             box == Append(conn[p].inbox, token)
             new == [peer |-> peer, ask |-> NoReq, inbox |-> box]
  <2>2. token \in Tokens /\ token \in Mine(q)
    BY <1>2, Constants DEF Tokens, Mine
  <2>3. box \in Seq(Tokens)
    <3> HIDE DEF token
    <3> QED
      BY <1>4, <2>2, AppendProperties
  <2>4. ASSUME conn[p].inbox \in Seq(Late(q)) PROVE box \in Seq(Mine(q))
    <3>1. conn[p].inbox \in Seq(Mine(q))
      BY <1>2, <2>4, NoteSets
    <3> HIDE DEF token
    <3> QED
      BY <2>2, <3>1, AppendProperties
  <2>5. conn' = [conn EXCEPT ![p] = new]
    BY <2>1 DEF Set
  <2> HIDE DEF box
  <2>6. new \in Connection
    BY <2>3 DEF Connection
  <2>7. new.ask = NoReq /\ new.inbox = box
    OBVIOUS
  <2> HIDE DEF new
  <2>8. \A r \in Reqs : place[r] = p =>
           /\ pc[r] = "write" => new.inbox \in Seq(Late(r))
           /\ pc[r] \in {"raw", "rawWait", "head"} =>
                 /\ new.inbox \in Seq(Mine(r))
                 /\ new.ask = r => new.inbox \in Seq(Late(r))
    BY <1>3, <1>5, <2>4, <2>7
  <2> QED
    BY <1>1, <2>5, <2>6, <2>7, <2>8, ServerKeeps
<1>10. CASE \E peer \in {"fin", "rst", "mute"} :
             Set(p, [conn[p] EXCEPT !.peer = peer, !.ask = NoReq])
  BY <1>7, <1>10 DEF Set
<1> QED
  BY <1>8, <1>9, <1>10 DEF Respond

LEMMA IdleSteps ==
    ASSUME Inv, NEW p \in Places, HangUp(p) \/ (p \in Slots /\ Notify(p))
    PROVE  Inv'
<1> USE DEF Inv
<1>1. conn[p].peer = "open" /\ conn[p].ask = NoReq /\ Quiet /\ conn[p] \in Connection
  BY DEF HangUp, Notify, TypeOK
<1>2. NoReq \notin Reqs
  BY TlsAssumption
<1>3. CASE HangUp(p)
  <2>1. PICK peer \in {"fin", "rst"} : Set(p, [conn[p] EXCEPT !.peer = peer])
    BY <1>3 DEF HangUp
  <2> DEFINE new == [conn[p] EXCEPT !.peer = peer]
  <2>2. new \in Connection /\ new.ask = NoReq /\ new.inbox = conn[p].inbox
    BY <1>1 DEF Connection
  <2>3. conn' = [conn EXCEPT ![p] = new]
    BY <2>1 DEF Set
  <2> HIDE DEF new
  <2>4. \A r \in Reqs : place[r] = p =>
           /\ pc[r] = "write" => new.inbox \in Seq(Late(r))
           /\ pc[r] \in {"raw", "rawWait", "head"} =>
                 /\ new.inbox \in Seq(Mine(r))
                 /\ new.ask = r => new.inbox \in Seq(Late(r))
    BY <1>2, <2>2 DEF Inboxes, InboxFits, MyConn
  <2> QED
    BY <1>1, <2>2, <2>3, <2>4, ServerKeeps
<1>4. CASE p \in Slots /\ Notify(p)
  <2> DEFINE late == \E r \in Reqs : place[r] = p /\ pc[r] = "write"
             token == [of |-> NoReq, resp |-> Notice, late |-> late]
             new == [conn[p] EXCEPT !.inbox = <<token>>]
  <2>1. /\ Set(p, new)
        /\ \A r \in Reqs : place[r] = p => pc[r] \in {"done", "drain", "write"}
    BY <1>4 DEF Notify
  <2>2. late \in BOOLEAN
    OBVIOUS
  <2> HIDE DEF late
  <2>3. token \in Tokens
    BY <2>2, Constants DEF Tokens
  <2>4. ASSUME NEW r \in Reqs, place[r] = p, pc[r] = "write" PROVE token \in Late(r)
    <3>1. r \in Pooled
      BY <1>4, <2>4, Constants DEF Stages
    <3>2. late
      BY <2>4 DEF late
    <3> QED
      BY <2>3, <3>1, <3>2 DEF Late
  <2> HIDE DEF token
  <2>5. /\ new \in Connection /\ new.ask = NoReq /\ new.inbox = <<token>>
    <3>1. <<token>> \in Seq(Tokens)
      BY <2>3
    <3> QED
      BY <1>1, <3>1 DEF Connection
  <2>6. conn' = [conn EXCEPT ![p] = new]
    BY <2>1 DEF Set
  <2>7. new.ask \in {conn[p].ask, NoReq}
    BY <2>5
  <2> HIDE DEF new
  <2>8. ASSUME NEW r \in Reqs, place[r] = p, pc[r] = "write" PROVE new.inbox \in Seq(Late(r))
    BY <2>4, <2>5, <2>8
  <2>9. \A r \in Reqs : place[r] = p =>
           /\ pc[r] = "write" => new.inbox \in Seq(Late(r))
           /\ pc[r] \in {"raw", "rawWait", "head"} =>
                 /\ new.inbox \in Seq(Mine(r))
                 /\ new.ask = r => new.inbox \in Seq(Late(r))
    BY <2>1, <2>8
  <2> QED
    BY <1>1, <2>5, <2>6, <2>7, <2>9, ServerKeeps
<1> QED
  BY <1>3, <1>4

-----------------------------------------------------------------------------
LEMMA InitInv == Init => Inv
<1> SUFFICES ASSUME Init PROVE Inv
  OBVIOUS
<1> USE TlsAssumption, Constants DEF Init
<1>1. /\ \A r \in Reqs : pc[r] \in {"start", "done"} /\ place[r] = r
      /\ \A p \in Places : conn[p] = NoConn
  BY DEF Places
<1>2. TypeOK
  <2>1. pool \in [Slots -> PoolSlot]
    BY DEF EmptySlot, PoolSlot
  <2>2. conn \in [Places -> Connection]
    OBVIOUS
  <2>3. /\ pc \in [Reqs -> {"start", "drain", "connect", "write", "raw", "rawWait",
                             "head", "body", "done"}]
        /\ place \in [Reqs -> Places]
    BY DEF Places
  <2>4. /\ route \in [Reqs -> {"reused", "fresh", "retried"}]
        /\ sent \in [Reqs -> 0..2] /\ got \in [Reqs -> Nat]
        /\ result \in [Reqs -> {"none", "ok", "error"}]
    OBVIOUS
  <2>5. head \in [Reqs -> Tokens]
    OBVIOUS
  <2>6. raw \in [RawBufs -> Reqs \cup {NoReq}] /\ cleaned \in BOOLEAN
    OBVIOUS
  <2> QED
    BY <2>1, <2>2, <2>3, <2>4, <2>5, <2>6 DEF TypeOK
<1>3. Stages /\ Tries /\ AskedFor /\ Heads /\ WholeBody
  BY <1>1 DEF Stages, Tries, AskedFor, NoConn, Heads, WholeBody, Reqs
<1>4. ContextsExclusive
  BY <1>1 DEF ContextsExclusive, Active, EmptySlot
<1>5. Locks
  BY <1>1 DEF Locks, Reading
<1>6. NothingLeaks
  BY <1>1 DEF NothingLeaks, NoConn
<1>7. Inboxes
  BY <1>1 DEF Inboxes, InboxFits
<1> QED
  BY <1>2, <1>3, <1>4, <1>5, <1>6, <1>7 DEF Inv

LEMMA Invariance == Spec => []Inv
<1>1. ASSUME Inv, [Next]_vars PROVE Inv'
  <2>1. ASSUME NEW r \in Reqs, Request(r) PROVE Inv'
    BY <1>1, <2>1, StartSteps, WithinSteps, ReadHeadStep, ExitSteps DEF Request
  <2>2. ASSUME NEW p \in Places, Respond(p) \/ HangUp(p) PROVE Inv'
    BY <1>1, <2>2, RespondStep, IdleSteps
  <2>3. ASSUME NEW s \in Slots, Notify(s) PROVE Inv'
    <3>1. s \in Places
      BY DEF Places
    <3> QED
      BY <1>1, <2>3, <3>1, IdleSteps
  <2>4. CASE Cleanup
    BY <1>1, <2>4, CleanupStep
  <2>5. CASE UNCHANGED vars
    <3> USE <1>1, <2>5 DEF vars, Inv
    <3>1. TypeOK' /\ Stages' /\ Tries'
      BY DEF TypeOK, Stages, Tries
    <3>2. ContextsExclusive' /\ Locks' /\ NothingLeaks'
      BY DEF ContextsExclusive, Locks, NothingLeaks, Active, Reading
    <3>3. AskedFor' /\ Heads'
      BY DEF AskedFor, Heads
    <3>4. Inboxes'
      BY DEF Inboxes, InboxFits, MyConn, Late, Mine
    <3>5. WholeBody'
      BY DEF WholeBody, Delivered
    <3> QED
      BY <3>1, <3>2, <3>3, <3>4, <3>5
  <2> QED
    BY <1>1, <2>1, <2>2, <2>3, <2>4, <2>5 DEF Next
<1> QED
  BY <1>1, InitInv, PTL DEF Spec

(* For any requests, hosts, answers and sizes every variable keeps its     *)
(* type; in particular a server never sees a request a third time.         *)
THEOREM TypeCorrect == Spec => []TypeOK
<1>1. Inv => TypeOK
  BY DEF Inv
<1> QED
  BY <1>1, Invariance, PTL

(* For any number of slots and requests, contexts and static buffers are   *)
(* each used by one request at a time.                                     *)
THEOREM ContextsAndBuffers == Spec => []Exclusive
<1>1. Inv => Exclusive
  <2>1. ASSUME Inv PROVE BuffersExclusive
    BY <2>1 DEF Inv, Locks, BuffersExclusive
  <2> QED
    BY <2>1 DEF Inv, Exclusive
<1> QED
  BY <1>1, Invariance, PTL

(* For any number of slots and requests, no path leaves a connection open  *)
(* that neither a request nor the pool knows of.                           *)
THEOREM ConnectionsAccounted == Spec => []NothingLeaks
<1>1. Inv => NothingLeaks
  BY DEF Inv
<1> QED
  BY <1>1, Invariance, PTL

(* For any answers and any size of the caller's buffer, a pooled request   *)
(* that succeeds returns the whole body.                                   *)
THEOREM BodiesAreWhole == Spec => []WholeBody
<1>1. Inv => WholeBody
  BY DEF Inv
<1> QED
  BY <1>1, Invariance, PTL

(* For any requests that share the pool, a response is the request's own,  *)
(* but for a notice that arrives after the drain.                          *)
THEOREM AnswersAreOwn == Spec => []OwnAnswer
<1>1. Inv => OwnAnswer
  BY DEF Inv, Heads, OwnAnswer
<1> QED
  BY <1>1, Invariance, PTL

(* A server sees a request twice at most, and only after a kept connection *)
(* failed.                                                                 *)
THEOREM SentTwiceAtMost == Spec => []DoubledByReuseOnly
<1>1. Inv => DoubledByReuseOnly
  <2>1. ASSUME Inv PROVE DoubledByReuseOnly
    <3>1. \A r \in Reqs : sent[r] \in 0..2
      BY <2>1 DEF Inv, TypeOK
    <3> QED
      BY <2>1, <3>1 DEF Inv, Tries, DoubledByReuseOnly
  <2> QED
    BY <2>1
<1> QED
  BY <1>1, Invariance, PTL

-----------------------------------------------------------------------------
(* How far a request is from its end.  A kept connection that fails sends  *)
(* it back to "connect", and costs it the route that allowed that.         *)
Station ==
    [start |-> 19, drain |-> 18, connect |-> 7, write |-> 6, raw |-> 5,
     rawWait |-> 4, head |-> 3, body |-> 2, done |-> 0]

Ahead(r) == Station[pc[r]] + (IF route[r] = "reused" THEN 10 ELSE 0)

(* A step of a request brings it nearer to its end, or it reads more of a  *)
(* body into a buffer of Cap tokens.                                       *)
Nearer(r) ==
    \/ Ahead(r)' < Ahead(r)
    \/ pc[r] = "body" /\ Ahead(r)' = Ahead(r) /\ got[r] < got'[r] /\ got'[r] <= Cap

(* What another request, a server or the shutdown does leaves it there. *)
SameDistance(r) == pc'[r] = pc[r] /\ route'[r] = route[r] /\ got'[r] = got[r]

Progress ==
    \A r \in Reqs : SameDistance(r) \/ (Request(r) /\ Nearer(r))

(* The distance depends on the place in the request and on the route. *)
LEMMA AheadOf ==
    ASSUME NEW r \in Reqs,
           NEW at, NEW way, pc'[r] = at, route'[r] = way
    PROVE  Ahead(r)' = Station[at] + (IF way = "reused" THEN 10 ELSE 0)
BY DEF Ahead

(* Moving on by one place, on whatever route. *)
LEMMA MoveOn ==
    ASSUME TypeOK, NEW r \in Reqs, NEW at \in DOMAIN Station,
           pc' = [pc EXCEPT ![r] = at], route' = route,
           Station[at] < Station[pc[r]]
    PROVE  Nearer(r)
<1>1. pc'[r] = at /\ route'[r] = route[r] /\ pc[r] \in DOMAIN Station
  BY DEF TypeOK, Station
<1>2. \A x \in DOMAIN Station : Station[x] \in Nat
  BY DEF Station
<1>3. Ahead(r)' = Station[at] + (IF route[r] = "reused" THEN 10 ELSE 0)
  BY <1>1, AheadOf
<1>4. Ahead(r)' < Ahead(r)
  <2> HIDE DEF Station
  <2> QED
    BY <1>1, <1>2, <1>3 DEF Ahead
<1> QED
  BY <1>4 DEF Nearer

(* The end is nearer than any other place. *)
LEMMA EndIsNearer ==
    ASSUME TypeOK, NEW r \in Reqs, Active(r), NEW outcome, NEW keep,
           Finish(r, outcome, keep), route' = route
    PROVE  Nearer(r)
<1>1. pc' = [pc EXCEPT ![r] = "done"]
  BY DEF Finish
<1>2. "done" \in DOMAIN Station /\ Station["done"] < Station[pc[r]]
  BY DEF Station, Active, TypeOK
<1> QED
  BY <1>1, <1>2, MoveOn

(* A second connection is made only on a route that allows it, which ends. *)
LEMMA RetryIsNearer ==
    ASSUME TypeOK, NEW r \in Reqs, Reconnect(r),
           \/ route[r] = "reused" /\ Active(r)
           \/ pc[r] = "drain"
    PROVE  Nearer(r)
<1>1. pc'[r] = "connect" /\ route'[r] # "reused"
  BY DEF Reconnect, TypeOK
<1>2. Ahead(r)' = 7
  BY <1>1 DEF Ahead, Station
<1>3. CASE pc[r] = "drain"
  BY <1>2, <1>3 DEF Nearer, Ahead, Station
<1>4. CASE route[r] = "reused" /\ Active(r)
  <2>1. Ahead(r) = Station[pc[r]] + 10 /\ Station[pc[r]] \in Nat
    BY <1>4 DEF Ahead, Station, TypeOK
  <2> QED
    BY <1>2, <2>1 DEF Nearer
<1> QED
  BY <1>3, <1>4

(* What fails ends, or is tried on a connection of its own. *)
LEMMA GiveUpIsNearer ==
    ASSUME TypeOK, NEW r \in Reqs, Active(r), GiveUp(r)
    PROVE  Nearer(r)
BY EndIsNearer, RetryIsNearer DEF GiveUp

(* What is read of a body fits. *)
LEMMA ReadingIsNearer ==
    ASSUME TypeOK, NEW r \in Reqs, ReadBody(r)
    PROVE  Nearer(r)
<1> DEFINE room == Cap - got[r]
           all  == Len(MyConn(r).inbox)
           n    == IF all < room THEN all ELSE room
<1>1. /\ pc[r] = "body" /\ got[r] < Cap /\ got[r] \in Nat
      /\ got' = [got EXCEPT ![r] = @ + n] /\ UNCHANGED <<pc, route>>
  BY DEF ReadBody, TypeOK
<1>2. all \in Nat \ {0}
  <2>1. MyConn(r).inbox \in Seq(Tokens) /\ MyConn(r).inbox # <<>>
    BY DEF TypeOK, Connection, MyConn, ReadBody, Arrived
  <2> QED
    BY <2>1, EmptySeq, LenProperties
<1>3. room \in Nat \ {0} /\ room = Cap - got[r]
  BY <1>1, TlsAssumption
<1>4. Ahead(r)' = Ahead(r)
  BY <1>1 DEF Ahead
<1>5. got'[r] = got[r] + n
  BY <1>1 DEF TypeOK
<1>6. n \in Nat /\ 0 < n /\ n <= room
  <2> HIDE DEF all, room
  <2> QED
    BY <1>2, <1>3
<1>7. got[r] < got'[r] /\ got'[r] <= Cap
  <2> HIDE DEF n, room
  <2> QED
    BY <1>1, <1>3, <1>5, <1>6, TlsAssumption
<1> QED
  BY <1>1, <1>4, <1>7 DEF Nearer

(* Each action of a request brings it nearer to its end. *)
LEMMA RequestIsNearer ==
    ASSUME TypeOK, NEW r \in Reqs, Request(r)
    PROVE  Nearer(r)
<1>1. CASE AcquireSlot(r) \/ Ephemeral(r) \/ Unpooled(r)
  <2>1. PICK at \in {"drain", "connect"} :
            pc[r] = "start" /\ pc' = [pc EXCEPT ![r] = at] /\ route' = route
    BY <1>1 DEF AcquireSlot, Ephemeral, Unpooled, InOwnContext, request
  <2>2. at \in DOMAIN Station /\ Station[at] < Station[pc[r]]
    BY <2>1 DEF Station
  <2> QED
    BY <2>1, <2>2, MoveOn
<1>2. CASE Drain(r)
  <2>1. CASE Reconnect(r)
    BY <1>2, <2>1, RetryIsNearer DEF Drain
  <2>2. CASE pc' = [pc EXCEPT ![r] = "write"]
             /\ route' = [route EXCEPT ![r] = "reused"]
    <3>1. pc[r] = "drain" /\ pc'[r] = "write"
      BY <1>2, <2>2 DEF Drain, TypeOK
    <3> QED
      BY <3>1 DEF Nearer, Ahead, Station, TypeOK
  <2> QED
    BY <1>2, <2>1, <2>2 DEF Drain
<1>3. CASE Connect(r) \/ Write(r) \/ TakeBuffer(r) \/ WaitForFirst(r)
  <2>1. PICK at \in {"write", "raw", "rawWait", "head"} :
            /\ pc' = [pc EXCEPT ![r] = at] /\ route' = route
            /\ \/ pc[r] = "connect" /\ at = "write"
               \/ pc[r] = "write" /\ at \in {"raw", "head"}
               \/ pc[r] \in {"raw", "rawWait"} /\ at = "head"
               \/ pc[r] = "raw" /\ at = "rawWait"
    BY <1>3 DEF Connect, Write, TakeBuffer, WaitForFirst, request
  <2>2. at \in DOMAIN Station /\ Station[at] < Station[pc[r]]
    BY <2>1 DEF Station
  <2> QED
    BY <2>1, <2>2, MoveOn
<1>4. CASE ConnectFails(r) \/ Whole(r) \/ PlainCutShort(r)
  <2>1. /\ \E outcome, keep : Finish(r, outcome, keep)
        /\ route' = route /\ Active(r)
    BY <1>4 DEF ConnectFails, Whole, PlainCutShort, Active
  <2> QED
    BY <2>1, EndIsNearer
<1>5. CASE WriteFails(r) \/ NoStatus(r) \/ CutShort(r)
  <2>1. GiveUp(r) /\ Active(r)
    BY <1>5 DEF WriteFails, NoStatus, CutShort, Active
  <2> QED
    BY <2>1, GiveUpIsNearer
<1>6. CASE ReadHead(r)
  <2>1. pc[r] = "head" /\ Active(r) /\ route' = route
    BY <1>6 DEF ReadHead, Active
  <2>2. CASE \E outcome : Finish(r, outcome, FALSE)
    BY <2>1, <2>2, EndIsNearer
  <2>3. CASE pc' = [pc EXCEPT ![r] = "body"]
    <3>1. "body" \in DOMAIN Station /\ Station["body"] < Station[pc[r]]
      BY <2>1 DEF Station
    <3> QED
      BY <2>1, <2>3, <3>1, MoveOn
  <2> QED
    BY <1>6, <2>2, <2>3 DEF ReadHead
<1>7. CASE ReadBody(r)
  BY <1>7, ReadingIsNearer
<1> QED
  BY <1>1, <1>2, <1>3, <1>4, <1>5, <1>6, <1>7 DEF Request

(* A request moves itself alone. *)
LEMMA OthersStay ==
    ASSUME TypeOK, NEW r \in Reqs, Request(r), NEW q \in Reqs, q # r
    PROVE  SameDistance(q)
<1>1. CASE AcquireSlot(r) \/ Ephemeral(r) \/ Unpooled(r) \/ Connect(r)
  BY <1>1 DEF AcquireSlot, Ephemeral, Unpooled, InOwnContext, Connect, request, TypeOK, SameDistance
<1>2. CASE Drain(r)
  BY <1>2 DEF Drain, Reconnect, TypeOK, SameDistance
<1>3. CASE Write(r) \/ TakeBuffer(r) \/ WaitForFirst(r) \/ ReadBody(r)
  BY <1>3 DEF Write, TakeBuffer, WaitForFirst, ReadBody, request, TypeOK, SameDistance
<1>4. CASE ConnectFails(r) \/ Whole(r) \/ PlainCutShort(r)
  BY <1>4 DEF ConnectFails, Whole, PlainCutShort, Finish, TypeOK, SameDistance
<1>5. CASE WriteFails(r) \/ NoStatus(r) \/ CutShort(r)
  BY <1>5 DEF WriteFails, NoStatus, CutShort, GiveUp, Finish, Reconnect, TypeOK, SameDistance
<1>6. CASE ReadHead(r)
  BY <1>6 DEF ReadHead, Finish, TypeOK, SameDistance
<1> QED
  BY <1>1, <1>2, <1>3, <1>4, <1>5, <1>6 DEF Request

(* Whatever the servers answer or withhold, every step of a request brings *)
(* it nearer to its end, and nobody else takes it further away: vela_tls   *)
(* can wait for ever (RequestsEnd says where), but it cannot go round.     *)
THEOREM RequestsProgress == Spec => [][Progress]_vars
<1>1. ASSUME TypeOK, [Next]_vars PROVE [Progress]_vars
  <2>1. ASSUME NEW r \in Reqs, Request(r) PROVE Progress
    BY <1>1, <2>1, RequestIsNearer, OthersStay DEF Progress
  <2>2. CASE \/ \E p \in Places : Respond(p) \/ HangUp(p)
             \/ \E s \in Slots : Notify(s)
             \/ Cleanup
    <3>1. UNCHANGED <<pc, route, got>>
      BY <2>2 DEF Respond, HangUp, Notify, Quiet, Cleanup, request
    <3> QED
      BY <3>1 DEF Progress, SameDistance
  <2> QED
    BY <1>1, <2>1, <2>2 DEF Next
<1> QED
  BY <1>1, TypeCorrect, PTL DEF Spec
=============================================================================
