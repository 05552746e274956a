----------------------------- MODULE BoardProofs -----------------------------
(***************************************************************************)
(* Proofs about two components of the board that share no state.           *)
(*                                                                         *)
(* WifiManager, for any networks, any number of retries and calls, and any *)
(* waiting times: type correctness, FailedStays and SavedWorked.           *)
(*                                                                         *)
(* VoiceFlow, for any number of listeners and any period of the blinking:  *)
(* type correctness, MicOnlyInUse and VoiceNotLockedOut.                   *)
(***************************************************************************)
EXTENDS WifiManager, VoiceFlow, TLAPS

-----------------------------------------------------------------------------
(* The Wi-Fi state machine *)

(***************************************************************************)
(* While the machine is FAILED the thread is idling in its loop: it never  *)
(* carries a decision taken in another state.                              *)
(***************************************************************************)
FailedIdles ==
    state = "FAILED" => \/ sm.pc \in {"tail", "top"}
                        \/ sm.pc = "branch" /\ sm.seen = "FAILED"

(***************************************************************************)
(* Until a second call or the cut save of a pair, what the interface got   *)
(* it got for the network of the one call, whose credentials are its own;  *)
(* they are saved once they gave an address; and a reconnect under way     *)
(* without a call before it loads what is saved.                           *)
(***************************************************************************)
LoneNetwork ==
    /\ sm.pc # "off" => calls > 0
    /\ calls = 0 => link = NoSsid /\ addr = NoSsid
    /\ addr # NoSsid => addr \in leased
    /\ ~spoilt =>
          /\ calls <= 1
          /\ cred.ssid = cred.pass
          /\ link \in {cred.ssid, NoSsid}
          /\ addr \in {cred.ssid, NoSsid}
          /\ sm.pc \in {"ssid", "pass"} => Worked(cred)
          /\ IF sm.pc = "pass" THEN ram.ssid = cred.ssid ELSE Worked(ram) /\ Worked(file)
          /\ calls = 0 /\ loading # "no" => loaded.ssid = ram.ssid
          /\ calls = 0 /\ loading = "connect" => loaded.pass = ram.pass

\* The three together are inductive.
Inv == TypeOK /\ FailedIdles /\ LoneNetwork

LEMMA InitInv == Init => Inv
<1> SUFFICES ASSUME Init PROVE Inv
  OBVIOUS
<1> USE WifiAssumption
<1>1. PICK s \in Net : file = Own(s) /\ leased = {s} \ {NoSsid}
  BY DEF Init
<1>2. ram = file
  BY DEF Init
<1>3. /\ file \in Pair /\ leased \subseteq Ssids /\ Nothing \in Pair
      /\ Worked(file) /\ Worked(Nothing)
  BY <1>1 DEF Own, Nothing, Pair, Net, Worked
<1>4. TypeOK
  <2>1. Fresh.sm \in Thread /\ NoSsid \in Net
    BY DEF Fresh, Thread, Pc, State, Net, RetryCap
  <2>2. /\ Fresh.state \in State /\ Fresh.cred = Nothing /\ Fresh.retry = 0
        /\ Fresh.backoff = BackoffInit /\ Fresh.elapsed = 0
        /\ Fresh.renewAge = RenewEvery /\ Fresh.link = NoSsid
        /\ Fresh.addr = NoSsid /\ Fresh.loading = "no"
        /\ Fresh.loaded = Nothing /\ Fresh.calls = 0
    BY DEF Fresh, State
  <2>3. 0 \in 0..RetryCap
    BY DEF RetryCap
  <2>4. /\ sm = Fresh.sm /\ state = Fresh.state /\ cred = Nothing
        /\ retry = 0 /\ backoff = BackoffInit /\ elapsed = 0
        /\ renewAge = RenewEvery /\ link = NoSsid /\ addr = NoSsid
        /\ loading = "no" /\ loaded = Nothing /\ calls = 0
        /\ restarts = 0 /\ spoilt = FALSE /\ good \in BOOLEAN
    BY <2>2 DEF Init
  <2>5. elapsed \in 0..MaxElapsed /\ renewAge \in 0..RenewEvery
        /\ backoff \in BackoffInit..BackoffMax /\ retry \in 0..RetryCap
        /\ calls \in 0..MaxCalls /\ restarts \in 0..MaxRestarts
    BY <2>3, <2>4
  <2>6. state \in State /\ sm \in Thread /\ link \in Net /\ addr \in Net
        /\ spoilt \in BOOLEAN /\ good \in BOOLEAN
    BY <2>1, <2>2, <2>4
  <2>7. ram \in Pair /\ file \in Pair /\ cred \in Pair /\ loaded \in Pair
        /\ leased \subseteq Ssids /\ loading \in {"no", "pass", "connect"}
    BY <1>2, <1>3, <2>4
  <2> QED
    BY <2>5, <2>6, <2>7 DEF TypeOK
<1>5. FailedIdles
  BY DEF Init, Fresh, FailedIdles
<1>6. LoneNetwork
  BY <1>2, <1>3 DEF Init, Fresh, LoneNetwork, Nothing, Own
<1> QED
  BY <1>4, <1>5, <1>6 DEF Inv

(* The pairs of credentials that calls and saves make. *)
LEMMA Pairs ==
    /\ Nothing \in Pair
    /\ \A s \in Net : Own(s) \in Pair
    /\ \A c \in Pair : c.ssid \in Net /\ c.pass \in Net
    /\ \A c \in Pair, s \in Net : /\ [c EXCEPT !.ssid = s] \in Pair
                                 /\ [c EXCEPT !.pass = s] \in Pair
BY DEF Nothing, Own, Pair, Net

(* A call keeps the types, whatever pair it is made with. *)
LEMMA ConnectType ==
    ASSUME TypeOK, NEW c \in Pair, Connect(c) \/ ConnectNoThread(c),
           loading' \in {"no", "pass", "connect"}, loaded' \in Pair
    PROVE  TypeOK'
<1> USE WifiAssumption
<1>1. ResetContext(c) /\ calls' \in 0..MaxCalls
  BY DEF Connect, ConnectNoThread, ResetContext, TypeOK
<1>2. sm' \in Thread
  BY DEF Connect, ConnectNoThread, Goto, Thread, Pc, TypeOK
<1>3. state' \in State /\ elapsed' \in 0..MaxElapsed /\ renewAge' \in 0..RenewEvery
  BY DEF Connect, ConnectNoThread, SetState, State, TypeOK
<1>4. /\ cred' \in Pair /\ retry' \in 0..RetryCap
      /\ backoff' \in BackoffInit..BackoffMax /\ spoilt' \in BOOLEAN
  BY <1>1 DEF ResetContext, RetryCap, TypeOK
<1>5. UNCHANGED <<link, addr, leased, ram, file, good, restarts>>
  BY <1>1 DEF ResetContext, net
<1> QED
  BY <1>1, <1>2, <1>3, <1>4, <1>5 DEF TypeOK

(* Every step keeps the types. *)
LEMMA TypeStep == TypeOK /\ [Next]_vars => TypeOK'
<1> SUFFICES ASSUME TypeOK, [Next]_vars PROVE TypeOK'
  OBVIOUS
<1> USE WifiAssumption DEF TypeOK
<1>1. ASSUME NEW s \in Ssids, Console(s) PROVE TypeOK'
  <2>1. Own(s) \in Pair
    BY Pairs DEF Net
  <2> QED
    BY <1>1, <2>1, ConnectType DEF Console
<1>2. CASE LoadSsid \/ LoadPass
  BY <1>2, Pairs DEF ctx, net, env, LoadSsid, LoadPass
<1>3. CASE Reconnect
  BY <1>3, Pairs, ConnectType DEF Reconnect
<1>4. CASE ReadState
  BY <1>4 DEF ctx, net, store, env, ReadState, Thread, Pc, State, Net, RetryCap
<1>5. CASE BeginConnecting
  <2>1. sm' \in Thread
    BY <1>5, Pairs DEF BeginConnecting, Goto, Thread, Pc, State
  <2> QED
    BY <1>5, <2>1 DEF ctx, net, store, env, BeginConnecting, Seen, Goto, State, Net, RetryCap
<1>6. CASE Scan
  <2>1. sm' \in Thread
    BY <1>6, Pairs DEF Scan, Goto, Thread, Pc, State
  <2> QED
    BY <1>6, <2>1 DEF ctx, net, store, env, Scan, MayFail, Goto, State, Net, RetryCap
<1>7. CASE Apply
  <2>1. sm' \in Thread
    BY <1>7, Pairs DEF Apply, Goto, Thread, Pc, State
  <2> QED
    BY <1>7, <2>1, Pairs DEF ctx, store, env, Apply, Net
<1>8. CASE Associated
  <2>1. sm' \in Thread
    BY <1>8, ZenonT(40) DEF ctx, net, store, env, Associated, Seen, Sleep, Goto, Thread, Pc, State, Net, RetryCap
  <2> QED
    BY <1>8, <2>1 DEF ctx, net, store, env, Associated, Seen, Sleep, Goto, State, Net, RetryCap
<1>9. CASE Dhcp
  <2>1. sm' = [sm EXCEPT !.pc = "judge", !.late = elapsed >= DhcpWait]
    BY <1>9 DEF Dhcp
  <2> DEFINE late == elapsed >= DhcpWait
  <2>0. late \in BOOLEAN
    OBVIOUS
  <2>2. sm' \in Thread
    <3>1. sm' = [sm EXCEPT !.pc = "judge", !.late = late]
      BY <2>1
    <3> HIDE DEF late
    <3> QED
      BY <2>0, <3>1 DEF Thread, Pc
  <2>3. addr' \in Net
    BY <1>9 DEF Dhcp, Net
  <2>4. leased' \subseteq Ssids
    BY <1>9, <2>3 DEF Dhcp, Net
  <2> QED
    BY <1>9, <2>2, <2>3, <2>4 DEF Dhcp, store, env
<1>10. CASE GotAddress
  <2>1. sm' \in Thread
    BY <1>10 DEF GotAddress, Goto, Thread, Pc
  <2>2. retry' \in 0..RetryCap /\ backoff' \in BackoffInit..BackoffMax
    BY <1>10 DEF GotAddress, RetryCap
  <2> QED
    BY <1>10, <2>1, <2>2 DEF GotAddress, Goto, net, store, env
<1>11. CASE NoAddress
  <2>1. sm' \in Thread
    BY <1>11 DEF ctx, net, store, env, NoAddress, Sleep, Goto, Thread, Pc, State, Net, RetryCap
  <2> QED
    BY <1>11, <2>1 DEF ctx, net, store, env, NoAddress, Sleep, Goto, State, Net, RetryCap
<1>12. CASE ReadCount
  <2>1. CountUp(retry) \in 0..RetryCap
    BY DEF CountUp, RetryCap
  <2>2. sm' \in Thread
    BY <1>12, <2>1 DEF ReadCount, Thread, Pc, State
  <2> QED
    BY <1>12, <2>2 DEF ReadCount, ctx, net, store, env
<1>13. CASE WriteCount
  <2>1. sm.old \in 0..RetryCap /\ 0 \in 0..RetryCap
    BY DEF Thread, RetryCap
  <2>2. AfterFailure \in State
    BY DEF AfterFailure, State
  <2>3. sm' = [sm EXCEPT !.old = 0, !.next = AfterFailure]
    BY <1>13 DEF WriteCount
  <2>4. sm' \in Thread
    BY <2>1, <2>2, <2>3 DEF Thread
  <2> QED
    BY <1>13, <2>1, <2>4 DEF WriteCount, net, store, env
<1>14. CASE Settle
  BY <1>14 DEF ctx, net, store, env, Settle, SetState, Goto, Own, Nothing, Pair, Thread, Pc, State, Net, RetryCap
<1>15. CASE Ready
  <2>1. sm' \in Thread
    BY <1>15, ZenonT(40) DEF ctx, net, store, env, Ready, Seen, Goto, Thread, Pc, State, Net, RetryCap
  <2> QED
    BY <1>15, <2>1 DEF ctx, net, store, env, Ready, Seen, Goto, State, Net, RetryCap
<1>16. CASE RetryWait
  <2>1. sm' \in Thread
    BY <1>16, ZenonT(40) DEF ctx, net, store, env, RetryWait, Seen, Sleep, Goto, Thread, Pc, State, Net, RetryCap
  <2> QED
    BY <1>16, <2>1 DEF ctx, net, store, env, RetryWait, Seen, Sleep, Goto, State, Net, RetryCap
<1>17. CASE Failed
  BY <1>17 DEF ctx, net, store, env, Failed, Seen, Goto, Thread, Pc, State, Net, RetryCap
<1>18. CASE Tail
  BY <1>18 DEF ctx, net, store, env, Tail, Goto, Thread, Pc, State, Net, RetryCap
<1>19. CASE Surroundings
  BY <1>19 DEF ctx, net, store, env, Surroundings, Thread, Pc, State, Net, RetryCap
<1>21. CASE SetOther
  BY <1>21, Pairs DEF ctx, net, env, SetOther, WriteFile
<1>22. CASE Restart
  <2>1. Fresh.sm \in Thread /\ NoSsid \in Net
    BY DEF Fresh, Thread, Pc, State, Net, RetryCap
  <2>2. /\ Fresh.state \in State /\ Fresh.cred = Nothing /\ Fresh.retry = 0
        /\ Fresh.backoff = BackoffInit /\ Fresh.elapsed = 0
        /\ Fresh.renewAge = RenewEvery /\ Fresh.link = NoSsid
        /\ Fresh.addr = NoSsid /\ Fresh.loading = "no"
        /\ Fresh.loaded = Nothing /\ Fresh.calls = 0
    BY DEF Fresh, State
  <2>3. restarts' \in 0..MaxRestarts
    BY <1>22 DEF Restart
  <2>4. 0 \in 0..RetryCap
    BY DEF RetryCap
  <2> QED
    BY <1>22, <2>1, <2>2, <2>3, <2>4, Pairs DEF Restart
<1>23. CASE SaveSsid
  <2>1. sm' \in Thread
    BY <1>23 DEF SaveSsid, Goto, Thread, Pc
  <2>2. ram' \in Pair /\ file' \in Pair
    BY <1>23, Pairs DEF SaveSsid, WriteFile
  <2> QED
    BY <1>23, <2>1, <2>2 DEF SaveSsid, ctx, net, env
<1>24. CASE SavePass
  <2>1. sm' \in Thread
    BY <1>24 DEF SavePass, Thread, Pc, State
  <2>2. ram' \in Pair /\ file' \in Pair
    BY <1>24, Pairs DEF SavePass, WriteFile
  <2> QED
    BY <1>24, <2>1, <2>2 DEF SavePass, ctx, net
<1>20. CASE UNCHANGED vars
  BY <1>20 DEF vars, ctx, net, store, env
<1> QED
  BY <1>1, <1>2, <1>3, <1>4, <1>5, <1>6, <1>7, <1>8, <1>9, <1>10, <1>11, <1>12, <1>13, <1>14, <1>15, <1>16, <1>17, <1>18, <1>19, <1>20, <1>21, <1>22, <1>23, <1>24 DEF Next, ThreadStep

(* Only Settle makes the machine FAILED, and it leaves the thread in its tail. *)
LEMMA FailedStep == TypeOK /\ FailedIdles /\ [Next]_vars => FailedIdles'
<1> SUFFICES ASSUME TypeOK /\ FailedIdles, [Next]_vars PROVE FailedIdles'
  OBVIOUS
<1> USE WifiAssumption DEF TypeOK, State, Net, Thread, Pc, RetryCap, FailedIdles
<1>1. ASSUME NEW s \in Ssids, Console(s) PROVE FailedIdles'
  BY <1>1 DEF ctx, net, store, env, Console, Connect, ConnectNoThread, ResetContext, SetState, Goto
<1>2. CASE LoadSsid \/ LoadPass
  BY <1>2 DEF ctx, net, store, env, LoadSsid, LoadPass
<1>3. CASE Reconnect
  BY <1>3 DEF ctx, net, store, env, Reconnect, Connect, ConnectNoThread, ResetContext, SetState, Goto
<1>4. CASE ReadState
  BY <1>4 DEF ctx, net, store, env, ReadState
<1>5. CASE BeginConnecting
  BY <1>5 DEF ctx, net, store, env, BeginConnecting, Seen, Goto
<1>6. CASE Scan
  BY <1>6 DEF ctx, net, store, env, Scan, MayFail, Goto
<1>7. CASE Apply
  BY <1>7 DEF ctx, net, store, env, Apply, MayFail, Goto
<1>8. CASE Associated
  BY <1>8 DEF ctx, net, store, env, Associated, Seen, Sleep, Goto
<1>9. CASE Dhcp
  BY <1>9 DEF ctx, net, store, env, Dhcp, Seen, Goto
<1>10. CASE GotAddress
  BY <1>10 DEF ctx, net, store, env, GotAddress
<1>11. CASE NoAddress
  BY <1>11 DEF ctx, net, store, env, NoAddress, Sleep, Goto
<1>12. CASE ReadCount
  BY <1>12 DEF ctx, net, store, env, ReadCount, CountUp, RetryCap
<1>13. CASE WriteCount
  BY <1>13 DEF ctx, net, store, env, WriteCount, AfterFailure
<1>14. CASE Settle
  BY <1>14 DEF ctx, net, store, env, Settle, SetState, Goto
<1>15. CASE Ready
  BY <1>15 DEF ctx, net, store, env, Ready, Seen, Goto
<1>16. CASE RetryWait
  BY <1>16 DEF ctx, net, store, env, RetryWait, Seen, Sleep, Goto
<1>17. CASE Failed
  BY <1>17 DEF ctx, net, store, env, Failed, Seen, Goto
<1>18. CASE Tail
  BY <1>18 DEF ctx, net, store, env, Tail, Goto
<1>19. CASE Surroundings
  BY <1>19 DEF ctx, net, store, env, Surroundings
<1>21. CASE SetOther
  BY <1>21 DEF ctx, net, store, env, SetOther, WriteFile
<1>22. CASE Restart
  BY <1>22 DEF Restart, Fresh, Nothing, Own
<1>23. CASE SaveSsid
  BY <1>23 DEF ctx, net, store, env, SaveSsid, WriteFile, Goto
<1>24. CASE SavePass
  BY <1>24 DEF ctx, net, store, env, SavePass, WriteFile
<1>20. CASE UNCHANGED vars
  BY <1>20 DEF vars, ctx, net, store, env
<1> QED
  BY <1>1, <1>2, <1>3, <1>4, <1>5, <1>6, <1>7, <1>8, <1>9, <1>10, <1>11, <1>12, <1>13, <1>14, <1>15, <1>16, <1>17, <1>18, <1>19, <1>20, <1>21, <1>22, <1>23, <1>24 DEF Next, ThreadStep

(* A first call, with credentials of one network, keeps LoneNetwork. *)
LEMMA LoneConnect ==
    ASSUME TypeOK, LoneNetwork, NEW c \in Pair, Connect(c) \/ ConnectNoThread(c),
           ~spoilt /\ calls = 0 => c.ssid = c.pass
    PROVE  LoneNetwork'
<1>1. /\ calls' = calls + 1 /\ calls \in Nat /\ cred' = c
      /\ spoilt' = (spoilt \/ calls > 0)
      /\ UNCHANGED <<link, addr, leased, ram, file>>
  BY DEF Connect, ConnectNoThread, ResetContext, net, TypeOK
<1>2. calls' > 0
  BY <1>1
<1>3. ~spoilt' => /\ ~spoilt /\ calls = 0 /\ calls' = 1
                  /\ sm.pc = "off" /\ link = NoSsid /\ addr = NoSsid
  <2>1. calls = 0 => sm.pc = "off" /\ link = NoSsid /\ addr = NoSsid
    BY DEF LoneNetwork
  <2>2. spoilt \in BOOLEAN
    BY DEF TypeOK
  <2>3. ~spoilt' => ~spoilt /\ calls = 0
    <3> DEFINE later == calls > 0
    <3>1. spoilt' = (spoilt \/ later) /\ (~later => calls = 0)
      BY <1>1
    <3> HIDE DEF later
    <3> QED
      BY <3>1
  <2> QED
    BY <1>1, <2>1, <2>3
<1>4. ~spoilt' => sm'.pc \in {"off", "top"}
  BY <1>3 DEF Connect, ConnectNoThread, Goto, TypeOK, Thread
<1>5. ~spoilt' => Worked(ram) /\ Worked(file)
  BY <1>3 DEF LoneNetwork
<1>6. ~spoilt' => Worked(ram') /\ Worked(file)'
  BY <1>1, <1>5 DEF Worked
<1>7. ~spoilt' => cred'.ssid = cred'.pass
  BY <1>1, <1>3
<1> QED
  BY <1>1, <1>2, <1>3, <1>4, <1>6, <1>7 DEF LoneNetwork, Worked

(* A first call finds the interface without a network; a second one ends the matter. *)
LEMMA LoneStep == TypeOK /\ LoneNetwork /\ [Next]_vars => LoneNetwork'
<1> SUFFICES ASSUME TypeOK /\ LoneNetwork, [Next]_vars PROVE LoneNetwork'
  OBVIOUS
<1> USE WifiAssumption DEF TypeOK, State, Net, Thread, Pc, RetryCap, LoneNetwork, Worked
<1>1. ASSUME NEW s \in Ssids, Console(s) PROVE LoneNetwork'
  <2>1. Own(s) \in Pair /\ Own(s).ssid = Own(s).pass
    BY DEF Own, Pair
  <2> QED
    BY <1>1, <2>1, LoneConnect DEF Console
<1>2. CASE LoadSsid \/ LoadPass
  BY <1>2 DEF ctx, net, store, env, LoadSsid, LoadPass, Nothing, Own, Pair
<1>3. CASE Reconnect
  <2>1. ~spoilt /\ calls = 0 => loaded.ssid = loaded.pass
    BY <1>3 DEF Reconnect
  <2> QED
    BY <1>3, <2>1, LoneConnect DEF Reconnect
<1>4. CASE ReadState
  BY <1>4 DEF ctx, net, store, env, ReadState
<1>5. CASE BeginConnecting
  BY <1>5 DEF ctx, net, store, env, BeginConnecting, Seen, Goto
<1>6. CASE Scan
  BY <1>6 DEF ctx, net, store, env, Scan, MayFail, Goto
<1>7. CASE Apply
  <2>1. sm'.pc \in {"settle", "count"} /\ sm.pc = "apply"
    BY <1>7 DEF Apply, Goto
  <2>2. ~spoilt => link' \in {cred.ssid, NoSsid}
    BY <1>7 DEF Apply
  <2>3. /\ calls > 0
        /\ UNCHANGED <<ctx, addr, leased, store, env>>
    BY <1>7, <2>1 DEF Apply
  <2> QED
    BY <2>1, <2>2, <2>3 DEF ctx, store, env
<1>8. CASE Associated
  BY <1>8 DEF ctx, net, store, env, Associated, Seen, Sleep, Goto
<1>9. CASE Dhcp
  BY <1>9 DEF ctx, net, store, env, Dhcp, Seen, Goto
<1>10. CASE GotAddress
  <2>1. sm.pc = "judge" /\ sm'.pc = "ssid" /\ addr # NoSsid
    BY <1>10 DEF GotAddress, Goto
  <2>2. UNCHANGED <<cred, net, store, env>>
    BY <1>10 DEF GotAddress
  <2>3. ~spoilt => Worked(cred)
    BY <2>1
  <2> QED
    BY <2>1, <2>2, <2>3 DEF net, store, env
<1>11. CASE NoAddress
  BY <1>11 DEF ctx, net, store, env, NoAddress, Sleep, Goto
<1>12. CASE ReadCount
  BY <1>12 DEF ctx, net, store, env, ReadCount, CountUp, RetryCap
<1>13. CASE WriteCount
  BY <1>13 DEF ctx, net, store, env, WriteCount, AfterFailure
<1>14. CASE Settle
  BY <1>14 DEF ctx, net, store, env, Settle, SetState, Goto, Own, Nothing, Pair
<1>15. CASE Ready
  BY <1>15 DEF ctx, net, store, env, Ready, Seen, Goto
<1>16. CASE RetryWait
  BY <1>16 DEF ctx, net, store, env, RetryWait, Seen, Sleep, Goto
<1>17. CASE Failed
  BY <1>17 DEF ctx, net, store, env, Failed, Seen, Goto
<1>18. CASE Tail
  BY <1>18 DEF ctx, net, store, env, Tail, Goto
<1>19. CASE Surroundings
  BY <1>19 DEF ctx, net, store, env, Surroundings
<1>21. CASE SetOther
  BY <1>21 DEF ctx, net, store, env, SetOther, WriteFile, Nothing, Own, Pair
<1>22. CASE Restart
  <2>1. /\ sm'.pc = "off" /\ calls' = 0 /\ link' = NoSsid /\ addr' = NoSsid
        /\ loading' = "no" /\ cred'.ssid = cred'.pass
        /\ leased' = leased
    BY <1>22 DEF Restart, Fresh, Nothing, Own
  <2>2. ~spoilt' => ~spoilt /\ sm.pc # "pass"
    BY <1>22 DEF Restart
  <2>3. Worked(Nothing)
    BY DEF Nothing, Own
  <2>4. ~spoilt' => Worked(file)' /\ Worked(ram)'
    BY <1>22, <2>1, <2>2, <2>3 DEF Restart
  <2> QED
    BY <2>1, <2>2, <2>4
<1>23. CASE SaveSsid
  BY <1>23 DEF ctx, net, store, env, SaveSsid, WriteFile, Goto, Nothing, Own, Pair
<1>24. CASE SavePass
  <2>1. /\ sm.pc = "pass" /\ sm'.pc = "settle"
        /\ UNCHANGED <<cred, link, addr, leased, loading, loaded, calls>>
    BY <1>24 DEF SavePass, ctx, net
  <2>2. calls > 0
    BY <2>1
  <2>3. ~spoilt' => ~spoilt /\ file' = ram'
    BY <1>24 DEF SavePass
  <2>4. ~spoilt => Worked(cred) /\ ram.ssid = cred.ssid
    BY <2>1
  <2>5. ram'.ssid = ram.ssid /\ ram'.pass = cred.pass
    BY <1>24 DEF SavePass, Pair
  <2>6. ~spoilt' => Worked(ram') /\ Worked(file')
    BY <2>1, <2>3, <2>4, <2>5
  <2> QED
    BY <2>1, <2>2, <2>3, <2>6
<1>20. CASE UNCHANGED vars
  BY <1>20 DEF vars, ctx, net, store, env
<1> QED
  BY <1>1, <1>2, <1>3, <1>4, <1>5, <1>6, <1>7, <1>8, <1>9, <1>10, <1>11, <1>12, <1>13, <1>14, <1>15, <1>16, <1>17, <1>18, <1>19, <1>20, <1>21, <1>22, <1>23, <1>24 DEF Next, ThreadStep

LEMMA InductiveInv == Spec => []Inv
<1>1. Inv /\ [Next]_vars => Inv'
  BY TypeStep, FailedStep, LoneStep DEF Inv
<1> QED
  BY InitInv, <1>1, PTL DEF Spec

(* The context, the thread and the network keep their types. *)
THEOREM TypeCorrect == Spec => []TypeOK
<1>1. Inv => TypeOK
  BY DEF Inv
<1> QED
  BY InductiveInv, <1>1, PTL

(* The board's give-up is final until someone calls network_wifi_connect. *)
THEOREM FailedUntilCall == Spec => FailedStays
<1> DEFINE Step == state = "FAILED" /\ state' # "FAILED" =>
                     calls' > calls \/ restarts' > restarts
<1>1. Inv /\ [Next]_vars => Step
  <2> SUFFICES ASSUME Inv, [Next]_vars PROVE Step
    OBVIOUS
  <2> USE DEF Inv, TypeOK, State, Net, Thread, Pc, RetryCap, FailedIdles
  <2>1. ASSUME NEW s \in Ssids, Console(s) PROVE Step
    BY <2>1 DEF ctx, net, store, env, Console, Connect, ConnectNoThread, ResetContext, SetState, Goto
  <2>2. CASE LoadSsid \/ LoadPass
    BY <2>2 DEF ctx, net, store, env, LoadSsid, LoadPass
  <2>3. CASE Reconnect
    BY <2>3 DEF ctx, net, store, env, Reconnect, Connect, ConnectNoThread, ResetContext, SetState, Goto
  <2>4. CASE ReadState
    BY <2>4 DEF ctx, net, store, env, ReadState
  <2>5. CASE BeginConnecting
    BY <2>5 DEF ctx, net, store, env, BeginConnecting, Seen, Goto
  <2>6. CASE Scan
    BY <2>6 DEF ctx, net, store, env, Scan, MayFail, Goto
  <2>7. CASE Apply
    BY <2>7 DEF ctx, net, store, env, Apply, MayFail, Goto
  <2>8. CASE Associated
    BY <2>8 DEF ctx, net, store, env, Associated, Seen, Sleep, Goto
  <2>9. CASE Dhcp
    BY <2>9 DEF ctx, net, store, env, Dhcp, Seen, Goto
  <2>10. CASE GotAddress
    BY <2>10 DEF ctx, net, store, env, GotAddress
  <2>11. CASE NoAddress
    BY <2>11 DEF ctx, net, store, env, NoAddress, Sleep, Goto
  <2>12. CASE ReadCount
    BY <2>12 DEF ctx, net, store, env, ReadCount, CountUp, RetryCap
  <2>13. CASE WriteCount
    BY <2>13 DEF ctx, net, store, env, WriteCount, AfterFailure
  <2>14. CASE Settle
    BY <2>14 DEF ctx, net, store, env, Settle, SetState, Goto
  <2>15. CASE Ready
    BY <2>15 DEF ctx, net, store, env, Ready, Seen, Goto
  <2>16. CASE RetryWait
    BY <2>16 DEF ctx, net, store, env, RetryWait, Seen, Sleep, Goto
  <2>17. CASE Failed
    BY <2>17 DEF ctx, net, store, env, Failed, Seen, Goto
  <2>18. CASE Tail
    BY <2>18 DEF ctx, net, store, env, Tail, Goto
  <2>19. CASE Surroundings
    BY <2>19 DEF ctx, net, store, env, Surroundings
  <2>21. CASE SetOther
    BY <2>21 DEF ctx, net, store, env, SetOther, WriteFile
  <2>22. CASE Restart
    BY <2>22 DEF Restart
  <2>23. CASE SaveSsid
    BY <2>23 DEF ctx, net, store, env, SaveSsid, WriteFile, Goto
  <2>24. CASE SavePass
    BY <2>24 DEF ctx, net, store, env, SavePass, WriteFile
  <2>20. CASE UNCHANGED vars
    BY <2>20 DEF vars, ctx, net, store, env
  <2> QED
    BY <2>1, <2>2, <2>3, <2>4, <2>5, <2>6, <2>7, <2>8, <2>9, <2>10, <2>11, <2>12, <2>13, <2>14, <2>15, <2>16, <2>17, <2>18, <2>19, <2>20, <2>21, <2>22, <2>23, <2>24 DEF Next, ThreadStep
<1>2. Spec => [][Step]_vars
  BY InductiveInv, <1>1, PTL DEF Spec
<1> QED
  BY <1>2 DEF FailedStays

(* Whatever writes fail and whenever the board restarts: until a second    *)
(* call or the cut save of a pair, memory and file hold a pair that gave   *)
(* an address, or none, but between the two writes of a save.              *)
THEOREM SavedPairWorked == Spec => []SavedWorked
<1>1. Inv => SavedWorked
  BY DEF Inv, LoneNetwork, SavedWorked
<1> QED
  BY InductiveInv, <1>1, PTL

-----------------------------------------------------------------------------
(* The microphone and the screen *)

(***************************************************************************)
(* MicOnlyInUse is inductive with the types.  VoiceNotLockedOut is so as   *)
(* well: a round trip that leaves resets the flag even if another one is   *)
(* still inside, so the flag errs on the side of "free" only.              *)
(***************************************************************************)
VoiceInv == VoiceTypeOK /\ MicOnlyInUse /\ VoiceNotLockedOut

(* It holds at the start. *)
LEMMA VoiceInitInv == VoiceInit => VoiceInv
<1> SUFFICES ASSUME VoiceInit PROVE VoiceInv
  OBVIOUS
<1> USE VoiceAssumption DEF VoiceInit, Users, MicStages
<1>1. 0 \in 0..BlinkPeriod - 1
  OBVIOUS
<1>2. VoiceTypeOK
  BY <1>1 DEF VoiceTypeOK
<1>3. MicOnlyInUse
  BY DEF MicOnlyInUse
<1>4. ~busy
  OBVIOUS
<1>5. VoiceNotLockedOut
  BY <1>4 DEF VoiceNotLockedOut
<1> QED
  BY <1>2, <1>3, <1>5 DEF VoiceInv

(* A user's step that moves it to a stage of the list keeps the types. *)
LEMMA VoiceTypeStep ==
    ASSUME VoiceTypeOK, [VoiceNext]_voiceVars
    PROVE  VoiceTypeOK'
<1> USE VoiceAssumption DEF VoiceTypeOK, Users, MicStages, MoveTo,
      OpenMic, CloseMic, ShowText, ShowThenRelease, Back,
      Leave, screen, clock
<1>1. ASSUME NEW u \in Users, Round(u) PROVE VoiceTypeOK'
  <2>1. CASE Check(u)
    BY <2>1 DEF Check
  <2>2. CASE Enter(u)
    BY <2>2 DEF Enter
  <2>3. CASE Record(u)
    BY <2>3 DEF Record
  <2>4. CASE Request(u)
    BY <2>4, ZenonT(40) DEF Request
  <2>5. CASE Announce(u)
    BY <2>5 DEF Announce
  <2> QED
    BY <1>1, <2>1, <2>2, <2>3, <2>4, <2>5 DEF Round
<1>2. ASSUME NEW u \in Users, Hang(u) PROVE VoiceTypeOK'
  BY <1>2 DEF Hang
<1>3. ASSUME NEW w \in Workers, Worker(w) PROVE VoiceTypeOK'
  <2>1. CASE StartListening(w)
    BY <2>1 DEF StartListening
  <2>2. CASE Listen(w)
    BY <2>2 DEF Listen
  <2>3. CASE Hear(w)
    BY <2>3 DEF Hear
  <2>4. CASE Prompt(w)
    BY <2>4 DEF Prompt
  <2>5. CASE Reopen(w)
    BY <2>5 DEF Reopen
  <2>6. CASE Report(w)
    BY <2>6 DEF Report
  <2> QED
    BY <1>3, <2>1, <2>2, <2>3, <2>4, <2>5, <2>6 DEF Worker
<1>4. CASE Commands
  BY <1>4, ZenonT(40) DEF Commands, KwsStart, KwsStop, Voice, Capture
<1>5. CASE Captured
  BY <1>5 DEF Captured
<1>6. CASE Display
  <2>1. CASE OpenDisplay
    BY <2>1 DEF OpenDisplay
  <2>2. CASE Tick
    BY <2>2 DEF Tick, Eyes
  <2>3. CASE Render
    BY <2>3 DEF Render, Eyes
  <2> QED
    BY <1>6, <2>1, <2>2, <2>3 DEF Display
<1>7. CASE UNCHANGED voiceVars
  BY <1>7 DEF voiceVars
<1> QED
  BY <1>1, <1>2, <1>3, <1>4, <1>5, <1>6, <1>7 DEF VoiceNext

(***************************************************************************)
(* A step moves one user, who alone opens or closes the microphone: it is  *)
(* enough that this user does not keep it where it must not.               *)
(***************************************************************************)
LEMMA MicByMover ==
    ASSUME VoiceTypeOK, MicOnlyInUse,
           NEW u \in Users, NEW stage, MoveTo(u, stage),
           mic' \subseteq mic \cup {u},
           u \in mic' => stage \in MicStages
    PROVE  MicOnlyInUse'
  BY DEF VoiceTypeOK, MicOnlyInUse, MoveTo

LEMMA MicStep ==
    ASSUME VoiceTypeOK, MicOnlyInUse, [VoiceNext]_voiceVars
    PROVE  MicOnlyInUse'
<1>0. \A u \in mic : at[u] \in MicStages
  BY DEF MicOnlyInUse
<1>1. ASSUME NEW u \in Users, Round(u) PROVE MicOnlyInUse'
  <2>1. CASE Check(u)
    BY <1>0, <2>1, MicByMover DEF Check, MicStages
  <2>2. CASE Enter(u)
    BY <1>0, <2>2, MicByMover DEF Enter, OpenMic, Leave, MicStages
  <2>3. CASE Record(u)
    BY <2>3, MicByMover DEF Record, CloseMic, Leave
  <2>4. CASE Request(u)
    BY <1>0, <2>4, MicByMover DEF Request, Leave, MicStages
  <2>5. CASE Announce(u)
    BY <1>0, <2>5, MicByMover DEF Announce, Leave, MicStages
  <2> QED
    BY <1>1, <2>1, <2>2, <2>3, <2>4, <2>5 DEF Round
<1>2. ASSUME NEW u \in Users, Hang(u) PROVE MicOnlyInUse'
  BY <1>0, <1>2, MicByMover DEF Hang, MicStages
<1>3. ASSUME NEW w \in Workers, Worker(w) PROVE MicOnlyInUse'
  <2>0. w \in Users
    BY DEF Users
  <2>1. CASE StartListening(w)
    BY <1>0, <2>0, <2>1, MicByMover DEF StartListening, OpenMic, MicStages
  <2>2. CASE Listen(w)
    BY <2>0, <2>2, MicByMover DEF Listen, CloseMic, MicStages
  <2>3. CASE Hear(w)
    BY <2>0, <2>3, MicByMover DEF Hear, CloseMic, MicStages
  <2>4. CASE Prompt(w)
    BY <1>0, <2>0, <2>4, MicByMover DEF Prompt, MicStages
  <2>5. CASE Reopen(w)
    BY <2>0, <2>5, MicByMover DEF Reopen, OpenMic, MicStages
  <2>6. CASE Report(w)
    BY <2>0, <2>6, MicByMover DEF Report, MicStages
  <2> QED
    BY <1>3, <2>1, <2>2, <2>3, <2>4, <2>5, <2>6 DEF Worker
<1>4. CASE Commands
  <2>1. ASSUME NEW w \in Workers, at[w] = "off", MoveTo(w, "opening"), UNCHANGED mic
        PROVE  MicOnlyInUse'
    BY <1>0, <2>1, MicByMover DEF MicStages, Users
  <2>2. Cli \in Users
    BY DEF Users
  <2>3. CASE KwsStop
    BY <2>3 DEF KwsStop, MicOnlyInUse
  <2>4. CASE Voice
    BY <1>0, <2>2, <2>4, MicByMover DEF Voice, CliReady, MicStages
  <2>5. CASE Capture /\ OpenMic(Cli) /\ MoveTo(Cli, "capture")
    BY <2>2, <2>5, MicByMover DEF OpenMic, MicStages
  <2>6. CASE Capture /\ UNCHANGED <<at, mic>>
    BY <2>6 DEF MicOnlyInUse
  <2> QED
    BY <1>4, <2>1, <2>3, <2>4, <2>5, <2>6 DEF Commands, KwsStart, Capture
<1>5. CASE Captured
  BY <1>5, MicByMover DEF Captured, CloseMic, Users
<1>6. CASE Display
  BY <1>6 DEF Display, OpenDisplay, Tick, Render, MicOnlyInUse
<1>7. CASE UNCHANGED voiceVars
  BY <1>7 DEF voiceVars, MicOnlyInUse
<1> QED
  BY <1>1, <1>2, <1>3, <1>4, <1>5, <1>6, <1>7 DEF VoiceNext

(***************************************************************************)
(* The flag: a step that leaves it set moves no user out of the stages     *)
(* inside a round trip.                                                    *)
(***************************************************************************)
Inside == {"record", "request", "announce", "stuck"}

LEMMA FlagByMover ==
    ASSUME VoiceTypeOK, VoiceNotLockedOut,
           NEW u \in Users, NEW stage, MoveTo(u, stage),
           busy' => stage \in Inside \/ (busy /\ at[u] \notin Inside)
    PROVE  VoiceNotLockedOut'
  BY DEF VoiceTypeOK, VoiceNotLockedOut, MoveTo, Inside

LEMMA FlagStep ==
    ASSUME VoiceTypeOK, VoiceNotLockedOut, [VoiceNext]_voiceVars
    PROVE  VoiceNotLockedOut'
<1> USE DEF Inside
<1>1. ASSUME NEW u \in Users, Round(u) PROVE VoiceNotLockedOut'
  <2>1. CASE Check(u)
    BY <2>1, FlagByMover DEF Check
  <2>2. CASE Enter(u)
    BY <2>2, FlagByMover DEF Enter, Leave
  <2>3. CASE Record(u)
    BY <2>3, FlagByMover DEF Record, Leave
  <2>4. CASE Request(u)
    BY <2>4, FlagByMover DEF Request, Leave
  <2>5. CASE Announce(u)
    BY <2>5, FlagByMover DEF Announce, Leave
  <2> QED
    BY <1>1, <2>1, <2>2, <2>3, <2>4, <2>5 DEF Round
<1>2. ASSUME NEW u \in Users, Hang(u) PROVE VoiceNotLockedOut'
  BY <1>2, FlagByMover DEF Hang
<1>3. ASSUME NEW w \in Workers, Worker(w) PROVE VoiceNotLockedOut'
  <2>1. PICK stage : MoveTo(w, stage) /\ at[w] \notin Inside /\ UNCHANGED busy
    BY <1>3 DEF Worker, StartListening, Listen, Hear, Prompt,
         Reopen, Report
  <2> QED
    BY <2>1, FlagByMover DEF Users
<1>4. CASE Commands
  <2>1. ASSUME NEW w \in Workers, at[w] = "off", MoveTo(w, "opening"), UNCHANGED busy
        PROVE  VoiceNotLockedOut'
    BY <2>1, FlagByMover DEF Users
  <2>2. Cli \in Users
    BY DEF Users
  <2>3. CASE KwsStop
    BY <2>3 DEF KwsStop, VoiceNotLockedOut
  <2>4. CASE Voice
    BY <2>2, <2>4, FlagByMover DEF Voice, CliReady
  <2>5. CASE Capture /\ MoveTo(Cli, "capture")
    BY <2>2, <2>5, FlagByMover DEF Capture, CliReady
  <2>6. CASE Capture /\ UNCHANGED at
    BY <2>6 DEF Capture, VoiceNotLockedOut
  <2> QED
    BY <1>4, <2>1, <2>3, <2>4, <2>5, <2>6 DEF Commands, KwsStart, Capture
<1>5. CASE Captured
  BY <1>5, FlagByMover DEF Captured, Users
<1>6. CASE Display
  BY <1>6 DEF Display, OpenDisplay, Tick, Render, VoiceNotLockedOut
<1>7. CASE UNCHANGED voiceVars
  BY <1>7 DEF voiceVars, VoiceNotLockedOut
<1> QED
  BY <1>1, <1>2, <1>3, <1>4, <1>5, <1>6, <1>7 DEF VoiceNext

-----------------------------------------------------------------------------
LEMMA VoiceInvariance == VoiceSpec => []VoiceInv
<1>1. VoiceInv /\ [VoiceNext]_voiceVars => VoiceInv'
  BY VoiceTypeStep, MicStep, FlagStep DEF VoiceInv
<1> QED
  BY <1>1, VoiceInitInv, PTL DEF VoiceSpec

(* For any number of listeners every variable keeps its type. *)
THEOREM VoiceTypeCorrect == VoiceSpec => []VoiceTypeOK
<1>1. VoiceInv => VoiceTypeOK
  BY DEF VoiceInv
<1> QED
  BY <1>1, VoiceInvariance, PTL

(* For any number of listeners no path out of a capture, and no path into  *)
(* a request, keeps the microphone open.                                   *)
THEOREM MicrophoneReturned == VoiceSpec => []MicOnlyInUse
<1>1. VoiceInv => MicOnlyInUse
  BY DEF VoiceInv
<1> QED
  BY <1>1, VoiceInvariance, PTL

(* For any number of listeners the flag of a round trip is never left set  *)
(* with nobody inside, however round trips overlap.                        *)
THEOREM FlagReset == VoiceSpec => []VoiceNotLockedOut
<1>1. VoiceInv => VoiceNotLockedOut
  BY DEF VoiceInv
<1> QED
  BY <1>1, VoiceInvariance, PTL
=============================================================================
