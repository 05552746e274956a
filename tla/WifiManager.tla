----------------------------- MODULE WifiManager -----------------------------
(***************************************************************************)
(* The board's Wi-Fi state machine (network_manager.c, real hardware): one *)
(* thread that walks CONNECTING, ASSOCIATED, DHCP, READY, RETRY_WAIT and   *)
(* FAILED, and the calls of network_wifi_connect and                       *)
(* network_wifi_reconnect that reset it from the console and from the      *)
(* network watcher.  A call changes the context under the lock; the thread *)
(* holds the lock only to read the state at the top of its loop, so all of *)
(* its other reads and writes may have calls in between.                   *)
(*                                                                         *)
(* config_store.c keeps the credentials, under two keys, in memory and in  *)
(* a file that each change writes anew from memory; a restart goes on with *)
(* what the file holds.  Networks have different passwords, each known by  *)
(* its network.                                                            *)
(*                                                                         *)
(* Seconds are abstract ticks of the thread's own sleeps; what the radio,  *)
(* the access points and the DHCP server do is chosen freely, except that  *)
(* nothing fails while "good" holds.                                       *)
(***************************************************************************)
EXTENDS Integers

CONSTANTS
    Ssids,        \* networks
    NoSsid,       \* none
    MaxRetries,   \* WIFI_MAX_RETRIES
    BackoffInit,  \* WIFI_BACKOFF_INIT
    BackoffMax,   \* WIFI_BACKOFF_MAX
    AssocWait,    \* WIFI_ASSOC_WAIT_SEC
    DhcpWait,     \* WIFI_DHCP_WAIT_SEC
    RenewEvery,   \* WIFI_DHCP_RENEW_SEC
    MaxElapsed,   \* bound on the time in a state; longer waits count as this
    MaxCalls,     \* bound on the calls of network_wifi_connect between restarts
    MaxRestarts   \* bound on restarts

ASSUME WifiAssumption ==
    /\ NoSsid \notin Ssids
    /\ MaxRetries \in Nat \ {0}
    /\ BackoffInit \in Nat \ {0} /\ BackoffMax \in Nat /\ BackoffInit <= BackoffMax
    /\ AssocWait \in Nat /\ DhcpWait \in Nat /\ RenewEvery \in Nat
    /\ MaxElapsed \in Nat
    /\ AssocWait <= MaxElapsed /\ DhcpWait <= MaxElapsed /\ BackoffMax <= MaxElapsed
    /\ MaxCalls \in Nat /\ MaxRestarts \in Nat

VARIABLES
    state,      \* g_wifi_ctx.state
    cred,       \* g_wifi_ctx.ssid and g_wifi_ctx.pass
    retry,      \* g_wifi_ctx.retry_count, counted up to RetryCap
    backoff,    \* g_wifi_ctx.backoff_sec
    elapsed,    \* time since state_enter_time
    renewAge,   \* time since last_dhcp_renew; RenewEvery when one is due
    sm,         \* the thread: where it is and its local variables
    link,       \* network the interface is associated with
    addr,       \* network the interface holds an address of
    leased,     \* networks that ever gave an address
    ram,        \* credentials in s_cache of config_store
    file,       \* credentials in its file
    loading,    \* a call of network_wifi_reconnect: "no", "pass", "connect"
    loaded,     \* what it has loaded
    good,       \* nothing fails
    calls,      \* calls of network_wifi_connect since the last restart
    restarts,   \* restarts so far
    spoilt      \* a second call was made, or the save of a pair cut short

ctx   == <<state, cred, retry, backoff, elapsed, renewAge>>
net   == <<link, addr, leased>>
store == <<ram, file, loading, loaded>>
env   == <<good, calls, restarts, spoilt>>
vars  == <<ctx, sm, net, store, env>>

-----------------------------------------------------------------------------
State == {"IDLE", "CONNECTING", "ASSOCIATED", "DHCP", "READY", "RETRY_WAIT",
          "FAILED"}
Net   == Ssids \cup {NoSsid}
Pair  == [ssid : Net, pass : Net]
Own(s)  == [ssid |-> s, pass |-> s]
Nothing == Own(NoSsid)

\* retry_count is only compared with MaxRetries: more than that is one value.
RetryCap == MaxRetries + 1
CountUp(n) == IF n < RetryCap THEN n + 1 ELSE RetryCap

(***************************************************************************)
(* pc is the next thing the thread does: not started, top of the loop,     *)
(* branch on the state seen, scan for scanned, apply, judge DHCP's result  *)
(* (late: it has waited long enough), save the ssid, save the password,    *)
(* count a failure, write next, or the tail of the loop.                   *)
(***************************************************************************)
Pc == {"off", "top", "branch", "scan", "apply", "judge", "ssid", "pass",
       "count", "settle", "tail"}
Thread == [pc : Pc, seen : State, scanned : Net, late : BOOLEAN,
           old : 0..RetryCap, next : State]

TypeOK ==
    /\ state \in State
    /\ cred \in Pair
    /\ retry \in 0..RetryCap
    /\ backoff \in BackoffInit..BackoffMax
    /\ elapsed \in 0..MaxElapsed
    /\ renewAge \in 0..RenewEvery
    /\ sm \in Thread
    /\ link \in Net /\ addr \in Net /\ leased \subseteq Ssids
    /\ ram \in Pair /\ file \in Pair /\ loaded \in Pair
    /\ loading \in {"no", "pass", "connect"}
    /\ good \in BOOLEAN /\ spoilt \in BOOLEAN
    /\ calls \in 0..MaxCalls /\ restarts \in 0..MaxRestarts

\* What a program starts from, whatever the one before it was doing.
Fresh ==
    [state |-> "IDLE", cred |-> Nothing, retry |-> 0, backoff |-> BackoffInit,
     elapsed |-> 0, renewAge |-> RenewEvery,
     sm |-> [pc |-> "off", seen |-> "IDLE", scanned |-> NoSsid,
             late |-> FALSE, old |-> 0, next |-> "IDLE"],
     link |-> NoSsid, addr |-> NoSsid, loading |-> "no", loaded |-> Nothing,
     calls |-> 0]

Init ==
    /\ state = Fresh.state /\ cred = Fresh.cred /\ retry = Fresh.retry
    /\ backoff = Fresh.backoff /\ elapsed = Fresh.elapsed
    /\ renewAge = Fresh.renewAge /\ sm = Fresh.sm
    /\ link = Fresh.link /\ addr = Fresh.addr
    /\ loading = Fresh.loading /\ loaded = Fresh.loaded /\ calls = Fresh.calls
    /\ \E s \in Net :               \* by this program's earlier life
          file = Own(s) /\ leased = {s} \ {NoSsid}
    /\ ram = file
    /\ good \in BOOLEAN
    /\ restarts = 0 /\ spoilt = FALSE

SetState(s) ==
    /\ state' = s
    /\ elapsed' = 0
    /\ renewAge' = IF s = "DHCP" THEN RenewEvery ELSE renewAge

Goto(pc) == sm' = [sm EXCEPT !.pc = pc]

\* Mutant: time spent waiting is not counted.
SleepNotCounted ==
    /\ UNCHANGED elapsed
    /\ renewAge' = IF renewAge < RenewEvery THEN renewAge + 1 ELSE renewAge

Sleep ==
    /\ elapsed' = IF elapsed < MaxElapsed THEN elapsed + 1 ELSE elapsed
    /\ renewAge' = IF renewAge < RenewEvery THEN renewAge + 1 ELSE renewAge

-----------------------------------------------------------------------------
(* The calls *)

(***************************************************************************)
(* network_wifi_connect up to the release of the lock.  (After that it     *)
(* only reads the state, for at most 90 s.)  The thread is created by the  *)
(* first call that manages to.                                             *)
(***************************************************************************)
ResetContext(c) ==
    /\ calls < MaxCalls
    /\ calls' = calls + 1
    /\ spoilt' = (spoilt \/ calls > 0)
    /\ cred' = c
    /\ retry' = 0
    /\ backoff' = BackoffInit
    /\ UNCHANGED <<net, ram, file, good, restarts>>

Connect(c) ==
    /\ ResetContext(c)
    /\ SetState("CONNECTING")
    /\ IF sm.pc = "off" THEN Goto("top") ELSE UNCHANGED sm

ConnectNoThread(c) ==
    /\ ~good
    /\ sm.pc = "off"
    /\ ResetContext(c)
    /\ UNCHANGED <<state, elapsed, renewAge, sm>>

Console(s) ==
    /\ Connect(Own(s)) \/ ConnectNoThread(Own(s))
    /\ UNCHANGED <<loading, loaded>>

(* network_wifi_reconnect loads the ssid, loads the password, connects. *)
LoadSsid ==
    /\ loading = "no"
    /\ ram.ssid # NoSsid
    /\ loaded' = [Nothing EXCEPT !.ssid = ram.ssid]
    /\ loading' = "pass"
    /\ UNCHANGED <<ctx, sm, net, ram, file, env>>

LoadPass ==
    /\ loading = "pass"
    /\ loaded' = [loaded EXCEPT !.pass = ram.pass]
    /\ loading' = "connect"
    /\ UNCHANGED <<ctx, sm, net, ram, file, env>>

Reconnect ==
    /\ loading = "connect"
    /\ Connect(loaded) \/ ConnectNoThread(loaded)
    /\ loading' = "no" /\ loaded' = Nothing

-----------------------------------------------------------------------------
(* config_store.c *)

(* save_json after a change in memory: the file is replaced, or cannot be  *)
(* opened, or is emptied and not written.                                  *)
WriteFile == file' \in {ram'} \cup (IF good THEN {} ELSE {file, Nothing})

(* Another key is set, and the file written with it. *)
SetOther ==
    /\ UNCHANGED ram
    /\ WriteFile
    /\ UNCHANGED <<ctx, sm, net, loading, loaded, env>>

-----------------------------------------------------------------------------
(* wifi_state_machine_thread *)

Seen(s) == sm.pc = "branch" /\ sm.seen = s

ReadState ==
    /\ sm.pc = "top"
    /\ sm' = [sm EXCEPT !.pc = "branch", !.seen = state]
    /\ UNCHANGED <<ctx, net, store, env>>

\* A driver call fails, or the ssid is read while a call overwrites it.
MayFail == ~good \/ sm.scanned # cred.ssid

(* CONNECTING: bring the interface up, ... *)
BeginConnecting ==
    /\ Seen("CONNECTING")
    /\ \/ sm' = [sm EXCEPT !.pc = "scan", !.scanned = cred.ssid]
       \/ ~good /\ Goto("count")
    /\ UNCHANGED <<ctx, net, store, env>>

(* ... look for the strongest access point of ssid, take the interface down *)
(* and up again, ...                                                        *)
Scan ==
    /\ sm.pc = "scan"
    /\ \/ /\ sm' = [sm EXCEPT !.pc = "apply", !.scanned = cred.ssid]
          /\ link' = NoSsid
          /\ addr' = NoSsid
       \/ MayFail /\ Goto("count") /\ UNCHANGED <<link, addr>>
       \/ MayFail /\ Goto("count") /\ link' = NoSsid /\ addr' = NoSsid
    /\ UNCHANGED <<ctx, leased, store, env>>

(* ... and give the driver the credentials and the access point found,     *)
(* which takes the board in if the password is its own.                    *)
Apply ==
    /\ sm.pc = "apply"
    /\ \/ /\ sm' = [sm EXCEPT !.pc = "settle", !.next = "ASSOCIATED"]
          /\ link' \in {IF cred.ssid = cred.pass THEN cred.ssid ELSE NoSsid}
                       \cup (IF MayFail THEN {NoSsid} ELSE {})
       \/ MayFail /\ Goto("count") /\ UNCHANGED link
    /\ UNCHANGED <<ctx, addr, leased, store, env>>

Associated ==
    /\ Seen("ASSOCIATED")
    /\ \/ /\ elapsed >= AssocWait
          /\ sm' = [sm EXCEPT !.pc = "settle", !.next = "DHCP"]
          /\ UNCHANGED <<elapsed, renewAge>>
       \/ /\ elapsed < AssocWait
          /\ Sleep
          /\ Goto("tail")
    /\ UNCHANGED <<state, cred, retry, backoff, net, store, env>>

(* DHCP: run renew when one is due.  It asks on whatever link there is. *)
Dhcp ==
    /\ Seen("DHCP")
    /\ \/ /\ renewAge = RenewEvery
          /\ renewAge' = 0
          /\ addr' \in {IF link = NoSsid THEN addr ELSE link}
                          \cup (IF good THEN {} ELSE {addr})
       \/ renewAge < RenewEvery /\ UNCHANGED <<renewAge, addr>>
    /\ leased' = leased \cup ({addr'} \ {NoSsid})
    /\ sm' = [sm EXCEPT !.pc = "judge", !.late = elapsed >= DhcpWait]
    /\ UNCHANGED <<state, cred, retry, backoff, elapsed, link, store, env>>

\* Mutant: the credentials are persisted whether or not there is an address.
GotAddressUnchecked ==
    /\ sm.pc = "judge"
    /\ retry' = 0
    /\ backoff' = BackoffInit
    /\ Goto("ssid")
    /\ UNCHANGED <<state, cred, elapsed, renewAge, net, store, env>>

(* With an address the credentials are persisted, one key after the other; *)
(* what came of that is not looked at.                                     *)
GotAddress ==
    /\ sm.pc = "judge"
    /\ addr # NoSsid
    /\ retry' = 0
    /\ backoff' = BackoffInit
    /\ Goto("ssid")
    /\ UNCHANGED <<state, cred, elapsed, renewAge, net, store, env>>

SaveSsid ==
    /\ sm.pc = "ssid"
    /\ ram' = [ram EXCEPT !.ssid = cred.ssid]
    /\ WriteFile
    /\ Goto("pass")
    /\ UNCHANGED <<ctx, net, loading, loaded, env>>

SavePass ==
    /\ sm.pc = "pass"
    /\ ram' = [ram EXCEPT !.pass = cred.pass]
    /\ WriteFile
    /\ spoilt' = (spoilt \/ file' # ram')
    /\ sm' = [sm EXCEPT !.pc = "settle", !.next = "READY"]
    /\ UNCHANGED <<ctx, net, loading, loaded, good, calls, restarts>>

NoAddress ==
    /\ sm.pc = "judge"
    /\ addr = NoSsid
    /\ \/ /\ sm.late
          /\ Goto("count")
          /\ UNCHANGED <<elapsed, renewAge>>
       \/ /\ ~sm.late
          /\ Sleep
          /\ Goto("tail")
    /\ UNCHANGED <<state, cred, retry, backoff, net, store, env>>

(***************************************************************************)
(* retry_count++ reads, then writes: a call's reset in between is lost.    *)
(* Only the DHCP branch compares the count with WIFI_MAX_RETRIES.          *)
(***************************************************************************)
ReadCount ==
    /\ sm.pc = "count"
    /\ sm' = [sm EXCEPT !.pc = "settle", !.old = CountUp(retry),
                        !.next = "RETRY_WAIT"]
    /\ UNCHANGED <<ctx, net, store, env>>

AfterFailure ==
    IF sm.seen = "DHCP" /\ sm.old >= MaxRetries THEN "FAILED" ELSE "RETRY_WAIT"

WriteCount ==
    /\ sm.pc = "settle"
    /\ sm.next = "RETRY_WAIT"
    /\ sm.old > 0
    /\ retry' = sm.old
    /\ sm' = [sm EXCEPT !.old = 0, !.next = AfterFailure]
    /\ UNCHANGED <<state, cred, backoff, elapsed, renewAge, net, store, env>>

Settle ==
    /\ sm.pc = "settle"
    /\ sm.old = 0
    /\ SetState(sm.next)
    /\ Goto("tail")
    /\ UNCHANGED <<cred, retry, backoff, net, store, env>>

\* Mutant: a lost link is noticed but not acted on.
ReadyIgnoresLoss ==
    /\ Seen("READY")
    /\ Goto("tail")
    /\ UNCHANGED <<ctx, net, store, env>>

Ready ==
    /\ Seen("READY")
    /\ \/ /\ addr = NoSsid
          /\ retry' = 0
          /\ backoff' = BackoffInit
          /\ sm' = [sm EXCEPT !.pc = "settle", !.next = "CONNECTING"]
       \/ addr # NoSsid /\ Goto("tail") /\ UNCHANGED <<retry, backoff>>
    /\ UNCHANGED <<state, cred, elapsed, renewAge, net, store, env>>

RetryWait ==
    /\ Seen("RETRY_WAIT")
    /\ \/ /\ elapsed >= backoff
          /\ sm' = [sm EXCEPT !.pc = "settle", !.next = "CONNECTING"]
          /\ UNCHANGED <<elapsed, renewAge>>
       \/ /\ elapsed < backoff
          /\ Sleep
          /\ Goto("tail")
    /\ UNCHANGED <<state, cred, retry, backoff, net, store, env>>

\* Mutant: FAILED is tried again without a call.
FailedRetries ==
    /\ Seen("FAILED")
    /\ sm' = [sm EXCEPT !.pc = "settle", !.next = "CONNECTING"]
    /\ UNCHANGED <<ctx, net, store, env>>

Failed ==
    /\ Seen("FAILED")
    /\ Goto("tail")
    /\ UNCHANGED <<ctx, net, store, env>>

(* The tail of the loop, run after every branch. *)
Tail ==
    /\ sm.pc = "tail"
    /\ backoff' = IF state # "RETRY_WAIT" THEN backoff
                  ELSE IF 2 * backoff > BackoffMax THEN BackoffMax
                  ELSE 2 * backoff
    /\ Goto("top")
    /\ UNCHANGED <<state, cred, retry, elapsed, renewAge, net, store, env>>

ThreadStep ==
    \/ ReadState
    \/ BeginConnecting \/ Scan \/ Apply
    \/ Associated
    \/ Dhcp \/ GotAddress \/ SaveSsid \/ SavePass \/ NoAddress
    \/ ReadCount \/ WriteCount \/ Settle
    \/ Ready
    \/ RetryWait
    \/ Failed
    \/ Tail

-----------------------------------------------------------------------------
(* The surroundings turn bad and good; in bad ones the link may go, with or *)
(* without the address.                                                     *)
Surroundings ==
    /\ \/ good' \in BOOLEAN /\ UNCHANGED <<link, addr>>
       \/ ~good /\ link' = NoSsid /\ addr' \in {addr, NoSsid} /\ UNCHANGED good
    /\ UNCHANGED <<ctx, sm, leased, store, calls, restarts, spoilt>>

(* Power is lost, perhaps while config_store writes the emptied file, and  *)
(* the file, which may not open, is read into memory.                      *)
Restart ==
    /\ ~good /\ restarts < MaxRestarts
    /\ restarts' = restarts + 1
    /\ spoilt' = (spoilt \/ sm.pc = "pass")
    /\ file' \in {file, Nothing} /\ ram' \in {file', Nothing}
    /\ state' = Fresh.state /\ cred' = Fresh.cred /\ retry' = Fresh.retry
    /\ backoff' = Fresh.backoff /\ elapsed' = Fresh.elapsed
    /\ renewAge' = Fresh.renewAge /\ sm' = Fresh.sm
    /\ link' = Fresh.link /\ addr' = Fresh.addr
    /\ loading' = Fresh.loading /\ loaded' = Fresh.loaded /\ calls' = Fresh.calls
    /\ UNCHANGED <<leased, good>>

Next ==
    \/ \E s \in Ssids : Console(s)
    \/ LoadSsid \/ LoadPass \/ Reconnect
    \/ ThreadStep
    \/ SetOther
    \/ Surroundings
    \/ Restart

Spec == Init /\ [][Next]_vars

\* The thread is scheduled: every sleep and every driver call returns.
FairSpec == Spec /\ WF_vars(ThreadStep)

-----------------------------------------------------------------------------
(* Properties *)

(***************************************************************************)
(* "Stay failed until external reset": whatever the thread was doing when  *)
(* it gave up, only a call of network_wifi_connect, or a restart, starts   *)
(* it again.                                                               *)
(***************************************************************************)
FailedStays ==
    [][state = "FAILED" /\ state' # "FAILED" =>
          calls' > calls \/ restarts' > restarts]_vars

(***************************************************************************)
(* Unless two calls were made between two restarts, or the password of a   *)
(* pair was not written where its ssid was, the credentials in memory and  *)
(* in the file are, but between those two writes, a pair that gave the     *)
(* board an address (now or in an earlier life), or none.  Writes of the   *)
(* ssid that fail, files that are emptied and restarts do not matter.      *)
(***************************************************************************)
Worked(c) == c.ssid = c.pass /\ (c.ssid # NoSsid => c.ssid \in leased)

SavedWorked == ~spoilt /\ sm.pc # "pass" => Worked(ram) /\ Worked(file)

(***************************************************************************)
(* The wait between two attempts ends, although backoff_sec grows while    *)
(* it lasts.                                                               *)
(***************************************************************************)
RetryWaitEnds == (state = "RETRY_WAIT") ~> (state # "RETRY_WAIT")

(***************************************************************************)
(* Once nothing fails any more, the board ends up with an address and      *)
(* READY, or in FAILED, unless no thread was ever started.                 *)
(***************************************************************************)
Recovers ==
    <>[]good => <>[](\/ state = "READY" /\ addr # NoSsid
                     \/ state = "FAILED"
                     \/ sm.pc = "off")
=============================================================================
