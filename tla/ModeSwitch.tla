---------------------------- MODULE ModeSwitch -----------------------------
(***************************************************************************)
(* The exec mode and the wallet: RuntimeState over its file, the requests  *)
(* that change them, the executor they hand to the dispatcher, and the     *)
(* boot that restores them.  A request runs in a thread of its own and     *)
(* takes its checks, the read of what it may have to put back, the change  *)
(* in memory, the reads of what it saves and the save one after the other; *)
(* another may run between any two of them, and both write through one     *)
(* temporary file.  A save may fail, and the process may end at any point. *)
(* The secret behind the API token is set, rotated away or withdrawn at    *)
(* any time, so that each look at it (api_token_ok) finds it usable or     *)
(* not.  A wallet's key reference and address are read as one.             *)
(***************************************************************************)
EXTENDS Naturals

CONSTANTS
    Wallet,  \* wallet configurations, None not among them
    Req      \* threads that serve requests

VARIABLES
    up,      \* the process runs and has booted
    mem,     \* RuntimeState in memory
    disk,    \* runtime.json
    tmp,     \* the temporary file, a set of at most one payload
    live,    \* the wallet of the dispatcher's live executor
    req,     \* the requests in progress
    vouched,  \* history: in this process, live was gone into with the token usable
    restored, \* history: this process came up in live
    checked   \* history: the wallets whose preflight passed in this process

vars == <<up, mem, disk, tmp, live, req, vouched, restored, checked>>
history == <<vouched, restored, checked>>

---------------------------------------------------------------------------
(* Types                                                                    *)

None == 0
Mode == {"paper", "live"}
State == [mode: Mode, wallet: Wallet \cup {None}]
Defaults == [mode |-> "paper", wallet |-> None]

Pc == {"idle", "positions", "preflight", "find", "change", "wallet", "mode", "write",
       "replace"}

\* to: what the request sets; from: what it found, and what a failing save puts
\* back.
Request == [pc: Pc, field: {"mode", "wallet"}, to: State, from: State, payload: State]
NoRequest == [pc |-> "idle", field |-> "mode", to |-> Defaults, from |-> Defaults,
              payload |-> Defaults]

TypeOK ==
    /\ {up, vouched, restored} \subseteq BOOLEAN
    /\ mem \in State /\ disk \in State /\ tmp \subseteq State
    /\ live \in Wallet \cup {None}
    /\ req \in [Req -> Request]
    /\ checked \subseteq Wallet

Init ==
    /\ up = FALSE
    /\ mem = Defaults /\ disk = Defaults /\ tmp = {}
    /\ live = None
    /\ req = [r \in Req |-> NoRequest]
    /\ vouched = FALSE /\ restored = FALSE /\ checked = {}

---------------------------------------------------------------------------
(* Boot                                                                     *)

\* Variant: the restored mode is left as it is when the demotion is not saved.
DemotedIfSaved(loaded, usable, saves) ==
    IF loaded.mode = "live" /\ ~usable /\ saves
    THEN [loaded EXCEPT !.mode = "paper"] ELSE loaded

\* _demote_restored_live_without_token: paper in memory, saved or not.
Demoted(loaded, usable, saves) ==
    IF loaded.mode = "live" /\ ~usable THEN [loaded EXCEPT !.mode = "paper"] ELSE loaded

\* load, demote, and a live executor for the wallet, if it can be built.  A file
\* that cannot be read is taken for the defaults.
Boot ==
    /\ ~up
    /\ up' = TRUE
    /\ \E readable, usable, saves, builds \in BOOLEAN :
         LET loaded == IF readable THEN disk ELSE Defaults
             now == Demoted(loaded, usable, saves)
             rewritten == now # loaded /\ saves
         IN  /\ mem' = now
             /\ disk' = IF rewritten THEN now ELSE disk
             /\ tmp' = IF rewritten THEN {} ELSE tmp
             /\ live' = IF builds THEN now.wallet ELSE None
             /\ restored' = (now.mode = "live")
             /\ vouched' = (now.mode = "live" /\ usable)
    /\ UNCHANGED <<req, checked>>

\* The process ends: what is in memory or in progress is gone.
Crash ==
    /\ up
    /\ up' = FALSE
    /\ mem' = Defaults /\ live' = None
    /\ req' = [r \in Req |-> NoRequest]
    /\ vouched' = FALSE /\ restored' = FALSE /\ checked' = {}
    /\ UNCHANGED <<disk, tmp>>

---------------------------------------------------------------------------
(* Requests                                                                 *)

On(r, pc) == up /\ req[r].pc = pc

Goes(r, pc) == req' = [req EXCEPT ![r].pc = pc]

Refused(r) ==
    /\ req' = [req EXCEPT ![r] = NoRequest]
    /\ UNCHANGED <<up, mem, disk, tmp, live, history>>

\* POST /api/system/mode with another mode than the present one: live is
\* refused without a token.
AsksMode(r, target) ==
    /\ On(r, "idle")
    /\ target # mem.mode
    /\ \E usable \in BOOLEAN :
         /\ target = "live" => usable
         /\ vouched' = (vouched \/ (target = "live" /\ usable))
    /\ req' = [req EXCEPT ![r] = [NoRequest EXCEPT !.pc = "positions", !.to.mode = target]]
    /\ UNCHANGED <<up, mem, disk, tmp, live, restored, checked>>

\* It is refused while positions are open, in the ledger as it is read.  Live
\* goes on with the wallet of this moment.
ReadsPositions(r) ==
    /\ On(r, "positions")
    /\ \/ Refused(r)
       \/ /\ req' = [req EXCEPT
                 ![r].pc = IF req[r].to.mode = "live" THEN "preflight" ELSE "find",
                 ![r].from.wallet = IF req[r].to.mode = "live" THEN mem.wallet ELSE None]
          /\ UNCHANGED <<up, mem, disk, tmp, live, history>>

\* Wallet, keys, a live executor, its balance and its allowances: all of it
\* works, and the dispatcher gets the executor, or the request is refused.
Preflights(r) ==
    /\ On(r, "preflight")
    /\ \/ Refused(r)
       \/ /\ req[r].from.wallet # None
          /\ live' = req[r].from.wallet
          /\ checked' = checked \cup {req[r].from.wallet}
          /\ Goes(r, "find")
          /\ UNCHANGED <<up, mem, disk, tmp, vouched, restored>>

\* PUT /api/wallet/config, its key and address checked.
AsksWallet(r, w) ==
    /\ On(r, "idle")
    /\ req' = [req EXCEPT ![r] = [NoRequest EXCEPT !.pc = "find", !.field = "wallet",
                                                   !.to.wallet = w]]
    /\ UNCHANGED <<up, mem, disk, tmp, live, history>>

\* set_mode and set_wallet keep what they find, to put it back if need be.
Finds(r) ==
    /\ On(r, "find")
    /\ req' = [req EXCEPT ![r].pc = "change",
                          ![r].from = [Defaults EXCEPT ![req[r].field] = mem[req[r].field]]]
    /\ UNCHANGED <<up, mem, disk, tmp, live, history>>

\* The memory is changed before anything is saved.
Changes(r) ==
    /\ On(r, "change")
    /\ mem' = [mem EXCEPT ![req[r].field] = req[r].to[req[r].field]]
    /\ req' = [req EXCEPT ![r].pc = "wallet", ![r].to = Defaults]
    /\ UNCHANGED <<up, disk, tmp, live, history>>

\* _save: what is saved is the whole memory, the wallet read first and then the mode.
ReadsMemory(r, f, next) ==
    /\ On(r, f)
    /\ req' = [req EXCEPT ![r].pc = next, ![r].payload = [@ EXCEPT ![f] = mem[f]]]
    /\ UNCHANGED <<up, mem, disk, tmp, live, history>>

\* A save that fails puts back what was there before.
PutsBack(r) ==
    /\ mem' = [mem EXCEPT ![req[r].field] = req[r].from[req[r].field]]
    /\ req' = [req EXCEPT ![r] = NoRequest]
    /\ UNCHANGED <<up, disk, tmp, live, history>>

Writes(r) ==
    /\ On(r, "write")
    /\ \/ PutsBack(r)
       \/ /\ tmp' = {req[r].payload}
          /\ req' = [req EXCEPT ![r].pc = "replace", ![r].payload = Defaults]
          /\ UNCHANGED <<up, mem, disk, live, history>>

\* os.replace of whatever the temporary file holds by now; it may be gone.
Replaces(r) ==
    /\ On(r, "replace")
    /\ \/ PutsBack(r)
       \/ \E saved \in tmp :
            /\ disk' = saved
            /\ tmp' = {}
            /\ req' = [req EXCEPT ![r] = NoRequest]
            /\ UNCHANGED <<up, mem, live, history>>

---------------------------------------------------------------------------
Next ==
    \/ Boot \/ Crash
    \/ \E r \in Req :
         \/ \E target \in Mode : AsksMode(r, target)
         \/ \E w \in Wallet : AsksWallet(r, w)
         \/ ReadsPositions(r) \/ Preflights(r)
         \/ Finds(r) \/ Changes(r)
         \/ ReadsMemory(r, "wallet", "mode") \/ ReadsMemory(r, "mode", "write")
         \/ Writes(r) \/ Replaces(r)

Spec == Init /\ [][Next]_vars

---------------------------------------------------------------------------
(* Safety                                                                   *)

\* Live is in force only in a process that found the token usable when it went
\* live, whatever saves failed on the way (_demote_restored_live_without_token),
\* and with an executor of a wallet whose keys, balance and allowances passed the
\* preflight in this process, whatever wallet was saved since - unless the boot
\* restored live, and built an executor for the wallet on disk unchecked (set_mode,
\* lifespan).
LiveIsEarned ==
    up /\ mem.mode = "live" => vouched /\ (restored \/ live \in checked)
=============================================================================
