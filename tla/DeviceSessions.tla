---------------------------- MODULE DeviceSessions ----------------------------
(***************************************************************************)
(* One remotely controlled device and its control sessions                 *)
(* (src/devices/devices.service.ts, and src/control/control.service.ts for *)
(* Windows PCs), under concurrent calls.                                   *)
(*                                                                         *)
(* Apart from the exchange of a connect code no call uses a transaction:   *)
(* it loads an entity, decides, and saves the entity later.  TypeORM then  *)
(* reads the row again and updates the columns in which the entity differs *)
(* from it, so that a column which another call has changed meanwhile is   *)
(* put back.                                                               *)
(***************************************************************************)
EXTENDS Integers, FiniteSets

CONSTANTS
  Call,      \* concurrent calls
  Session,   \* bound: the control_sessions rows ever opened
  NoSession, \* not one of them
  MaxRows    \* machines rows there could be for one device

ASSUME DeviceAssumption ==
  /\ NoSession \notin Session
  /\ MaxRows \in Nat

VARIABLES
  kind,      \* what the device is ...
  sourced,   \* ... and whether, an IDE host, it registers with a sourceId
  rows,      \* machines rows that were made for it
  device,    \* the first of them
  code,      \* the connect code of a Windows PC
  sess,      \* control_sessions of the first row, without the close reason
  inactive,  \* open sessions past the idle window of their last activity
  pc, op,    \* a call: where it is and which one it is
  ent, saw,  \* its machine entity, and what it found in revoked_at
  sid, sent, \* its session, and the session entity
  dirty      \* columns its save is about to write

calls == <<pc, op, ent, saw, sid, sent, dirty>>
vars  == <<kind, sourced, rows, device, code, sess, inactive, calls>>

Kind   == {"windows", "browser", "ide"}
Device == [revoked : BOOLEAN, enabled : BOOLEAN, paused : BOOLEAN]
State  == {"unused", "open", "closed"}

\* enabled is remote_enabled of a PC, and consent_mode other than off of a
\* browser.  A new PC waits for its owner to enable it (BR-WIN-01).
NewDevice == [revoked |-> FALSE, enabled |-> kind # "windows", paused |-> FALSE]

PC == {"idle", "insert", "diff", "write", "closeAll", "active", "open",
       "touch", "sdiff", "swrite", "exchange", "locked"}
Op == {"register", "beat", "patch", "revoke", "open", "touch", "close", "exchange"}

Present   == rows > 0
Opened    == { s \in Session : sess[s] = "open" }

\* Mutant: every device may register again after it was revoked.
EveryoneMayRevive == TRUE

\* Only an IDE host with a sourceId may pair again.
ideRegisterMayRevive == kind = "ide" /\ sourced

-----------------------------------------------------------------------------
Init ==
  /\ kind \in Kind
  /\ sourced \in {FALSE, kind = "ide"}
  /\ rows = 0
  /\ device = NewDevice
  /\ code = "issued"
  /\ sess = [s \in Session |-> "unused"]
  /\ inactive = {}
  /\ pc = [c \in Call |-> "idle"]
  /\ op = [c \in Call |-> "beat"]
  /\ ent = [c \in Call |-> NewDevice]
  /\ saw = [c \in Call |-> FALSE]
  /\ sid = [c \in Call |-> NoSession]
  /\ sent = [c \in Call |-> "unused"]
  /\ dirty = [c \in Call |-> {}]

Goto(c, to) == pc' = [pc EXCEPT ![c] = to]

\* The call is over and forgets its entities.
Return(c) ==
  /\ Goto(c, "idle")
  /\ op' = [op EXCEPT ![c] = "beat"]
  /\ ent' = [ent EXCEPT ![c] = NewDevice]
  /\ saw' = [saw EXCEPT ![c] = FALSE]
  /\ sid' = [sid EXCEPT ![c] = NoSession]
  /\ sent' = [sent EXCEPT ![c] = "unused"]
  /\ dirty' = [dirty EXCEPT ![c] = {}]

Begin(c, name, to) ==
  /\ pc[c] = "idle"
  /\ Goto(c, to)
  /\ op' = [op EXCEPT ![c] = name]
  /\ dirty' = [dirty EXCEPT ![c] = {}]

\* The entity is changed to e in memory and is on its way to save.
Change(c, name, e) ==
  /\ Present
  /\ Begin(c, name, "diff")
  /\ ent' = [ent EXCEPT ![c] = e]
  /\ saw' = [saw EXCEPT ![c] = device.revoked]
  /\ UNCHANGED <<kind, sourced, rows, device, code, sess, inactive, sid, sent>>

-----------------------------------------------------------------------------
(* The device                                                              *)

\* What enabled may become: it is of no consequence for an IDE host.
Toggled == {device.enabled, kind = "ide" \/ ~device.enabled}

\* register, when findRegisterMatch finds the row: a PC or a browser stays
\* revoked, an IDE host may pair again.
Register(c) ==
  /\ device.revoked => ideRegisterMayRevive
  /\ \E on \in Toggled : Change(c, "register", [device EXCEPT !.revoked = FALSE, !.enabled = on])

RegisterNew(c) ==
  /\ ~Present
  /\ kind # "windows"
  /\ Begin(c, "register", "insert")
  /\ UNCHANGED <<kind, sourced, rows, device, code, sess, inactive, ent, saw, sid, sent>>

\* Mutant: no unique index.
NeverTaken == FALSE

\* UQ_machines_token_hash and UQ_machines_kind_source_id.
Taken == Present

\* INSERT; when the index refuses it the row that won is the answer.
InsertDevice(c) ==
  /\ pc[c] = "insert"
  /\ Taken \/ rows < MaxRows
  /\ rows' = IF Taken THEN rows ELSE rows + 1
  /\ device' = IF Present THEN device ELSE NewDevice
  /\ Return(c)
  /\ UNCHANGED <<kind, sourced, code, sess, inactive>>

\* heartbeat and authenticateMachine: nothing is saved for a revoked device.
Heartbeat(c) ==
  /\ ~device.revoked
  /\ \E on \in Toggled, off \in {device.paused, kind = "windows" /\ ~device.paused} :
       Change(c, "beat", [device EXCEPT !.enabled = on, !.paused = off])

\* updateDevice and updateMachine, which a revoked device does not refuse.
Patch(c) == \E on \in Toggled : Change(c, "patch", [device EXCEPT !.enabled = on])

\* markRevoked, also for revokeInternal and revokeBySourceIdIfPresent.
Revoke(c) == ~device.revoked /\ Change(c, "revoke", [device EXCEPT !.revoked = TRUE])

SaveDiff(c) ==
  /\ pc[c] = "diff"
  /\ dirty' = [dirty EXCEPT ![c] = { f \in DOMAIN device : ent[c][f] # device[f] }]
  /\ Goto(c, "write")
  /\ UNCHANGED <<kind, sourced, rows, device, code, sess, inactive, op, ent, saw, sid, sent>>

SaveWrite(c) ==
  /\ pc[c] = "write"
  /\ device' = [f \in DOMAIN device |-> IF f \in dirty[c] THEN ent[c][f] ELSE device[f]]
  /\ \/ /\ op[c] = "revoke"
        /\ Goto(c, "closeAll")
        /\ UNCHANGED <<op, ent, saw, sid, sent, dirty>>
     \/ /\ op[c] # "revoke"
        /\ Return(c)
  /\ UNCHANGED <<kind, sourced, rows, code, sess, inactive>>

\* The UPDATE that ends the open sessions of a revoked device.
CloseAll(c) ==
  /\ pc[c] = "closeAll"
  /\ sess' = [s \in Session |-> IF s \in Opened THEN "closed" ELSE sess[s]]
  /\ inactive' = {}
  /\ Return(c)
  /\ UNCHANGED <<kind, sourced, rows, device, code>>

-----------------------------------------------------------------------------
(* Sessions                                                                *)

\* Mutant: the toggles are looked at, the revocation is not.
VerdictOfToggles(d) == (kind # "ide" => d.enabled) /\ (kind = "windows" => ~d.paused)

\* controlOpenVerdict for the owner; everyone else is denied at once.
controlOpenVerdict(d) ==
  /\ ~d.revoked
  /\ kind # "ide" => d.enabled
  /\ kind = "windows" => ~d.paused

OpenSession(c) ==
  /\ Present
  /\ Cardinality({ s \in Session : sess[s] = "unused" })
       > Cardinality({ d \in Call : pc[d] \in {"active", "open"} })
  /\ controlOpenVerdict(device)
  /\ Begin(c, "open", "active")
  /\ saw' = [saw EXCEPT ![c] = device.revoked]
  /\ UNCHANGED <<kind, sourced, rows, device, code, sess, inactive, ent, sid, sent>>

FindActive(c) ==
  /\ pc[c] = "active"
  /\ \/ Opened # {} /\ Return(c)
     \/ /\ Opened = {}
        /\ Goto(c, "open")
        /\ UNCHANGED <<op, ent, saw, sid, sent, dirty>>
  /\ UNCHANGED <<kind, sourced, rows, device, code, sess, inactive>>

\* Mutant: the lookup before the insert is all there is.
NeverRefused(s) == FALSE

\* UQ_control_sessions_active_machine, for a row that becomes open.
Refused(s) == Opened \ {s} # {}

InsertSession(c) ==
  /\ pc[c] = "open"
  /\ \E s \in Session :
       /\ sess[s] = "unused"
       /\ sess' = IF Refused(s) THEN sess ELSE [sess EXCEPT ![s] = "open"]
  /\ Return(c)
  /\ UNCHANGED <<kind, sourced, rows, device, code, inactive>>

\* requireOpenSession
TouchSession(c) ==
  /\ \E s \in Opened :
       /\ sid' = [sid EXCEPT ![c] = s]
       /\ sent' = [sent EXCEPT ![c] = IF s \in inactive THEN "closed" ELSE "open"]
  /\ Begin(c, "touch", "touch")
  /\ UNCHANGED <<kind, sourced, rows, device, code, sess, inactive, ent, saw>>

\* The device is loaded after the session, and the clock read after both; a
\* session is closed for revocation, pause or inactivity.
TouchVerdict(c) ==
  /\ pc[c] = "touch"
  /\ sent' = [sent EXCEPT ![c] =
       IF device.revoked \/ (kind = "windows" /\ device.paused) \/ sid[c] \in inactive
       THEN "closed" ELSE @]
  /\ Goto(c, "sdiff")
  /\ UNCHANGED <<kind, sourced, rows, device, code, sess, inactive, op, ent, saw, sid, dirty>>

CloseSession(c) ==
  /\ \E s \in Opened :
       /\ sid' = [sid EXCEPT ![c] = s]
       /\ sent' = [sent EXCEPT ![c] = "closed"]
  /\ Begin(c, "close", "sdiff")
  /\ UNCHANGED <<kind, sourced, rows, device, code, sess, inactive, ent, saw>>

\* closed_at and close_reason, and last_activity_at of a touch.
SessionDiff(c) ==
  /\ pc[c] = "sdiff"
  /\ dirty' = [dirty EXCEPT ![c] = IF sent[c] # sess[sid[c]] THEN {"closed"} ELSE {}]
  /\ Goto(c, "swrite")
  /\ UNCHANGED <<kind, sourced, rows, device, code, sess, inactive, op, ent, saw, sid, sent>>

SessionWrite(c) ==
  /\ pc[c] = "swrite"
  /\ sess' = IF "closed" \in dirty[c] /\ ~(sent[c] = "open" /\ Refused(sid[c]))
             THEN [sess EXCEPT ![sid[c]] = sent[c]]
             ELSE sess
  /\ inactive' = inactive \ {sid[c]}
  /\ Return(c)
  /\ UNCHANGED <<kind, sourced, rows, device, code>>

\* Ten or fifteen minutes without a touch.
IdleWindow(s) ==
  /\ s \in Opened \ inactive
  /\ inactive' = inactive \cup {s}
  /\ UNCHANGED <<kind, sourced, rows, device, code, sess, calls>>

-----------------------------------------------------------------------------
(* Connecting a PC: a code is exchanged once for a device.                 *)

Exchange(c) ==
  /\ kind = "windows"
  /\ code = "issued"
  /\ Begin(c, "exchange", "exchange")
  /\ UNCHANGED <<kind, sourced, rows, device, code, sess, inactive, ent, saw, sid, sent>>

\* Mutant: the verdict of the first look is trusted under the lock.
Unchecked == TRUE

\* inspectCode, again, on the locked row.
Exchangeable == code = "issued"

LockCode(c) ==
  /\ pc[c] = "exchange"
  /\ \A d \in Call : pc[d] # "locked"
  /\ \/ /\ Exchangeable
        /\ Goto(c, "locked")
        /\ UNCHANGED <<op, ent, saw, sid, sent, dirty>>
     \/ ~Exchangeable /\ Return(c)
  /\ UNCHANGED <<kind, sourced, rows, device, code, sess, inactive>>

\* The code is marked used and the device inserted, in one transaction.
CommitExchange(c) ==
  /\ pc[c] = "locked"
  /\ rows < MaxRows
  /\ code' = "used"
  /\ rows' = rows + 1
  /\ device' = IF Present THEN device ELSE NewDevice
  /\ Return(c)
  /\ UNCHANGED <<kind, sourced, sess, inactive>>

CodeExpires ==
  /\ code = "issued"
  /\ code' = "expired"
  /\ UNCHANGED <<kind, sourced, rows, device, sess, inactive, calls>>

\* authorizeMachineConnect: the owner of a PC that did not connect in time asks
\* for another code.
AuthorizeConnect ==
  /\ code = "expired"
  /\ \A c \in Call : pc[c] \notin {"exchange", "locked"}
  /\ code' = "issued"
  /\ UNCHANGED <<kind, sourced, rows, device, sess, inactive, calls>>

-----------------------------------------------------------------------------
Fail(c) ==
  /\ pc[c] # "idle"
  /\ Return(c)
  /\ UNCHANGED <<kind, sourced, rows, device, code, sess, inactive>>

Next ==
  \/ \E c \in Call :
       \/ Register(c) \/ RegisterNew(c) \/ InsertDevice(c)
       \/ Heartbeat(c) \/ Patch(c) \/ Revoke(c) \/ SaveDiff(c) \/ SaveWrite(c) \/ CloseAll(c)
       \/ OpenSession(c) \/ FindActive(c) \/ InsertSession(c)
       \/ TouchSession(c) \/ TouchVerdict(c) \/ CloseSession(c)
       \/ SessionDiff(c) \/ SessionWrite(c)
       \/ Exchange(c) \/ LockCode(c) \/ CommitExchange(c)
       \/ Fail(c)
  \/ \E s \in Session : IdleWindow(s)
  \/ CodeExpires \/ AuthorizeConnect

Spec == Init /\ [][Next]_vars
-----------------------------------------------------------------------------
(* Properties                                                              *)

TypeOK ==
  /\ kind \in Kind /\ sourced \in BOOLEAN
  /\ rows \in 0 .. MaxRows
  /\ device \in Device
  /\ code \in {"issued", "used", "expired"}
  /\ sess \in [Session -> State]
  /\ inactive \subseteq Session
  /\ pc \in [Call -> PC] /\ op \in [Call -> Op]
  /\ ent \in [Call -> Device] /\ saw \in [Call -> BOOLEAN]
  /\ sid \in [Call -> Session \cup {NoSession}] /\ sent \in [Call -> State]
  /\ dirty \in [Call -> SUBSET {"revoked", "enabled", "paused", "closed"}]
  /\ \A c \in Call :
       /\ pc[c] \in {"diff", "write", "closeAll", "active", "open"} => rows > 0
       /\ pc[c] \in {"touch", "sdiff", "swrite"} => sid[c] \in Session

\* One active caller on one machine at a time (control-session.entity.ts:9):
\* two calls that open a session at once do not both get one, and a touch
\* that is late does not bring back a session beside a new one.
OneOpenSession == \A s, t \in Opened : s = t

\* A device is made once, by whichever call comes first, and a connect code is
\* used up exactly when its device is there: a failure costs no code.
MadeOnce ==
  /\ rows <= 1
  /\ kind = "windows" => (code = "used" <=> rows = 1)

\* devices.service.ts: one open session, and one device for each code.
DevicesHold == OneOpenSession /\ MadeOnce

\* What a revocation can rely on although saves overlap: a call that begins
\* after it neither lifts it, unless an IDE host pairs again, nor opens a
\* session, unless that session was open when the call found it.
RevocationHolds ==
  [][device.revoked =>
      /\ ~device'.revoked => \E c \in Call :
           pc[c] = "write" /\ (saw[c] => op[c] = "register" /\ kind = "ide" /\ sourced)
      /\ Opened = {} /\ Opened' # {} => \E c \in Call :
           (pc[c] = "open" /\ ~saw[c]) \/ (pc[c] = "swrite" /\ op[c] = "touch")]_vars
=============================================================================
