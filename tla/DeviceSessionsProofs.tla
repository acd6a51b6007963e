------------------------- MODULE DeviceSessionsProofs -------------------------
(***************************************************************************)
(* Theorems about DeviceSessions, for every number of calls and sessions.  *)
(***************************************************************************)
EXTENDS DeviceSessions, TLAPS

-----------------------------------------------------------------------------
(* Types                                                                   *)

Dirty == {"revoked", "enabled", "paused", "closed"}

LEMMA DeviceFields ==
  ASSUME NEW d \in Device
  PROVE  DOMAIN d = {"revoked", "enabled", "paused"}
BY DEF Device

LEMMA NewDeviceType == NewDevice \in Device
BY DEF NewDevice, Device

LEMMA ToggledType ==
  ASSUME TypeOK
  PROVE  Toggled \subseteq BOOLEAN
BY DEF TypeOK, Toggled, Device

\* What a call has in memory.
CallsOK ==
  /\ pc \in [Call -> PC] /\ op \in [Call -> Op]
  /\ ent \in [Call -> Device] /\ saw \in [Call -> BOOLEAN]
  /\ sid \in [Call -> Session \cup {NoSession}] /\ sent \in [Call -> State]
  /\ dirty \in [Call -> SUBSET Dirty]

LEMMA ReturnType ==
  ASSUME TypeOK, NEW c \in Call, Return(c)
  PROVE  /\ CallsOK'
         /\ pc'[c] = "idle"
         /\ \A d \in Call \ {c} : pc'[d] = pc[d] /\ sid'[d] = sid[d]
BY NewDeviceType DEF TypeOK, CallsOK, Return, Goto, PC, Op, State, Dirty

LEMMA InitTyped == Init => TypeOK
<1> SUFFICES ASSUME Init PROVE TypeOK
  OBVIOUS
<1>1. sourced \in BOOLEAN
  BY DEF Init
<1>2. rows \in 0 .. MaxRows
  BY DeviceAssumption DEF Init
<1>3. pc \in [Call -> PC] /\ op \in [Call -> Op] /\ sent \in [Call -> State]
      /\ \A c \in Call : pc[c] = "idle"
  BY DEF Init, PC, Op, State
<1> QED
  BY <1>1, <1>2, <1>3, NewDeviceType DEF Init, TypeOK, Kind, State

LEMMA ChangeTyped ==
  ASSUME TypeOK, NEW c \in Call, NEW name \in Op, NEW e \in Device, Change(c, name, e)
  PROVE  TypeOK'
<1>1. device.revoked \in BOOLEAN
  BY DEF TypeOK, Device
<1>2. /\ Present
      /\ pc' = [pc EXCEPT ![c] = "diff"] /\ op' = [op EXCEPT ![c] = name]
      /\ dirty' = [dirty EXCEPT ![c] = {}]
      /\ ent' = [ent EXCEPT ![c] = e]
      /\ saw' = [saw EXCEPT ![c] = device.revoked]
      /\ UNCHANGED <<kind, sourced, rows, device, code, sess, inactive, sid, sent>>
  BY DEF Change, Begin, Goto
<1> QED
  BY <1>1, <1>2 DEF TypeOK, PC, Present

LEMMA DeviceTyped ==
  ASSUME TypeOK, NEW c \in Call,
         Register(c) \/ Heartbeat(c) \/ Patch(c) \/ Revoke(c)
  PROVE  TypeOK'
<1>1. \A on, off \in BOOLEAN : /\ [device EXCEPT !.enabled = on] \in Device
                               /\ [device EXCEPT !.revoked = off] \in Device
                               /\ [device EXCEPT !.enabled = on, !.paused = off] \in Device
                               /\ [device EXCEPT !.revoked = off, !.enabled = on] \in Device
  BY DEF TypeOK, Device
<1>2. device.paused \in BOOLEAN
  BY DEF TypeOK, Device
<1>3. \E name \in Op, e \in Device : Change(c, name, e)
  <2>1. {"register", "beat", "patch", "revoke"} \subseteq Op
    BY DEF Op
  <2>2. CASE Register(c)
    <3>1. PICK on \in Toggled :
            Change(c, "register", [device EXCEPT !.revoked = FALSE, !.enabled = on])
      BY <2>2 DEF Register
    <3> QED
      BY <1>1, <2>1, <3>1, ToggledType
  <2>3. CASE Heartbeat(c)
    <3>1. PICK on \in Toggled, off \in {device.paused, kind = "windows" /\ ~device.paused} :
            Change(c, "beat", [device EXCEPT !.enabled = on, !.paused = off])
      BY <2>3 DEF Heartbeat
    <3>2. on \in BOOLEAN /\ off \in BOOLEAN
      BY <1>2, ToggledType
    <3> QED
      BY <1>1, <2>1, <3>1, <3>2
  <2>4. CASE Patch(c)
    <3>1. PICK on \in Toggled : Change(c, "patch", [device EXCEPT !.enabled = on])
      BY <2>4 DEF Patch
    <3> QED
      BY <1>1, <2>1, <3>1, ToggledType
  <2>5. CASE Revoke(c)
    BY <1>1, <2>1, <2>5 DEF Revoke
  <2> QED
    BY <2>2, <2>3, <2>4, <2>5
<1> QED
  BY <1>3, ChangeTyped

\* A save puts whole values into the columns it writes.
LEMMA WrittenType ==
  ASSUME TypeOK, NEW c \in Call
  PROVE  LET new == [f \in DOMAIN device |-> IF f \in dirty[c] THEN ent[c][f] ELSE device[f]]
         IN  /\ new \in Device
             /\ new.revoked = (IF "revoked" \in dirty[c] THEN ent[c].revoked ELSE device.revoked)
<1>1. device \in Device /\ ent[c] \in Device
  BY DEF TypeOK
<1>2. DOMAIN device = {"revoked", "enabled", "paused"}
  BY <1>1, DeviceFields
<1> DEFINE new == [f \in DOMAIN device |-> IF f \in dirty[c] THEN ent[c][f] ELSE device[f]]
<1>3. new = [revoked |-> IF "revoked" \in dirty[c] THEN ent[c].revoked ELSE device.revoked,
             enabled |-> IF "enabled" \in dirty[c] THEN ent[c].enabled ELSE device.enabled,
             paused |-> IF "paused" \in dirty[c] THEN ent[c].paused ELSE device.paused]
  BY <1>2
<1> QED
  BY <1>1, <1>3 DEF Device

LEMMA SaveTyped ==
  ASSUME TypeOK, NEW c \in Call, SaveDiff(c) \/ SaveWrite(c) \/ CloseAll(c)
  PROVE  TypeOK'
<1>1. CASE SaveDiff(c)
  <2>1. DOMAIN device \subseteq Dirty
    BY DeviceFields DEF TypeOK, Dirty
  <2> QED
    BY <1>1, <2>1 DEF TypeOK, SaveDiff, Goto, PC, Dirty
<1>2. CASE SaveWrite(c)
  <2>1. device' \in Device
    BY <1>2, WrittenType DEF SaveWrite
  <2>2. CASE op[c] = "revoke"
    BY <1>2, <2>1, <2>2 DEF TypeOK, SaveWrite, Goto, PC
  <2>3. CASE op[c] # "revoke"
    <3>1. Return(c)
      BY <1>2, <2>3 DEF SaveWrite
    <3> QED
      BY <1>2, <2>1, <3>1, ReturnType DEF TypeOK, CallsOK, SaveWrite, Dirty
  <2> QED
    BY <2>2, <2>3
<1>3. CASE CloseAll(c)
  <2>1. Return(c)
    BY <1>3 DEF CloseAll
  <2> QED
    BY <1>3, <2>1, ReturnType DEF TypeOK, CallsOK, CloseAll, Dirty, State
<1> QED
  BY <1>1, <1>2, <1>3

LEMMA InsertTyped ==
  ASSUME TypeOK, NEW c \in Call,
         RegisterNew(c) \/ InsertDevice(c) \/ Exchange(c) \/ LockCode(c) \/ CommitExchange(c)
  PROVE  TypeOK'
<1>1. CASE RegisterNew(c)
  BY <1>1 DEF TypeOK, RegisterNew, Begin, Goto, PC, Op
<1>2. CASE InsertDevice(c)
  <2>1. Return(c) /\ rows' \in 0 .. MaxRows /\ rows' >= rows /\ device' \in Device
    BY <1>2, NewDeviceType, DeviceAssumption DEF InsertDevice, TypeOK, Taken, Present
  <2> QED
    BY <1>2, <2>1, ReturnType DEF TypeOK, CallsOK, InsertDevice, Dirty
<1>3. CASE Exchange(c)
  BY <1>3 DEF TypeOK, Exchange, Begin, Goto, PC, Op
<1>4. CASE LockCode(c)
  <2>1. CASE Exchangeable
    BY <1>4, <2>1 DEF TypeOK, LockCode, Goto, PC
  <2>2. CASE ~Exchangeable
    <3>1. Return(c)
      BY <1>4, <2>2 DEF LockCode
    <3> QED
      BY <1>4, <3>1, ReturnType DEF TypeOK, CallsOK, LockCode, Dirty
  <2> QED
    BY <2>1, <2>2
<1>5. CASE CommitExchange(c)
  <2>1. Return(c) /\ rows' \in 0 .. MaxRows /\ rows' >= rows /\ device' \in Device
    BY <1>5, NewDeviceType, DeviceAssumption DEF CommitExchange, TypeOK, Present
  <2> QED
    BY <1>5, <2>1, ReturnType DEF TypeOK, CallsOK, CommitExchange, Dirty
<1> QED
  BY <1>1, <1>2, <1>3, <1>4, <1>5

LEMMA SessionTyped ==
  ASSUME TypeOK, NEW c \in Call,
         \/ OpenSession(c) \/ FindActive(c) \/ InsertSession(c) \/ TouchSession(c)
         \/ TouchVerdict(c) \/ CloseSession(c) \/ SessionDiff(c) \/ SessionWrite(c)
  PROVE  TypeOK'
<1>1. CASE OpenSession(c)
  BY <1>1 DEF TypeOK, OpenSession, Begin, Goto, PC, Op, Present, Device
<1>2. CASE FindActive(c)
  <2>1. CASE Opened = {}
    BY <1>2, <2>1 DEF TypeOK, FindActive, Goto, PC
  <2>2. CASE Opened # {}
    <3>1. Return(c)
      BY <1>2, <2>2 DEF FindActive
    <3> QED
      BY <1>2, <3>1, ReturnType DEF TypeOK, CallsOK, FindActive, Dirty
  <2> QED
    BY <2>1, <2>2
<1>3. CASE InsertSession(c)
  <2>1. Return(c) /\ sess' \in [Session -> State]
    BY <1>3 DEF InsertSession, TypeOK, State
  <2> QED
    BY <1>3, <2>1, ReturnType DEF TypeOK, CallsOK, InsertSession, Dirty
<1>4. CASE TouchSession(c)
  BY <1>4 DEF TypeOK, TouchSession, Begin, Goto, PC, Op, State, Opened
<1>5. CASE TouchVerdict(c)
  BY <1>5 DEF TypeOK, TouchVerdict, Goto, PC, State
<1>6. CASE CloseSession(c)
  BY <1>6 DEF TypeOK, CloseSession, Begin, Goto, PC, Op, State, Opened
<1>7. CASE SessionDiff(c)
  BY <1>7 DEF TypeOK, SessionDiff, Goto, PC
<1>8. CASE SessionWrite(c)
  <2>1. Return(c) /\ sess' \in [Session -> State] /\ inactive' \subseteq Session
    BY <1>8 DEF SessionWrite, TypeOK, State
  <2> QED
    BY <1>8, <2>1, ReturnType DEF TypeOK, CallsOK, SessionWrite, Dirty
<1> QED
  BY <1>1, <1>2, <1>3, <1>4, <1>5, <1>6, <1>7, <1>8

LEMMA StepTyped == TypeOK /\ [Next]_vars => TypeOK'
<1> SUFFICES ASSUME TypeOK, [Next]_vars PROVE TypeOK'
  OBVIOUS
<1>1. ASSUME NEW c \in Call, Fail(c) PROVE TypeOK'
  <2>1. Return(c)
    BY <1>1 DEF Fail
  <2> QED
    BY <1>1, <2>1, ReturnType DEF TypeOK, CallsOK, Fail, Dirty
<1>2. ASSUME NEW s \in Session, IdleWindow(s) PROVE TypeOK'
  BY <1>2 DEF TypeOK, IdleWindow, calls, Opened
<1>3. CASE CodeExpires \/ AuthorizeConnect
  BY <1>3 DEF TypeOK, CodeExpires, AuthorizeConnect, calls
<1>4. CASE UNCHANGED vars
  BY <1>4 DEF TypeOK, vars, calls
<1> QED
  BY <1>1, <1>2, <1>3, <1>4, DeviceTyped, SaveTyped, InsertTyped, SessionTyped DEF Next

\* The rows, the code and what each call has in memory keep their types: a
\* save that writes some columns of an old entity still leaves a whole device,
\* and who is about to save a device or a session has one.
THEOREM TypeCorrect == Spec => []TypeOK
BY InitTyped, StepTyped, PTL DEF Spec

-----------------------------------------------------------------------------
(* One session, one device                                                 *)

\* A call that is about to use up the code, or to make the device, is the only
\* one that may: the code is not used before it lets the lock go.
Origins ==
  /\ \A c \in Call :
       /\ pc[c] = "insert" => kind # "windows"
       /\ pc[c] \in {"exchange", "locked"} => kind = "windows"
       /\ pc[c] = "locked" => code # "used"
  /\ \A c, d \in Call : pc[c] = "locked" /\ pc[d] = "locked" => c = d
  /\ device.revoked => rows > 0

DevicesInv == TypeOK /\ OneOpenSession /\ MadeOnce /\ Origins

\* What a step of a call does to the places of the calls.
LEMMA Places ==
  ASSUME TypeOK, NEW c \in Call, NEW to, Goto(c, to)
  PROVE  /\ pc'[c] = to
         /\ \A d \in Call \ {c} : pc'[d] = pc[d]
BY DEF TypeOK, Goto

LEMMA InitDevices == Init => DevicesInv
<1> SUFFICES ASSUME Init PROVE OneOpenSession /\ MadeOnce /\ Origins
  BY InitTyped DEF DevicesInv
<1>1. rows = 0 /\ code = "issued" /\ device = NewDevice /\ ~NewDevice.revoked
  BY DEF Init, NewDevice
<1>2. \A c \in Call : pc[c] = "idle"
  BY DEF Init
<1>3. Opened = {}
  BY DEF Init, Opened
<1> QED
  BY <1>1, <1>2, <1>3 DEF OneOpenSession, MadeOnce, Origins

\* The sessions: the unique index is asked whenever one becomes open.
LEMMA OpenedStays ==
  ASSUME TypeOK, OneOpenSession, [Next]_vars
  PROVE  OneOpenSession'
<1>1. ASSUME NEW c \in Call, InsertSession(c) PROVE OneOpenSession'
  BY <1>1 DEF InsertSession, OneOpenSession, Opened, Refused, TypeOK
<1>2. ASSUME NEW c \in Call, SessionWrite(c) PROVE OneOpenSession'
  BY <1>2 DEF SessionWrite, OneOpenSession, Opened, Refused, TypeOK
<1>3. ASSUME NEW c \in Call, CloseAll(c) PROVE OneOpenSession'
  BY <1>3 DEF CloseAll, OneOpenSession, Opened, TypeOK
<1>4. ASSUME NEW c \in Call,
             \/ Register(c) \/ RegisterNew(c) \/ InsertDevice(c) \/ Heartbeat(c) \/ Patch(c)
             \/ Revoke(c) \/ SaveDiff(c) \/ SaveWrite(c) \/ OpenSession(c) \/ FindActive(c)
             \/ TouchSession(c) \/ TouchVerdict(c) \/ CloseSession(c) \/ SessionDiff(c)
             \/ Exchange(c) \/ LockCode(c) \/ CommitExchange(c) \/ Fail(c)
      PROVE  sess' = sess
  BY <1>4 DEF Register, RegisterNew, InsertDevice, Heartbeat, Patch, Revoke, SaveDiff,
     SaveWrite, OpenSession, FindActive, TouchSession, TouchVerdict, CloseSession,
     SessionDiff, Exchange, LockCode, CommitExchange, Fail, Change
<1>5. ASSUME (\E s \in Session : IdleWindow(s)) \/ CodeExpires \/ AuthorizeConnect
             \/ UNCHANGED vars
      PROVE  sess' = sess
  BY <1>5 DEF IdleWindow, CodeExpires, AuthorizeConnect, vars
<1>6. sess' = sess => OneOpenSession'
  BY DEF OneOpenSession, Opened
<1> QED
  BY <1>1, <1>2, <1>3, <1>4, <1>5, <1>6 DEF Next

LEMMA MadeStays ==
  ASSUME DevicesInv, [Next]_vars
  PROVE  (MadeOnce /\ Origins)'
<1> USE DEF DevicesInv
<1>1. ASSUME NEW c \in Call, NEW to, Goto(c, to), to \notin {"insert", "exchange", "locked"},
             UNCHANGED <<kind, rows, code>>, device'.revoked => rows > 0
      PROVE  (MadeOnce /\ Origins)'
  BY <1>1, Places DEF MadeOnce, Origins
<1>2. \A c \in Call : Return(c) => Goto(c, "idle")
  BY DEF Return
<1>3. ASSUME NEW c \in Call, Register(c) \/ Heartbeat(c) \/ Patch(c) \/ Revoke(c)
      PROVE  (MadeOnce /\ Origins)'
  <2>1. /\ Goto(c, "diff") /\ UNCHANGED <<kind, rows, code, device>>
    BY <1>3 DEF Register, Heartbeat, Patch, Revoke, Change, Begin
  <2> QED
    BY <1>1, <2>1 DEF Origins
<1>4. ASSUME NEW c \in Call, SaveDiff(c) \/ OpenSession(c) \/ FindActive(c) \/ TouchSession(c)
             \/ TouchVerdict(c) \/ CloseSession(c) \/ SessionDiff(c) \/ CloseAll(c)
             \/ InsertSession(c) \/ SessionWrite(c) \/ Fail(c)
      PROVE  (MadeOnce /\ Origins)'
  <2>1. /\ \E to \in {"write", "active", "open", "touch", "sdiff", "swrite", "idle"} : Goto(c, to)
        /\ UNCHANGED <<kind, rows, code, device>>
    BY <1>2, <1>4 DEF SaveDiff, OpenSession, FindActive, TouchSession, TouchVerdict,
       CloseSession, SessionDiff, CloseAll, InsertSession, SessionWrite, Fail, Begin
  <2> QED
    BY <1>1, <2>1 DEF Origins
<1>5. ASSUME NEW c \in Call, SaveWrite(c)
      PROVE  (MadeOnce /\ Origins)'
  <2>1. rows > 0
    BY <1>5 DEF TypeOK, SaveWrite
  <2>2. (Goto(c, "closeAll") \/ Goto(c, "idle")) /\ UNCHANGED <<kind, rows, code>>
    BY <1>2, <1>5 DEF SaveWrite
  <2> QED
    BY <1>1, <2>1, <2>2
<1>6. ASSUME NEW c \in Call, RegisterNew(c) PROVE (MadeOnce /\ Origins)'
  <2>1. kind # "windows" /\ Goto(c, "insert") /\ UNCHANGED <<kind, rows, code, device>>
    BY <1>6 DEF RegisterNew, Begin
  <2> QED
    BY <2>1, Places DEF MadeOnce, Origins
<1>7. ASSUME NEW c \in Call, InsertDevice(c) PROVE (MadeOnce /\ Origins)'
  <2>1. kind # "windows" /\ Goto(c, "idle") /\ UNCHANGED <<kind, code>>
    BY <1>2, <1>7 DEF InsertDevice, Origins
  <2>2. rows' <= 1 /\ (device'.revoked => rows' > 0)
    BY <1>7 DEF InsertDevice, Taken, Present, MadeOnce, TypeOK, Origins
  <2> QED
    BY <2>1, <2>2, Places DEF MadeOnce, Origins
<1>8. ASSUME NEW c \in Call, Exchange(c) PROVE (MadeOnce /\ Origins)'
  <2>1. kind = "windows" /\ Goto(c, "exchange") /\ UNCHANGED <<kind, rows, code, device>>
    BY <1>8 DEF Exchange, Begin
  <2> QED
    BY <2>1, Places DEF MadeOnce, Origins
<1>9. ASSUME NEW c \in Call, LockCode(c) PROVE (MadeOnce /\ Origins)'
  <2>1. pc[c] = "exchange" /\ UNCHANGED <<kind, rows, code, device>>
        /\ \A d \in Call : pc[d] # "locked"
    BY <1>9 DEF LockCode
  <2>2. CASE Exchangeable
    <3>1. Goto(c, "locked") /\ code # "used"
      BY <1>9, <2>2 DEF LockCode, Exchangeable
    <3> QED
      BY <2>1, <3>1, Places DEF MadeOnce, Origins
  <2>3. CASE ~Exchangeable
    <3>1. Goto(c, "idle")
      BY <1>2, <1>9, <2>3 DEF LockCode
    <3> QED
      BY <1>1, <2>1, <3>1 DEF Origins
  <2> QED
    BY <2>2, <2>3
<1>10. ASSUME NEW c \in Call, CommitExchange(c) PROVE (MadeOnce /\ Origins)'
  <2>1. pc[c] = "locked" /\ code' = "used" /\ rows' = rows + 1 /\ kind' = kind
        /\ Goto(c, "idle")
    BY <1>2, <1>10 DEF CommitExchange
  <2>2. rows = 0
    BY <2>1 DEF Origins, MadeOnce, TypeOK
  <2> QED
    BY <2>1, <2>2, Places DEF MadeOnce, Origins
<1>11. ASSUME (\E s \in Session : IdleWindow(s)) \/ UNCHANGED vars PROVE (MadeOnce /\ Origins)'
  <2>1. UNCHANGED <<kind, rows, code, device, pc>>
    BY <1>11 DEF IdleWindow, vars, calls
  <2> QED
    BY <2>1 DEF MadeOnce, Origins
<1>12. ASSUME CodeExpires \/ AuthorizeConnect PROVE (MadeOnce /\ Origins)'
  <2>1. /\ UNCHANGED <<kind, rows, device, pc>>
        /\ code # "used" /\ code' # "used"
    BY <1>12 DEF CodeExpires, AuthorizeConnect, calls
  <2> QED
    BY <2>1 DEF MadeOnce, Origins
<1> QED
  BY <1>3, <1>4, <1>5, <1>6, <1>7, <1>8, <1>9, <1>10, <1>11, <1>12 DEF Next

LEMMA StepDevices == DevicesInv /\ [Next]_vars => DevicesInv'
BY StepTyped, OpenedStays, MadeStays DEF DevicesInv

\* However many calls open, touch, close, register, connect and fail at once,
\* a device has one open session at most, is made once, and a connect code is
\* used up exactly when its device is there.
THEOREM DevicesCorrect == Spec => []DevicesHold
<1>1. DevicesInv => DevicesHold
  BY DEF DevicesInv, DevicesHold
<1> QED
  BY InitDevices, StepDevices, <1>1, PTL DEF Spec

-----------------------------------------------------------------------------
(* Revocation                                                              *)

\* What a call has in memory was decided by what it saw: only the repeated
\* pairing of an IDE host has lifted a revocation that it saw, a session is
\* opened by who saw none, and only a touch keeps a session open.
Memories ==
  \A c \in Call :
    /\ pc[c] \in {"diff", "write"} /\ saw[c] /\ ~ent[c].revoked =>
         op[c] = "register" /\ kind = "ide" /\ sourced
    /\ pc[c] \in {"active", "open"} => ~saw[c]
    /\ pc[c] = "touch" => op[c] = "touch"
    /\ pc[c] \in {"sdiff", "swrite"} /\ sent[c] = "open" => op[c] = "touch"

RevocationInv == DevicesInv /\ Memories

LEMMA InitRevocation == Init => RevocationInv
BY InitDevices DEF Init, RevocationInv, Memories

LEMMA ChangeMemories ==
  ASSUME RevocationInv, NEW c \in Call, NEW name, NEW e \in Device, Change(c, name, e),
         device.revoked /\ ~e.revoked => name = "register" /\ kind = "ide" /\ sourced
  PROVE  Memories'
<1>1. /\ pc' = [pc EXCEPT ![c] = "diff"] /\ op' = [op EXCEPT ![c] = name]
      /\ ent' = [ent EXCEPT ![c] = e]
      /\ saw' = [saw EXCEPT ![c] = device.revoked]
      /\ UNCHANGED <<kind, sourced, sent>>
  BY DEF Change, Begin, Goto
<1>2. TypeOK
  BY DEF RevocationInv, DevicesInv
<1>3. pc'[c] = "diff" /\ op'[c] = name /\ ent'[c] = e /\ saw'[c] = device.revoked
  BY <1>1, <1>2 DEF TypeOK
<1>4. \A d \in Call \ {c} : pc'[d] = pc[d] /\ op'[d] = op[d] /\ ent'[d] = ent[d]
                            /\ saw'[d] = saw[d] /\ sent'[d] = sent[d]
  BY <1>1, <1>2 DEF TypeOK
<1> QED
  BY <1>1, <1>3, <1>4 DEF RevocationInv, Memories

LEMMA ReturnMemories ==
  ASSUME RevocationInv, NEW c \in Call, Return(c), UNCHANGED <<kind, sourced>>
  PROVE  Memories'
<1>1. pc'[c] = "idle"
  BY ReturnType DEF RevocationInv, DevicesInv
<1>2. \A d \in Call \ {c} : pc'[d] = pc[d] /\ op'[d] = op[d] /\ ent'[d] = ent[d]
                            /\ saw'[d] = saw[d] /\ sent'[d] = sent[d]
  BY DEF RevocationInv, DevicesInv, TypeOK, Return, Goto
<1> QED
  BY <1>1, <1>2 DEF RevocationInv, Memories

\* A call that goes on and keeps what it saw.
LEMMA GoesOn ==
  ASSUME RevocationInv, NEW c \in Call, NEW to, Goto(c, to),
         UNCHANGED <<kind, sourced, op, ent, saw>>,
         to = "write" => pc[c] = "diff",
         to = "open" => pc[c] = "active",
         to \notin {"diff", "active", "touch"},
         \A d \in Call \ {c} : sent'[d] = sent[d],
         to \in {"sdiff", "swrite"} /\ sent'[c] = "open" => op[c] = "touch"
  PROVE  Memories'
<1>1. pc'[c] = to /\ \A d \in Call \ {c} : pc'[d] = pc[d]
  BY Places DEF RevocationInv, DevicesInv
<1> QED
  BY <1>1 DEF RevocationInv, Memories

LEMMA DeviceMemories ==
  ASSUME RevocationInv, NEW c \in Call,
         \/ Register(c) \/ RegisterNew(c) \/ InsertDevice(c) \/ Heartbeat(c) \/ Patch(c)
         \/ Revoke(c) \/ SaveDiff(c) \/ SaveWrite(c) \/ CloseAll(c)
  PROVE  Memories'
<1>0. /\ device \in Device /\ device.revoked \in BOOLEAN /\ device.paused \in BOOLEAN
      /\ Toggled \subseteq BOOLEAN
  BY ToggledType DEF RevocationInv, DevicesInv, TypeOK, Device
<1>1. CASE Register(c)
  <2>1. PICK on \in Toggled :
          Change(c, "register", [device EXCEPT !.revoked = FALSE, !.enabled = on])
    BY <1>1 DEF Register
  <2>2. [device EXCEPT !.revoked = FALSE, !.enabled = on] \in Device
    BY <1>0 DEF Device
  <2>3. device.revoked => kind = "ide" /\ sourced
    BY <1>1 DEF Register, ideRegisterMayRevive
  <2> QED
    BY <2>1, <2>2, <2>3, ChangeMemories
<1>2. CASE Heartbeat(c)
  <2>1. PICK on \in Toggled, off \in {device.paused, kind = "windows" /\ ~device.paused} :
          Change(c, "beat", [device EXCEPT !.enabled = on, !.paused = off])
    BY <1>2 DEF Heartbeat
  <2>2. [device EXCEPT !.enabled = on, !.paused = off] \in Device
    BY <1>0 DEF Device
  <2>3. ~device.revoked
    BY <1>2 DEF Heartbeat
  <2> QED
    BY <2>1, <2>2, <2>3, ChangeMemories
<1>3. CASE Patch(c)
  <2>1. PICK on \in Toggled : Change(c, "patch", [device EXCEPT !.enabled = on])
    BY <1>3 DEF Patch
  <2>2. /\ [device EXCEPT !.enabled = on] \in Device
        /\ [device EXCEPT !.enabled = on].revoked = device.revoked
    BY <1>0 DEF Device
  <2> QED
    BY <2>1, <2>2, ChangeMemories
<1>4. CASE Revoke(c)
  <2>1. [device EXCEPT !.revoked = TRUE] \in Device
    BY <1>0 DEF Device
  <2> QED
    BY <1>4, <2>1, ChangeMemories DEF Revoke
<1>5. CASE RegisterNew(c)
  <2>1. /\ pc' = [pc EXCEPT ![c] = "insert"] /\ op' = [op EXCEPT ![c] = "register"]
        /\ UNCHANGED <<kind, sourced, ent, saw, sent>>
    BY <1>5 DEF RegisterNew, Begin, Goto
  <2> QED
    BY <2>1 DEF RevocationInv, DevicesInv, TypeOK, Memories
<1>6. CASE InsertDevice(c) \/ CloseAll(c)
  BY <1>6, ReturnMemories DEF InsertDevice, CloseAll
<1>7. CASE SaveDiff(c)
  BY <1>7, GoesOn DEF SaveDiff
<1>8. CASE SaveWrite(c)
  BY <1>8, GoesOn, ReturnMemories DEF SaveWrite
<1> QED
  BY <1>1, <1>2, <1>3, <1>4, <1>5, <1>6, <1>7, <1>8

LEMMA SessionMemories ==
  ASSUME RevocationInv, NEW c \in Call,
         \/ OpenSession(c) \/ FindActive(c) \/ InsertSession(c) \/ TouchSession(c)
         \/ TouchVerdict(c) \/ CloseSession(c) \/ SessionDiff(c) \/ SessionWrite(c)
  PROVE  Memories'
<1>0. TypeOK
  BY DEF RevocationInv, DevicesInv
<1>1. CASE OpenSession(c)
  <2>1. /\ pc' = [pc EXCEPT ![c] = "active"] /\ op' = [op EXCEPT ![c] = "open"]
        /\ saw' = [saw EXCEPT ![c] = device.revoked] /\ ~device.revoked
        /\ UNCHANGED <<kind, sourced, ent, sent>>
    BY <1>1 DEF OpenSession, Begin, Goto, controlOpenVerdict
  <2> QED
    BY <1>0, <2>1 DEF RevocationInv, TypeOK, Memories
<1>2. CASE FindActive(c)
  BY <1>2, GoesOn, ReturnMemories DEF FindActive
<1>3. CASE InsertSession(c) \/ SessionWrite(c)
  BY <1>3, ReturnMemories DEF InsertSession, SessionWrite
<1>4. CASE TouchSession(c)
  <2>1. /\ pc' = [pc EXCEPT ![c] = "touch"] /\ op' = [op EXCEPT ![c] = "touch"]
        /\ \E s : sent' = [sent EXCEPT ![c] = s]
        /\ UNCHANGED <<kind, sourced, ent, saw>>
    BY <1>4 DEF TouchSession, Begin, Goto
  <2> QED
    BY <1>0, <2>1 DEF RevocationInv, TypeOK, Memories
<1>5. CASE TouchVerdict(c)
  <2>1. /\ pc[c] = "touch" /\ Goto(c, "sdiff") /\ UNCHANGED <<kind, sourced, op, ent, saw>>
        /\ \E s : sent' = [sent EXCEPT ![c] = s]
    BY <1>5 DEF TouchVerdict
  <2>2. op[c] = "touch" /\ \A d \in Call \ {c} : sent'[d] = sent[d]
    BY <1>0, <2>1 DEF RevocationInv, TypeOK, Memories
  <2> QED
    BY <2>1, <2>2, GoesOn
<1>6. CASE CloseSession(c)
  <2>1. /\ pc' = [pc EXCEPT ![c] = "sdiff"] /\ op' = [op EXCEPT ![c] = "close"]
        /\ sent' = [sent EXCEPT ![c] = "closed"]
        /\ UNCHANGED <<kind, sourced, ent, saw>>
    BY <1>6 DEF CloseSession, Begin, Goto
  <2> QED
    BY <1>0, <2>1 DEF RevocationInv, TypeOK, Memories
<1>7. CASE SessionDiff(c)
  <2>1. sent[c] = "open" => op[c] = "touch"
    BY <1>7 DEF SessionDiff, RevocationInv, Memories
  <2> QED
    BY <1>7, <2>1, GoesOn DEF SessionDiff
<1> QED
  BY <1>1, <1>2, <1>3, <1>4, <1>5, <1>6, <1>7

LEMMA StepMemories ==
  ASSUME RevocationInv, [Next]_vars
  PROVE  RevocationInv'
<1>1. ASSUME NEW c \in Call, Exchange(c) PROVE Memories'
  <2>1. /\ pc' = [pc EXCEPT ![c] = "exchange"] /\ op' = [op EXCEPT ![c] = "exchange"]
        /\ UNCHANGED <<kind, sourced, ent, saw, sent>>
    BY <1>1 DEF Exchange, Begin, Goto
  <2> QED
    BY <2>1 DEF RevocationInv, DevicesInv, TypeOK, Memories
<1>2. ASSUME NEW c \in Call, LockCode(c) PROVE Memories'
  BY <1>2, GoesOn, ReturnMemories DEF LockCode
<1>3. ASSUME NEW c \in Call, CommitExchange(c) \/ Fail(c) PROVE Memories'
  BY <1>3, ReturnMemories DEF CommitExchange, Fail
<1>4. ASSUME (\E s \in Session : IdleWindow(s)) \/ CodeExpires \/ AuthorizeConnect
             \/ UNCHANGED vars
      PROVE  Memories'
  <2>1. UNCHANGED <<kind, sourced, pc, op, ent, saw, sent>>
    BY <1>4 DEF IdleWindow, CodeExpires, AuthorizeConnect, vars, calls
  <2> QED
    BY <2>1 DEF RevocationInv, Memories
<1>5. Memories'
  BY <1>1, <1>2, <1>3, <1>4, DeviceMemories, SessionMemories DEF Next
<1> QED
  BY <1>5, StepDevices DEF RevocationInv

\* Who may lift a revocation.
LEMMA Lifts ==
  ASSUME RevocationInv, [Next]_vars, device.revoked, ~device'.revoked
  PROVE  \E c \in Call :
           pc[c] = "write" /\ (saw[c] => op[c] = "register" /\ kind = "ide" /\ sourced)
<1>1. Present
  BY DEF RevocationInv, DevicesInv, Origins, Present
<1>2. PICK c \in Call : SaveWrite(c)
  <2>1. ASSUME NEW c \in Call,
               \/ Register(c) \/ RegisterNew(c) \/ InsertDevice(c) \/ Heartbeat(c)
               \/ Patch(c) \/ Revoke(c) \/ SaveDiff(c) \/ CloseAll(c) \/ OpenSession(c)
               \/ FindActive(c) \/ InsertSession(c) \/ TouchSession(c) \/ TouchVerdict(c)
               \/ CloseSession(c) \/ SessionDiff(c) \/ SessionWrite(c) \/ Exchange(c)
               \/ LockCode(c) \/ CommitExchange(c) \/ Fail(c)
        PROVE  device' = device
    BY <1>1, <2>1 DEF Register, RegisterNew, InsertDevice, Heartbeat, Patch, Revoke,
       SaveDiff, CloseAll, OpenSession, FindActive, InsertSession, TouchSession,
       TouchVerdict, CloseSession, SessionDiff, SessionWrite, Exchange, LockCode,
       CommitExchange, Fail, Change
  <2>2. ASSUME (\E s \in Session : IdleWindow(s)) \/ CodeExpires \/ AuthorizeConnect
               \/ UNCHANGED vars
        PROVE  device' = device
    BY <2>2 DEF IdleWindow, CodeExpires, AuthorizeConnect, vars
  <2> QED
    BY <2>1, <2>2 DEF Next
<1>3. pc[c] = "write" /\ ~ent[c].revoked
  BY <1>2, WrittenType DEF SaveWrite, RevocationInv, DevicesInv
<1> QED
  BY <1>3 DEF RevocationInv, Memories

\* Who may open a session.
LEMMA Opens ==
  ASSUME RevocationInv, [Next]_vars, Opened = {}, Opened' # {}
  PROVE  \E c \in Call :
           (pc[c] = "open" /\ ~saw[c]) \/ (pc[c] = "swrite" /\ op[c] = "touch")
<1>1. CASE \E c \in Call : InsertSession(c)
  BY <1>1 DEF InsertSession, RevocationInv, Memories
<1>2. CASE \E c \in Call : SessionWrite(c)
  <2>1. PICK c \in Call : SessionWrite(c)
    BY <1>2
  <2>2. sent[c] = "open"
    BY <2>1 DEF SessionWrite, Opened, RevocationInv, DevicesInv, TypeOK
  <2> QED
    BY <2>1, <2>2 DEF SessionWrite, RevocationInv, Memories
<1>3. CASE ~(\E c \in Call : InsertSession(c) \/ SessionWrite(c))
  <2>1. ASSUME NEW c \in Call, CloseAll(c) PROVE Opened' = {}
    BY <2>1 DEF CloseAll, Opened
  <2>2. ASSUME NEW c \in Call,
               \/ Register(c) \/ RegisterNew(c) \/ InsertDevice(c) \/ Heartbeat(c)
               \/ Patch(c) \/ Revoke(c) \/ SaveDiff(c) \/ SaveWrite(c) \/ OpenSession(c)
               \/ FindActive(c) \/ TouchSession(c) \/ TouchVerdict(c) \/ CloseSession(c)
               \/ SessionDiff(c) \/ Exchange(c) \/ LockCode(c) \/ CommitExchange(c) \/ Fail(c)
        PROVE  sess' = sess
    BY <2>2 DEF Register, RegisterNew, InsertDevice, Heartbeat, Patch, Revoke, SaveDiff,
       SaveWrite, OpenSession, FindActive, TouchSession, TouchVerdict, CloseSession,
       SessionDiff, Exchange, LockCode, CommitExchange, Fail, Change
  <2>3. ASSUME (\E s \in Session : IdleWindow(s)) \/ CodeExpires \/ AuthorizeConnect
               \/ UNCHANGED vars
        PROVE  sess' = sess
    BY <2>3 DEF IdleWindow, CodeExpires, AuthorizeConnect, vars
  <2>4. sess' = sess => Opened' = Opened
    BY DEF Opened
  <2> QED
    BY <1>3, <2>1, <2>2, <2>3, <2>4 DEF Next
<1> QED
  BY <1>1, <1>2, <1>3

\* Once a device is revoked, only a save that is decided before lifts it, or an
\* IDE host that pairs again; and a session opens only by a call that found the
\* device before, or for a session that was open when it was found.
THEOREM RevocationCorrect == Spec => RevocationHolds
<1>1. RevocationInv /\ [Next]_vars =>
        [device.revoked =>
          /\ ~device'.revoked => \E c \in Call :
               pc[c] = "write" /\ (saw[c] => op[c] = "register" /\ kind = "ide" /\ sourced)
          /\ Opened = {} /\ Opened' # {} => \E c \in Call :
               (pc[c] = "open" /\ ~saw[c]) \/ (pc[c] = "swrite" /\ op[c] = "touch")]_vars
  BY Lifts, Opens
<1> QED
  BY InitRevocation, StepMemories, <1>1, PTL DEF Spec, RevocationHolds
=============================================================================
