---------------------------- MODULE MachinesProofs ----------------------------
(***************************************************************************)
(* Proofs about Machines: one machine moves, and what holds of a machine   *)
(* holds of them all.  Then the desktop sign-in, the usage and             *)
(* conversations, each from an invariant of its own, which has the name of *)
(* its machine in front; and the figures of the calendar and of a summary, *)
(* for which a set of numbers with a least member does the work of         *)
(* induction.                                                              *)
(***************************************************************************)
EXTENDS Machines, TLAPS, FiniteSetTheorems, WellFoundedInduction

\* The machine in focus stays so, and takes its steps or none.
LEMMA OneMoves ==
  ASSUME [MachinesNext]_machineVars
  PROVE  /\ focus' = focus
         /\ focus = "desktop" => [Desktop!Next]_desktopVars
         /\ focus = "media" => [Store!Next]_mediaVars
         /\ focus = "videos" => [apart /\ Clips!Next]_videoVars
         /\ focus = "audit" => [Audit!Next]_auditVars
         /\ focus = "crawl" => [Crawler!Next]_crawlVars
         /\ focus = "push" => [Reminders!Next]_pushVars
         /\ focus = "tools" => [Tools!Next]_toolVars
         /\ focus = "usage" => [Meter!Next]_usageVars
         /\ focus = "report" => [Report!Next]_reportVars
         /\ focus = "access" => [Rights!Next]_accessVars
         /\ focus = "chat" => [Chat!Next]_chatVars
         /\ focus = "calendar" => [Pass]_calendarVars
         /\ focus = "analytics" => [Figures!Next]_figuresVars
<1>1. CASE MachinesNext
  BY <1>1 DEF MachinesNext
<1>2. CASE UNCHANGED machineVars
  BY <1>2 DEF machineVars
<1> QED
  BY <1>1, <1>2

-----------------------------------------------------------------------------
(***************************************************************************)
(* Desktop sign-in.  A save without a lock may put an old token back, as   *)
(* if it had never been replaced.  What makes this harmless is that such a *)
(* save always ends the session too, and that no save takes the end back   *)
(* or makes the code good again.                                           *)
(***************************************************************************)

DesktopColumns == {"used", "current", "previous", "until", "revoked"}

DesktopSession(r) ==
  /\ r = [used |-> r.used, current |-> r.current, previous |-> r.previous,
          until |-> r.until, revoked |-> r.revoked]
  /\ r.used \in BOOLEAN /\ r.revoked \in BOOLEAN
  /\ r.current \in Desktop!Token /\ r.previous \in Desktop!Token /\ r.until \in Desktop!Token

DesktopTypeOK ==
  /\ DesktopSession(desktopRow)
  /\ issued \in Desktop!Token
  /\ stale \subseteq Desktop!Token
  /\ desktopPc \in [Client -> {"idle", "exchange", "refresh", "diff", "write"}]
  /\ token \in [Client -> Desktop!Token]
  /\ DOMAIN desktopEnt = Client /\ \A c \in Client : DesktopSession(desktopEnt[c])
  /\ desktopDirty \in [Client -> SUBSET DesktopColumns]
  /\ spent \in [Desktop!Token -> Nat]

\* Until the code is used there is no token; then it stays used, whatever is saved.
DesktopCodeUsed ==
  /\ ~desktopRow.used => issued = 0 /\ ~desktopRow.revoked
  /\ desktopRow.used => issued >= 1
  /\ \A c \in Client :
       /\ desktopPc[c] \in {"refresh", "diff", "write"} => desktopRow.used
       /\ desktopPc[c] \in {"diff", "write"} => desktopEnt[c].used

\* Who saves without a lock ends the session, or it is at its end already.
DesktopEnds ==
  \A c \in Client :
    /\ desktopPc[c] \in {"diff", "write"} => desktopEnt[c].revoked
    /\ desktopPc[c] = "write" /\ "revoked" \notin desktopDirty[c] => desktopRow.revoked

\* While the session lives its token is the last that was made, and not spent.
DesktopUnspent ==
  /\ \A t \in Desktop!Token : spent[t] <= 1
  /\ desktopRow.used /\ ~desktopRow.revoked => desktopRow.current = issued
  /\ ~desktopRow.revoked => \A t \in Desktop!Token : t >= issued => spent[t] = 0

DesktopIInv == DesktopTypeOK /\ DesktopCodeUsed /\ DesktopEnds /\ DesktopUnspent

-----------------------------------------------------------------------------
(* Entities                                                                *)

LEMMA DesktopNewTyped ==
  ASSUME MaxTokens \in Nat
  PROVE  /\ DesktopSession(Desktop!NewSession) /\ ~Desktop!NewSession.used /\ ~Desktop!NewSession.revoked
         /\ 0 \in Desktop!Token
<1>1. 0 \in Desktop!Token
  BY DEF Desktop!Token
<1>2. /\ Desktop!NewSession.current = 0 /\ Desktop!NewSession.previous = 0
      /\ Desktop!NewSession.until = 0
  BY DEF Desktop!NewSession
<1>3. ~Desktop!NewSession.used /\ ~Desktop!NewSession.revoked
  BY DEF Desktop!NewSession
<1>4. Desktop!NewSession = [used |-> Desktop!NewSession.used, current |-> Desktop!NewSession.current,
                    previous |-> Desktop!NewSession.previous, until |-> Desktop!NewSession.until,
                    revoked |-> Desktop!NewSession.revoked]
  BY DEF Desktop!NewSession
<1>5. Desktop!NewSession.used \in BOOLEAN
  BY DEF Desktop!NewSession
<1>6. Desktop!NewSession.revoked \in BOOLEAN
  BY DEF Desktop!NewSession
<1> QED
  BY <1>1, <1>2, <1>3, <1>4, <1>5, <1>6 DEF DesktopSession

\* An entity whose end is about to be saved.
LEMMA DesktopEndedTyped ==
  ASSUME NEW r, DesktopSession(r)
  PROVE  LET s == [r EXCEPT !.revoked = TRUE]
         IN  DesktopSession(s) /\ s.revoked /\ s.used = r.used
<1> DEFINE u == r.used  a == r.current  b == r.previous  x == r.until  z == r.revoked
           yes == TRUE
           s == [r EXCEPT !.revoked = yes]
<1>1. r = [used |-> u, current |-> a, previous |-> b, until |-> x, revoked |-> z]
  BY DEF DesktopSession
<1>2. a \in Desktop!Token /\ b \in Desktop!Token /\ x \in Desktop!Token
  BY DEF DesktopSession
<1>3. u \in BOOLEAN
  BY DEF DesktopSession
<1>4. yes \in BOOLEAN
  OBVIOUS
<1> HIDE DEF u, a, b, x, z, yes
<1>5. s = [used |-> u, current |-> a, previous |-> b, until |-> x, revoked |-> yes]
  BY <1>1
<1>6. s.used = u /\ s.current = a /\ s.previous = b /\ s.until = x /\ s.revoked = yes
  BY <1>5
<1> HIDE DEF s
<1>7. s = [used |-> s.used, current |-> s.current, previous |-> s.previous,
           until |-> s.until, revoked |-> s.revoked]
  BY <1>5, <1>6
<1>8. s.used \in BOOLEAN
  BY <1>3, <1>6
<1>9. s.revoked \in BOOLEAN
  BY <1>4, <1>6
<1>10. DesktopSession(s)
  BY <1>2, <1>6, <1>7, <1>8, <1>9 DEF DesktopSession
<1>11. s.revoked
  BY <1>6 DEF yes
<1>12. s.used = r.used
  BY <1>6 DEF u
<1> QED
  BY <1>10, <1>11, <1>12 DEF s, yes

\* What a save of some columns leaves in the row.
LEMMA DesktopMergeTyped ==
  ASSUME NEW r, DesktopSession(r), NEW s, DesktopSession(s), NEW D
  PROVE  LET w == [f \in DOMAIN r |-> IF f \in D THEN s[f] ELSE r[f]]
         IN  /\ DesktopSession(w)
             /\ w.used = IF "used" \in D THEN s.used ELSE r.used
             /\ w.revoked = IF "revoked" \in D THEN s.revoked ELSE r.revoked
<1> DEFINE w == [f \in DOMAIN r |-> IF f \in D THEN s[f] ELSE r[f]]
<1>1. r = [used |-> r.used, current |-> r.current, previous |-> r.previous,
           until |-> r.until, revoked |-> r.revoked]
  BY DEF DesktopSession
<1>2. DOMAIN r = DesktopColumns
  BY <1>1 DEF DesktopColumns
<1>3. /\ DOMAIN w = DesktopColumns
      /\ w.used = IF "used" \in D THEN s.used ELSE r.used
      /\ w.current = IF "current" \in D THEN s.current ELSE r.current
      /\ w.previous = IF "previous" \in D THEN s.previous ELSE r.previous
      /\ w.until = IF "until" \in D THEN s.until ELSE r.until
      /\ w.revoked = IF "revoked" \in D THEN s.revoked ELSE r.revoked
  BY <1>2 DEF DesktopColumns
<1>4. w = [f \in DesktopColumns |-> w[f]]
  BY <1>2
<1> HIDE DEF w
<1>5. w = [used |-> w.used, current |-> w.current, previous |-> w.previous,
           until |-> w.until, revoked |-> w.revoked]
  BY <1>4 DEF DesktopColumns
<1>6. w.used \in BOOLEAN
  BY <1>3 DEF DesktopSession
<1>7. w.revoked \in BOOLEAN
  BY <1>3 DEF DesktopSession
<1>8. w.current \in Desktop!Token /\ w.previous \in Desktop!Token /\ w.until \in Desktop!Token
  BY <1>3 DEF DesktopSession
<1> QED
  BY <1>3, <1>5, <1>6, <1>7, <1>8 DEF DesktopSession, w

-----------------------------------------------------------------------------
(* The steps                                                               *)

LEMMA DesktopInitIInv ==
  ASSUME MaxTokens \in Nat, Desktop!Init
  PROVE  DesktopIInv
<1>1. desktopRow = Desktop!NewSession /\ issued = 0 /\ stale = {}
      /\ desktopPc = [c \in Client |-> "idle"] /\ token = [c \in Client |-> 0]
      /\ desktopEnt = [c \in Client |-> Desktop!NewSession] /\ desktopDirty = [c \in Client |-> {}]
      /\ spent = [t \in Desktop!Token |-> 0]
  BY DEF Desktop!Init
<1>2. DesktopTypeOK
  BY <1>1, DesktopNewTyped DEF DesktopTypeOK
<1>3. DesktopCodeUsed /\ DesktopEnds /\ DesktopUnspent
  BY <1>1, DesktopNewTyped DEF DesktopCodeUsed, DesktopEnds, DesktopUnspent
<1> QED
  BY <1>2, <1>3 DEF DesktopIInv

\* The end of a call.
LEMMA DesktopReturnTyped ==
  ASSUME MaxTokens \in Nat, DesktopTypeOK, NEW c \in Client, Desktop!Return(c)
  PROVE  /\ desktopPc' \in [Client -> {"idle", "exchange", "refresh", "diff", "write"}]
         /\ token' \in [Client -> Desktop!Token]
         /\ DOMAIN desktopEnt' = Client /\ \A d \in Client : DesktopSession(desktopEnt'[d])
         /\ desktopDirty' \in [Client -> SUBSET DesktopColumns]
         /\ desktopPc'[c] = "idle"
         /\ \A d \in Client \ {c} :
              desktopPc'[d] = desktopPc[d] /\ desktopEnt'[d] = desktopEnt[d] /\ desktopDirty'[d] = desktopDirty[d]
<1>1. desktopPc' = [desktopPc EXCEPT ![c] = "idle"] /\ token' = [token EXCEPT ![c] = 0]
      /\ desktopEnt' = [desktopEnt EXCEPT ![c] = Desktop!NewSession] /\ desktopDirty' = [desktopDirty EXCEPT ![c] = {}]
  BY DEF Desktop!Return, Desktop!Goto
<1> QED
  BY <1>1, DesktopNewTyped DEF DesktopTypeOK

\* A call that goes on without writing; to a save only with an entity of the row.
LEMMA DesktopLocalPreserves ==
  ASSUME DesktopIInv, NEW c \in Client, UNCHANGED <<desktopRow, issued, spent>>, DesktopTypeOK',
         \A d \in Client \ {c} : desktopPc'[d] = desktopPc[d] /\ desktopEnt'[d] = desktopEnt[d] /\ desktopDirty'[d] = desktopDirty[d],
         desktopPc'[c] \in {"refresh", "diff", "write"} => desktopRow.used,
         desktopPc'[c] \in {"diff", "write"} => desktopEnt'[c].used /\ desktopEnt'[c].revoked,
         desktopPc'[c] = "write" /\ "revoked" \notin desktopDirty'[c] => desktopRow.revoked
  PROVE  DesktopIInv' /\ Desktop!StaysEnded
BY DEF DesktopIInv, DesktopCodeUsed, DesktopEnds, DesktopUnspent, Desktop!StaysEnded

LEMMA DesktopExchangeCodePreserves ==
  ASSUME MaxTokens \in Nat, DesktopIInv, NEW c \in Client, Desktop!ExchangeCode(c)
  PROVE  DesktopIInv' /\ Desktop!StaysEnded
<1>0. DesktopTypeOK /\ DesktopCodeUsed /\ DesktopEnds /\ DesktopUnspent
  BY DEF DesktopIInv
<1>1. desktopPc[c] = "exchange" /\ issued < MaxTokens /\ Desktop!Return(c) /\ UNCHANGED stale
  BY DEF Desktop!ExchangeCode
<1>2. CASE Desktop!inspectCode(desktopRow) = "ok"
  <2>1. /\ issued' = issued + 1
        /\ desktopRow' = [desktopRow EXCEPT !.used = TRUE, !.current = issued', !.previous = 0, !.until = issued']
        /\ spent' = [spent EXCEPT ![0] = @ + 1]
    BY <1>2 DEF Desktop!ExchangeCode, Desktop!Spend
  <2>2. ~desktopRow.used
    BY <1>2 DEF Desktop!inspectCode
  <2>3. issued = 0 /\ ~desktopRow.revoked /\ issued' \in Desktop!Token /\ 0 \in Desktop!Token /\ issued' = 1
    BY <1>0, <1>1, <2>1, <2>2 DEF DesktopCodeUsed, DesktopTypeOK, Desktop!Token
  <2>4. desktopRow' = [used |-> TRUE, current |-> issued', previous |-> 0, until |-> issued',
                revoked |-> desktopRow.revoked]
    BY <1>0, <2>1 DEF DesktopTypeOK, DesktopSession
  <2>5. /\ desktopRow'.used = TRUE /\ desktopRow'.current = issued' /\ desktopRow'.previous = 0
        /\ desktopRow'.until = issued' /\ desktopRow'.revoked = desktopRow.revoked
    BY <2>4
  <2>6. DesktopSession(desktopRow')
    <3>1. desktopRow.revoked \in BOOLEAN
      BY <1>0 DEF DesktopTypeOK, DesktopSession
    <3> QED
      BY <2>3, <2>4, <2>5, <3>1 DEF DesktopSession
  <2>7. /\ spent' \in [Desktop!Token -> Nat] /\ spent'[0] = spent[0] + 1
        /\ \A t \in Desktop!Token : t # 0 => spent'[t] = spent[t]
    BY <1>0, <2>1, <2>3 DEF DesktopTypeOK
  <2>8. DesktopTypeOK'
    BY <1>0, <1>1, <2>3, <2>6, <2>7, DesktopReturnTyped DEF DesktopTypeOK
  <2>9. DesktopCodeUsed' /\ DesktopEnds'
    BY <1>0, <1>1, <2>2, <2>3, <2>5, DesktopReturnTyped DEF DesktopCodeUsed, DesktopEnds
  <2>10. \A t \in Desktop!Token : t \in Nat /\ spent[t] = 0
    BY <1>0, <2>3 DEF DesktopUnspent, Desktop!Token
  <2>11. DesktopUnspent'
    BY <2>3, <2>5, <2>7, <2>10 DEF DesktopUnspent, Desktop!Token
  <2> QED
    BY <2>3, <2>8, <2>9, <2>11 DEF DesktopIInv, Desktop!StaysEnded
<1>3. CASE Desktop!inspectCode(desktopRow) # "ok"
  <2>1. UNCHANGED <<desktopRow, issued, spent>>
    BY <1>3 DEF Desktop!ExchangeCode
  <2>2. DesktopTypeOK'
    BY <1>0, <1>1, <2>1, DesktopReturnTyped DEF DesktopTypeOK
  <2> QED
    BY <1>0, <1>1, <2>1, <2>2, DesktopReturnTyped, DesktopLocalPreserves
<1> QED
  BY <1>2, <1>3

\* A token that passes the second look is the last one, and not spent.
LEMMA DesktopRotateTokenPreserves ==
  ASSUME MaxTokens \in Nat, DesktopIInv, NEW c \in Client, Desktop!RotateToken(c)
  PROVE  DesktopIInv' /\ Desktop!StaysEnded
<1>0. DesktopTypeOK /\ DesktopCodeUsed /\ DesktopEnds /\ DesktopUnspent
  BY DEF DesktopIInv
<1>1. desktopPc[c] = "refresh" /\ issued < MaxTokens /\ Desktop!Return(c) /\ UNCHANGED stale
  BY DEF Desktop!RotateToken
<1>2. CASE Desktop!SecondLook(c)
  <2>1. /\ issued' = issued + 1
        /\ desktopRow' = [desktopRow EXCEPT !.previous = desktopRow.current, !.current = issued', !.until = issued']
        /\ spent' = [spent EXCEPT ![token[c]] = @ + 1]
    BY <1>2 DEF Desktop!RotateToken, Desktop!Spend
  <2>2. ~desktopRow.revoked /\ desktopRow.current = token[c]
    BY <1>2 DEF Desktop!SecondLook, Desktop!inspectRefresh
  <2>3. issued \in Nat /\ issued' \in Desktop!Token /\ token[c] \in Desktop!Token
    BY <1>0, <1>1, <2>1 DEF DesktopTypeOK, Desktop!Token
  <2>4. desktopRow' = [used |-> desktopRow.used, current |-> issued', previous |-> desktopRow.current,
                until |-> issued', revoked |-> desktopRow.revoked]
    <3> DEFINE u == desktopRow.used  a == desktopRow.current  b == desktopRow.previous  x == desktopRow.until
               r == desktopRow.revoked
    <3>1. desktopRow = [used |-> u, current |-> a, previous |-> b, until |-> x, revoked |-> r]
      BY <1>0 DEF DesktopTypeOK, DesktopSession
    <3>2. desktopRow' = [desktopRow EXCEPT !.previous = a, !.current = issued', !.until = issued']
      BY <2>1
    <3> HIDE DEF u, a, b, x, r
    <3>3. desktopRow' = [used |-> u, current |-> issued', previous |-> a, until |-> issued',
                  revoked |-> r]
      BY <3>1, <3>2
    <3> QED
      BY <3>3 DEF u, a, r
  <2>5. /\ desktopRow'.used = desktopRow.used /\ desktopRow'.current = issued' /\ desktopRow'.previous = desktopRow.current
        /\ desktopRow'.until = issued' /\ desktopRow'.revoked = desktopRow.revoked
    BY <2>4
  <2>6. DesktopSession(desktopRow')
    <3>1. desktopRow.revoked \in BOOLEAN /\ desktopRow.used \in BOOLEAN /\ desktopRow.current \in Desktop!Token
      BY <1>0 DEF DesktopTypeOK, DesktopSession
    <3> QED
      BY <2>3, <2>4, <2>5, <3>1 DEF DesktopSession
  <2>7. /\ spent' \in [Desktop!Token -> Nat] /\ spent'[token[c]] = spent[token[c]] + 1
        /\ \A t \in Desktop!Token : t # token[c] => spent'[t] = spent[t]
    BY <1>0, <2>1, <2>3 DEF DesktopTypeOK
  <2>8. DesktopTypeOK'
    BY <1>0, <1>1, <2>3, <2>6, <2>7, DesktopReturnTyped DEF DesktopTypeOK
  <2>9. desktopRow.used /\ issued >= 1 /\ desktopRow.current = issued
    BY <1>0, <1>1, <2>2 DEF DesktopCodeUsed, DesktopUnspent
  <2>10. DesktopCodeUsed' /\ DesktopEnds'
    BY <1>0, <1>1, <2>1, <2>3, <2>5, <2>9, DesktopReturnTyped DEF DesktopCodeUsed, DesktopEnds
  <2>11. spent[token[c]] = 0 /\ \A t \in Desktop!Token : t \in Nat /\ spent[t] \in Nat
    BY <1>0, <2>2, <2>3, <2>9 DEF DesktopUnspent, DesktopTypeOK, Desktop!Token
  <2>12. DesktopUnspent'
    <3>1. \A t \in Desktop!Token : spent'[t] <= 1
      BY <1>0, <2>7, <2>11 DEF DesktopUnspent
    <3>2. ASSUME NEW t \in Desktop!Token, t >= issued'
          PROVE  spent'[t] = 0
      <4>1. t # token[c] /\ t >= issued
        BY <2>1, <2>2, <2>3, <2>9, <2>11, <3>2
      <4> QED
        BY <1>0, <2>2, <2>7, <4>1 DEF DesktopUnspent
    <3> QED
      BY <2>5, <3>1, <3>2 DEF DesktopUnspent
  <2> QED
    BY <2>2, <2>8, <2>10, <2>12 DEF DesktopIInv, Desktop!StaysEnded
<1>3. CASE ~Desktop!SecondLook(c)
  <2>1. UNCHANGED <<desktopRow, issued, spent>>
    BY <1>3 DEF Desktop!RotateToken
  <2>2. DesktopTypeOK'
    BY <1>0, <1>1, <2>1, DesktopReturnTyped DEF DesktopTypeOK
  <2> QED
    BY <1>0, <1>1, <2>1, <2>2, DesktopReturnTyped, DesktopLocalPreserves
<1> QED
  BY <1>2, <1>3

\* The entity of a token that was found is of a session whose code is used.
LEMMA DesktopEndPreserves ==
  ASSUME MaxTokens \in Nat, DesktopIInv, NEW c \in Client, NEW t \in Desktop!Token, Desktop!Found(t), Desktop!End(c, t),
         UNCHANGED <<desktopRow, issued, stale, desktopDirty, spent>>
  PROVE  DesktopIInv' /\ Desktop!StaysEnded
<1>0. DesktopTypeOK /\ DesktopCodeUsed
  BY DEF DesktopIInv
<1> DEFINE e == [desktopRow EXCEPT !.revoked = TRUE]
<1>1. DesktopSession(e) /\ e.revoked /\ e.used = desktopRow.used
  BY <1>0, DesktopEndedTyped DEF DesktopTypeOK
<1>2. desktopRow.used
  BY <1>0 DEF Desktop!Found, DesktopCodeUsed, DesktopTypeOK, Desktop!Token
<1>3. /\ desktopEnt' = [desktopEnt EXCEPT ![c] = e] /\ token' = [token EXCEPT ![c] = t]
      /\ desktopPc' = [desktopPc EXCEPT ![c] = "diff"]
  BY DEF Desktop!End, Desktop!Goto
<1> HIDE DEF e
<1>4. DesktopTypeOK'
  BY <1>0, <1>1, <1>3 DEF DesktopTypeOK
<1>5. /\ desktopPc'[c] = "diff" /\ desktopEnt'[c] = e
      /\ \A d \in Client \ {c} : desktopPc'[d] = desktopPc[d] /\ desktopEnt'[d] = desktopEnt[d] /\ desktopDirty'[d] = desktopDirty[d]
  BY <1>0, <1>3 DEF DesktopTypeOK
<1> QED
  BY <1>1, <1>2, <1>4, <1>5, DesktopLocalPreserves

LEMMA DesktopFindPreserves ==
  ASSUME MaxTokens \in Nat, DesktopIInv, NEW c \in Client,
         Desktop!FindCode(c) \/ \E t \in Desktop!Token : Desktop!FindToken(c, t) \/ Desktop!revokeDesktop(c, t)
  PROVE  DesktopIInv' /\ Desktop!StaysEnded
<1>0. DesktopTypeOK /\ DesktopCodeUsed
  BY DEF DesktopIInv
<1>1. CASE Desktop!FindCode(c)
  <2>1. /\ desktopPc' = [desktopPc EXCEPT ![c] = "exchange"]
        /\ UNCHANGED <<desktopRow, issued, stale, token, desktopEnt, desktopDirty, spent>>
    BY <1>1 DEF Desktop!FindCode, Desktop!Goto
  <2>2. DesktopTypeOK' /\ desktopPc'[c] = "exchange" /\ \A d \in Client \ {c} : desktopPc'[d] = desktopPc[d]
    BY <1>0, <2>1 DEF DesktopTypeOK
  <2> QED
    BY <2>1, <2>2, DesktopLocalPreserves
<1>2. ASSUME NEW t \in Desktop!Token, Desktop!FindToken(c, t)
      PROVE  DesktopIInv' /\ Desktop!StaysEnded
  <2>1. Desktop!Found(t) /\ UNCHANGED <<desktopRow, issued, stale, desktopDirty, spent>>
    BY <1>2 DEF Desktop!FindToken
  <2>2. CASE Desktop!End(c, t)
    BY <2>1, <2>2, DesktopEndPreserves
  <2>3. CASE ~Desktop!End(c, t)
    <3>1. token' = [token EXCEPT ![c] = t] /\ desktopPc' = [desktopPc EXCEPT ![c] = "refresh"] /\ UNCHANGED desktopEnt
      BY <1>2, <2>3 DEF Desktop!FindToken, Desktop!Goto
    <3>2. DesktopTypeOK' /\ desktopPc'[c] = "refresh" /\ \A d \in Client \ {c} : desktopPc'[d] = desktopPc[d]
      BY <1>0, <2>1, <3>1 DEF DesktopTypeOK
    <3>3. desktopRow.used
      BY <1>0, <2>1 DEF Desktop!Found, DesktopCodeUsed, DesktopTypeOK, Desktop!Token
    <3> QED
      BY <2>1, <3>1, <3>2, <3>3, DesktopLocalPreserves
  <2> QED
    BY <2>2, <2>3
<1>3. ASSUME NEW t \in Desktop!Token, Desktop!revokeDesktop(c, t)
      PROVE  DesktopIInv' /\ Desktop!StaysEnded
  BY <1>3, DesktopEndPreserves DEF Desktop!revokeDesktop
<1> QED
  BY <1>1, <1>2, <1>3

\* A save that leaves the end of the session out has seen it in the row.
LEMMA DesktopSaveDiffPreserves ==
  ASSUME MaxTokens \in Nat, DesktopIInv, NEW c \in Client, Desktop!SaveDiff(c)
  PROVE  DesktopIInv' /\ Desktop!StaysEnded
<1>0. DesktopTypeOK /\ DesktopCodeUsed /\ DesktopEnds
  BY DEF DesktopIInv
<1> DEFINE D == { f \in DOMAIN desktopRow : desktopEnt[c][f] # desktopRow[f] }
<1>1. /\ desktopPc[c] = "diff" /\ desktopDirty' = [desktopDirty EXCEPT ![c] = D] /\ desktopPc' = [desktopPc EXCEPT ![c] = "write"]
      /\ UNCHANGED <<desktopRow, issued, stale, token, desktopEnt, spent>>
  BY DEF Desktop!SaveDiff, Desktop!Goto
<1>2. DOMAIN desktopRow = DesktopColumns
  <2>1. desktopRow = [used |-> desktopRow.used, current |-> desktopRow.current, previous |-> desktopRow.previous,
               until |-> desktopRow.until, revoked |-> desktopRow.revoked]
    BY <1>0 DEF DesktopTypeOK, DesktopSession
  <2> QED
    BY <2>1 DEF DesktopColumns
<1>3. D \subseteq DesktopColumns
  BY <1>2
<1>4. "revoked" \notin D => desktopRow.revoked
  <2>1. desktopEnt[c].revoked /\ desktopEnt[c].revoked \in BOOLEAN /\ desktopRow.revoked \in BOOLEAN
    BY <1>0, <1>1 DEF DesktopEnds, DesktopTypeOK, DesktopSession
  <2>2. "revoked" \notin D => desktopEnt[c].revoked = desktopRow.revoked
    BY <1>2 DEF DesktopColumns
  <2> QED
    BY <2>1, <2>2
<1> HIDE DEF D
<1>5. DesktopTypeOK'
  BY <1>0, <1>1, <1>3 DEF DesktopTypeOK
<1>6. /\ desktopPc'[c] = "write" /\ desktopDirty'[c] = D
      /\ \A d \in Client \ {c} : desktopPc'[d] = desktopPc[d] /\ desktopDirty'[d] = desktopDirty[d]
  BY <1>0, <1>1 DEF DesktopTypeOK
<1> QED
  BY <1>0, <1>1, <1>4, <1>5, <1>6, DesktopLocalPreserves DEF DesktopCodeUsed, DesktopEnds

\* An old entity is saved: the session is at its end.
LEMMA DesktopSaveWritePreserves ==
  ASSUME MaxTokens \in Nat, DesktopIInv, NEW c \in Client, Desktop!SaveWrite(c)
  PROVE  DesktopIInv' /\ Desktop!StaysEnded
<1>0. DesktopTypeOK /\ DesktopCodeUsed /\ DesktopEnds /\ DesktopUnspent
  BY DEF DesktopIInv
<1>1. /\ desktopPc[c] = "write" /\ Desktop!Return(c) /\ UNCHANGED <<issued, stale, spent>>
      /\ desktopRow' = [f \in DOMAIN desktopRow |-> IF f \in desktopDirty[c] THEN desktopEnt[c][f] ELSE desktopRow[f]]
  BY DEF Desktop!SaveWrite
<1>2. /\ DesktopSession(desktopRow')
      /\ desktopRow'.used = IF "used" \in desktopDirty[c] THEN desktopEnt[c].used ELSE desktopRow.used
      /\ desktopRow'.revoked = IF "revoked" \in desktopDirty[c] THEN desktopEnt[c].revoked ELSE desktopRow.revoked
  <2>1. DesktopSession(desktopRow) /\ DesktopSession(desktopEnt[c])
    BY <1>0 DEF DesktopTypeOK
  <2>2. LET w == [f \in DOMAIN desktopRow |-> IF f \in desktopDirty[c] THEN desktopEnt[c][f] ELSE desktopRow[f]]
        IN  /\ DesktopSession(w)
            /\ w.used = IF "used" \in desktopDirty[c] THEN desktopEnt[c].used ELSE desktopRow.used
            /\ w.revoked = IF "revoked" \in desktopDirty[c] THEN desktopEnt[c].revoked ELSE desktopRow.revoked
    BY <2>1, DesktopMergeTyped
  <2> QED
    BY <1>1, <2>2
<1>3. desktopRow'.used
  BY <1>0, <1>1, <1>2 DEF DesktopCodeUsed
<1>4. desktopRow'.revoked
  BY <1>0, <1>1, <1>2 DEF DesktopEnds
<1>5. DesktopTypeOK'
  BY <1>0, <1>1, <1>2, DesktopReturnTyped DEF DesktopTypeOK
<1>6. issued >= 1
  BY <1>0, <1>1 DEF DesktopCodeUsed
<1>7. DesktopCodeUsed' /\ DesktopEnds'
  BY <1>0, <1>1, <1>3, <1>4, <1>6, DesktopReturnTyped DEF DesktopCodeUsed, DesktopEnds
<1>8. DesktopUnspent'
  BY <1>0, <1>1, <1>4 DEF DesktopUnspent
<1> QED
  BY <1>1, <1>4, <1>5, <1>7, <1>8 DEF DesktopIInv, Desktop!StaysEnded

LEMMA DesktopNextIInv ==
  ASSUME MaxTokens \in Nat, DesktopIInv, [Desktop!Next]_desktopVars
  PROVE  DesktopIInv' /\ [Desktop!StaysEnded]_desktopVars
<1>1. ASSUME NEW c \in Client, Desktop!FindCode(c) \/ Desktop!ExchangeCode(c) \/ Desktop!RotateToken(c) \/ Desktop!SaveDiff(c)
               \/ Desktop!SaveWrite(c) \/ \E t \in Desktop!Token : Desktop!FindToken(c, t) \/ Desktop!revokeDesktop(c, t)
      PROVE  DesktopIInv' /\ Desktop!StaysEnded
  BY <1>1, DesktopFindPreserves, DesktopExchangeCodePreserves, DesktopRotateTokenPreserves,
     DesktopSaveDiffPreserves,
     DesktopSaveWritePreserves
<1>2. ASSUME NEW t \in Desktop!Token, Desktop!Expire(t)
      PROVE  DesktopIInv' /\ Desktop!StaysEnded
  <2>1. stale' = stale \cup {t} /\ UNCHANGED <<desktopRow, issued, desktopPc, token, desktopEnt, desktopDirty, spent>>
    BY <1>2 DEF Desktop!Expire
  <2>2. DesktopTypeOK'
    BY <2>1 DEF DesktopIInv, DesktopTypeOK
  <2> QED
    BY <2>1, <2>2
    DEF DesktopIInv, DesktopCodeUsed, DesktopEnds, DesktopUnspent, Desktop!StaysEnded
<1>3. CASE UNCHANGED desktopVars
  <2>1. UNCHANGED <<desktopRow, issued, stale, desktopPc, token, desktopEnt, desktopDirty, spent>>
    BY <1>3 DEF desktopVars
  <2>2. DesktopTypeOK'
    BY <2>1 DEF DesktopIInv, DesktopTypeOK
  <2> QED
    BY <1>3, <2>1, <2>2 DEF DesktopIInv, DesktopCodeUsed, DesktopEnds, DesktopUnspent
<1> QED
  BY <1>1, <1>2, <1>3 DEF Desktop!Next

DesktopInFocus == focus = "desktop" => DesktopIInv

\* The invariant holds while the sign-in moves.
LEMMA DesktopMoves == MachinesSpec => []DesktopInFocus
<1>1. MachinesInit => DesktopInFocus
  BY DesktopInitIInv, DesktopAssumption DEF MachinesInit, DesktopInFocus
<1>2. DesktopInFocus /\ [MachinesNext]_machineVars => DesktopInFocus'
  BY DesktopNextIInv, OneMoves, DesktopAssumption DEF DesktopInFocus
<1> QED
  BY <1>1, <1>2, PTL DEF MachinesSpec

\* The code and each refresh token is exchanged once at most, however many calls
\* present it at once and whatever old entities are saved.
THEOREM CodeSpentOnceCorrect == MachinesSpec => []CodeSpentOnce
<1>1. DesktopInFocus => CodeSpentOnce
  BY DEF DesktopInFocus, DesktopIInv, DesktopUnspent, CodeSpentOnce, Desktop!SpentOnce
<1> QED
  BY <1>1, DesktopMoves, PTL

\* No save lifts the end of a session, and no token is made after it.
THEOREM EndIsFinalCorrect == MachinesSpec => EndIsFinal
<1>1. DesktopInFocus /\ [MachinesNext]_machineVars
      => [focus = "desktop" => Desktop!StaysEnded]_machineVars
  <2>1. ASSUME UNCHANGED desktopVars
        PROVE  Desktop!StaysEnded
    BY <2>1 DEF desktopVars, Desktop!StaysEnded
  <2> QED
    BY <2>1, DesktopNextIInv, OneMoves, DesktopAssumption DEF DesktopInFocus
<1> QED
  BY <1>1, DesktopMoves, PTL DEF MachinesSpec, EndIsFinal

-----------------------------------------------------------------------------
(***************************************************************************)
(* Usage.  The unique index gives a turn one row at most; that it has one  *)
(* when an upload is answered, and that one upload was told so, needs that *)
(* answers and rows say the same.                                          *)
(***************************************************************************)

UsageEntry == [turn : Turn, session : UsageSession \cup {Nil}, by : UsageUpload]

UsageTypeOK ==
  /\ sessions \subseteq UsageSession
  /\ usage \subseteq UsageEntry
  /\ usagePc \in [UsageUpload -> {"idle", "look", "insert", "answered", "failed"}]
  /\ DOMAIN dto = UsageUpload
  /\ \A u \in UsageUpload : usagePc[u] # "idle" =>
       dto[u] \in [turn : Turn, session : UsageSession \cup {Nil}]
  /\ inserted \in [UsageUpload -> BOOLEAN]

\* The unique index on the turn.
UsageOneRow == \A r, s \in usage : r.turn = s.turn => r = s

\* An answer means that the turn has a row, and who has been told to have made
\* a row has made the row of its turn.
UsageTruthful ==
  /\ \A u \in UsageUpload : usagePc[u] = "answered" => Meter!Rows(dto[u].turn) # {}
  /\ \A u \in UsageUpload : inserted[u] =>
       /\ usagePc[u] = "answered"
       /\ \E r \in usage : r.by = u /\ r.turn = dto[u].turn
  /\ \A r \in usage : inserted[r.by] /\ dto[r.by].turn = r.turn

UsageIInv == UsageTypeOK /\ UsageOneRow /\ UsageTruthful

-----------------------------------------------------------------------------
(* The steps                                                               *)

LEMMA UsageInitIInv ==
  ASSUME Meter!Init
  PROVE  UsageIInv
<1>1. UsageTypeOK
  BY DEF Meter!Init, UsageTypeOK
<1>2. UsageOneRow /\ UsageTruthful
  BY DEF Meter!Init, UsageOneRow, UsageTruthful
<1> QED
  BY <1>1, <1>2 DEF UsageIInv

\* The upload of a turn arrives, or fails: nobody was told anything.
LEMMA UsageSilentPreserves ==
  ASSUME UsageIInv, NEW u \in UsageUpload, usagePc[u] # "answered",
         usagePc' \in [UsageUpload -> {"idle", "look", "insert", "answered", "failed"}],
         usagePc'[u] # "answered", UNCHANGED <<sessions, usage, inserted>>,
         DOMAIN dto' = UsageUpload,
         usagePc'[u] # "idle" => dto'[u] \in [turn : Turn, session : UsageSession \cup {Nil}],
         \A w \in UsageUpload \ {u} : usagePc'[w] = usagePc[w] /\ dto'[w] = dto[w]
  PROVE  UsageIInv'
<1>1. UsageTypeOK'
  BY DEF UsageIInv, UsageTypeOK
<1>2. UsageOneRow'
  BY DEF UsageIInv, UsageOneRow
<1>3. ~inserted[u]
  BY DEF UsageIInv, UsageTruthful
<1>4. \A r \in usage : r.by \in UsageUpload \ {u}
  BY <1>3 DEF UsageIInv, UsageTypeOK, UsageEntry, UsageTruthful
<1>5. UsageTruthful'
  BY <1>3, <1>4 DEF UsageIInv, UsageTruthful, Meter!Rows
<1> QED
  BY <1>1, <1>2, <1>5 DEF UsageIInv

\* An upload learns that its turn has a row.
LEMMA UsageTakenPreserves ==
  ASSUME UsageIInv, NEW u \in UsageUpload, usagePc[u] # "answered", usagePc[u] # "idle",
         Meter!TurnTaken(dto[u]), Meter!Answer(u, FALSE), UNCHANGED <<sessions, usage, dto>>
  PROVE  UsageIInv'
<1>0. UsageTypeOK /\ UsageOneRow /\ UsageTruthful
  BY DEF UsageIInv
<1>1. /\ usagePc' = [usagePc EXCEPT ![u] = "answered"] /\ inserted' = [inserted EXCEPT ![u] = FALSE]
  BY DEF Meter!Answer
<1>2. ~inserted[u]
  BY <1>0 DEF UsageTruthful
<1>3. inserted' = inserted
  <2>1. inserted[u] = FALSE
    BY <1>0, <1>2 DEF UsageTypeOK
  <2> QED
    BY <1>0, <1>1, <2>1 DEF UsageTypeOK
<1>4. usagePc'[u] = "answered" /\ \A w \in UsageUpload \ {u} : usagePc'[w] = usagePc[w]
  BY <1>0, <1>1 DEF UsageTypeOK
<1>5. UsageTypeOK'
  BY <1>0, <1>1, <1>3 DEF UsageTypeOK
<1>6. UsageOneRow'
  BY <1>0 DEF UsageOneRow
<1>7. UsageTruthful'
  BY <1>0, <1>3, <1>4 DEF UsageTruthful, Meter!Rows, Meter!TurnTaken
<1> QED
  BY <1>5, <1>6, <1>7 DEF UsageIInv

\* A row is inserted, and its upload told so.
LEMMA UsageInsertPreserves ==
  ASSUME UsageIInv, NEW u \in UsageUpload, Meter!Insert(u)
  PROVE  UsageIInv'
<1>0. UsageTypeOK /\ UsageOneRow /\ UsageTruthful
  BY DEF UsageIInv
<1> DEFINE new == [turn |-> dto[u].turn, session |-> dto[u].session, by |-> u]
<1>1. /\ usagePc[u] = "insert" /\ ~Meter!TurnTaken(dto[u]) /\ ~Meter!SessionGone(dto[u])
      /\ usage' = usage \cup {new}
      /\ usagePc' = [usagePc EXCEPT ![u] = "answered"] /\ inserted' = [inserted EXCEPT ![u] = TRUE]
      /\ UNCHANGED <<sessions, dto>>
  BY DEF Meter!Insert, Meter!Answer
<1>2. new \in UsageEntry /\ new.turn = dto[u].turn /\ new.by = u
  <2>1. dto[u] \in [turn : Turn, session : UsageSession \cup {Nil}]
    BY <1>0, <1>1 DEF UsageTypeOK
  <2> QED
    BY <2>1 DEF UsageEntry
<1> HIDE DEF new
<1>3. usagePc'[u] = "answered" /\ \A w \in UsageUpload \ {u} : usagePc'[w] = usagePc[w]
  BY <1>0, <1>1 DEF UsageTypeOK
<1>4. inserted'[u] /\ \A w \in UsageUpload \ {u} : inserted'[w] = inserted[w]
  BY <1>0, <1>1 DEF UsageTypeOK
<1>5. UsageTypeOK'
  <2>1. inserted' \in [UsageUpload -> BOOLEAN]
    BY <1>0, <1>1 DEF UsageTypeOK
  <2>2. usage' \subseteq UsageEntry /\ sessions' \subseteq UsageSession
    BY <1>0, <1>1, <1>2 DEF UsageTypeOK
  <2>3. usagePc' \in [UsageUpload -> {"idle", "look", "insert", "answered", "failed"}]
    BY <1>0, <1>1 DEF UsageTypeOK
  <2> QED
    BY <1>0, <1>1, <1>3, <2>1, <2>2, <2>3 DEF UsageTypeOK
<1>6. UsageOneRow'
  BY <1>0, <1>1, <1>2 DEF UsageOneRow, Meter!TurnTaken, Meter!Rows
<1>7. \A r \in usage : r.by \in UsageUpload
  BY <1>0 DEF UsageTypeOK, UsageEntry
<1>8. UsageTruthful'
  <2>1. ASSUME NEW w \in UsageUpload, usagePc'[w] = "answered"
        PROVE  Meter!Rows(dto[w].turn)' # {}
    BY <1>0, <1>1, <1>2, <1>3, <2>1 DEF UsageTruthful, Meter!Rows
  <2>2. ASSUME NEW w \in UsageUpload, inserted'[w]
        PROVE  usagePc'[w] = "answered" /\ \E r \in usage' : r.by = w /\ r.turn = dto[w].turn
    BY <1>0, <1>1, <1>2, <1>3, <1>4, <2>2 DEF UsageTruthful
  <2>3. ASSUME NEW r \in usage'
        PROVE  inserted'[r.by] /\ dto[r.by].turn = r.turn
    BY <1>0, <1>1, <1>2, <1>4, <1>7, <2>3 DEF UsageTruthful
  <2> QED
    BY <1>1, <2>1, <2>2, <2>3 DEF UsageTruthful, Meter!Rows
<1> QED
  BY <1>5, <1>6, <1>8 DEF UsageIInv

\* A row stays when its session goes, and remains of its turn and its upload.
LEMMA UsageRemoveSessionPreserves ==
  ASSUME UsageIInv, NEW x \in UsageSession, Meter!RemoveSession(x)
  PROVE  UsageIInv'
<1>0. UsageTypeOK /\ UsageOneRow /\ UsageTruthful
  BY DEF UsageIInv
<1> DEFINE f(r) == IF r.session = x THEN [r EXCEPT !.session = Nil] ELSE r
<1>1. usage' = {f(r) : r \in usage} /\ sessions' \subseteq sessions
      /\ UNCHANGED <<usagePc, dto, inserted>>
  BY DEF Meter!RemoveSession
<1>2. \A r \in usage : f(r) \in UsageEntry /\ f(r).turn = r.turn /\ f(r).by = r.by
  <2> SUFFICES ASSUME NEW r \in usage
               PROVE  f(r) \in UsageEntry /\ f(r).turn = r.turn /\ f(r).by = r.by
    OBVIOUS
  <2>1. PICK t \in Turn, s \in UsageSession \cup {Nil}, b \in UsageUpload :
          r = [turn |-> t, session |-> s, by |-> b]
    BY <1>0 DEF UsageTypeOK, UsageEntry
  <2>2. [r EXCEPT !.session = Nil] = [turn |-> t, session |-> Nil, by |-> b]
    BY <2>1
  <2> QED
    BY <2>1, <2>2 DEF UsageEntry
<1> HIDE DEF f
<1>3. UsageTypeOK'
  BY <1>0, <1>1, <1>2 DEF UsageTypeOK
<1>4. UsageOneRow'
  BY <1>0, <1>1, <1>2 DEF UsageOneRow
<1>5. UsageTruthful'
  <2>1. ASSUME NEW u \in UsageUpload, usagePc[u] = "answered"
        PROVE  Meter!Rows(dto[u].turn)' # {}
    <3>1. PICK r \in usage : r.turn = dto[u].turn
      BY <1>0, <2>1 DEF UsageTruthful, Meter!Rows
    <3>2. f(r) \in usage' /\ f(r).turn = dto'[u].turn
      BY <1>1, <1>2, <3>1
    <3> QED
      BY <3>2 DEF Meter!Rows
  <2>2. ASSUME NEW u \in UsageUpload, inserted[u]
        PROVE  usagePc[u] = "answered" /\ \E r \in usage' : r.by = u /\ r.turn = dto[u].turn
    <3>1. PICK r \in usage : r.by = u /\ r.turn = dto[u].turn
      BY <1>0, <2>2 DEF UsageTruthful
    <3>2. f(r) \in usage' /\ f(r).by = u /\ f(r).turn = dto[u].turn
      BY <1>1, <1>2, <3>1
    <3> QED
      BY <1>0, <2>2, <3>2 DEF UsageTruthful
  <2>3. \A r \in usage' : inserted[r.by] /\ dto[r.by].turn = r.turn
    BY <1>0, <1>1, <1>2 DEF UsageTruthful
  <2> QED
    BY <1>1, <2>1, <2>2, <2>3 DEF UsageTruthful, Meter!Rows
<1> QED
  BY <1>3, <1>4, <1>5 DEF UsageIInv

LEMMA UsageNextIInv ==
  ASSUME UsageIInv, [Meter!Next]_usageVars
  PROVE  UsageIInv'
<1>0. UsageTypeOK
  BY DEF UsageIInv
<1>1. ASSUME NEW u \in UsageUpload, NEW turn \in Turn, NEW session \in UsageSession \cup {Nil},
             Meter!Begin(u, turn, session)
      PROVE  UsageIInv'
  <2>1. /\ usagePc[u] = "idle" /\ usagePc' = [usagePc EXCEPT ![u] = "look"]
        /\ dto' = [dto EXCEPT ![u] = [turn |-> turn, session |-> session]]
        /\ UNCHANGED <<sessions, usage, inserted>>
    BY <1>1 DEF Meter!Begin
  <2>2. /\ usagePc' \in [UsageUpload -> {"idle", "look", "insert", "answered", "failed"}]
        /\ usagePc'[u] = "look" /\ DOMAIN dto' = UsageUpload
        /\ dto'[u] = [turn |-> turn, session |-> session]
        /\ \A w \in UsageUpload \ {u} : usagePc'[w] = usagePc[w] /\ dto'[w] = dto[w]
    BY <1>0, <2>1 DEF UsageTypeOK
  <2> QED
    BY <2>1, <2>2, UsageSilentPreserves
<1>2. ASSUME NEW u \in UsageUpload, Meter!LookForTurn(u)
      PROVE  UsageIInv'
  <2>1. usagePc[u] = "look" /\ UNCHANGED <<sessions, usage, dto>>
    BY <1>2 DEF Meter!LookForTurn
  <2>2. CASE Meter!Rows(dto[u].turn) # {}
    BY <1>2, <2>1, <2>2, UsageTakenPreserves DEF Meter!LookForTurn, Meter!TurnTaken
  <2>3. CASE Meter!Rows(dto[u].turn) = {}
    <3>1. usagePc' = [usagePc EXCEPT ![u] = "insert"] /\ UNCHANGED inserted
      BY <1>2, <2>3 DEF Meter!LookForTurn
    <3>2. /\ usagePc' \in [UsageUpload -> {"idle", "look", "insert", "answered", "failed"}]
          /\ usagePc'[u] = "insert" /\ \A w \in UsageUpload \ {u} : usagePc'[w] = usagePc[w]
      BY <1>0, <3>1 DEF UsageTypeOK
    <3> QED
      BY <1>0, <2>1, <3>1, <3>2, UsageSilentPreserves DEF UsageTypeOK
  <2> QED
    BY <2>2, <2>3
<1>3. ASSUME NEW u \in UsageUpload, Meter!Refuse(u)
      PROVE  UsageIInv'
  <2>1. usagePc[u] = "insert" /\ UNCHANGED <<sessions, usage, dto>>
    BY <1>3 DEF Meter!Refuse
  <2>2. CASE Meter!TurnTaken(dto[u])
    BY <1>3, <2>1, <2>2, UsageTakenPreserves DEF Meter!Refuse, Meter!isUniqueViolation
  <2>3. CASE ~Meter!TurnTaken(dto[u])
    <3>1. usagePc' = [usagePc EXCEPT ![u] = "failed"] /\ UNCHANGED inserted
      BY <1>3, <2>3 DEF Meter!Refuse, Meter!isUniqueViolation
    <3>2. /\ usagePc' \in [UsageUpload -> {"idle", "look", "insert", "answered", "failed"}]
          /\ usagePc'[u] = "failed" /\ \A w \in UsageUpload \ {u} : usagePc'[w] = usagePc[w]
      BY <1>0, <3>1 DEF UsageTypeOK
    <3> QED
      BY <1>0, <2>1, <3>1, <3>2, UsageSilentPreserves DEF UsageTypeOK
  <2> QED
    BY <2>2, <2>3
<1>4. CASE UNCHANGED usageVars
  <2>1. UNCHANGED <<sessions, usage, usagePc, dto, inserted>>
    BY <1>4 DEF usageVars
  <2> QED
    BY <2>1 DEF UsageIInv, UsageTypeOK, UsageOneRow, UsageTruthful, Meter!Rows
<1> QED
  BY <1>1, <1>2, <1>3, <1>4, UsageInsertPreserves, UsageRemoveSessionPreserves DEF Meter!Next

LEMMA UsageSingleton == \A x : Meter!Cardinality({x}) = 1
  BY FS_Singleton DEF Meter!Cardinality, Cardinality

\* When an upload is answered its turn has one row, and one upload was told that
\* it made it, however often and however many at once the turn was uploaded.
LEMMA UsageOnce == UsageIInv => Meter!TurnCountedOnce
<1>1. ASSUME UsageIInv, NEW u \in UsageUpload, usagePc[u] = "answered"
      PROVE  /\ Meter!Cardinality(Meter!Rows(dto[u].turn)) = 1
             /\ Meter!Cardinality({w \in UsageUpload : inserted[w] /\ dto[w].turn = dto[u].turn}) = 1
  <2>1. PICK r : r \in Meter!Rows(dto[u].turn)
    BY <1>1 DEF UsageIInv, UsageTruthful
  <2>2. r \in usage /\ r.turn = dto[u].turn /\ r.by \in UsageUpload
    BY <1>1, <2>1 DEF Meter!Rows, UsageIInv, UsageTypeOK, UsageEntry
  <2>3. Meter!Rows(dto[u].turn) = {r}
    BY <1>1, <2>2 DEF Meter!Rows, UsageIInv, UsageOneRow
  <2>4. inserted[r.by] /\ dto[r.by].turn = dto[u].turn
    BY <1>1, <2>2 DEF UsageIInv, UsageTruthful
  <2>5. ASSUME NEW w \in UsageUpload, inserted[w], dto[w].turn = dto[u].turn
        PROVE  w = r.by
    BY <1>1, <2>2, <2>5 DEF UsageIInv, UsageTruthful, UsageOneRow
  <2>6. {w \in UsageUpload : inserted[w] /\ dto[w].turn = dto[u].turn} = {r.by}
    BY <2>2, <2>4, <2>5
  <2> QED
    BY <2>3, <2>6, UsageSingleton
<1> QED
  BY <1>1 DEF Meter!TurnCountedOnce

UsageInFocus == focus = "usage" => UsageIInv

\* The invariant holds while uploads come.
LEMMA UsageMoves == MachinesSpec => []UsageInFocus
<1>1. MachinesInit => UsageInFocus
  BY UsageInitIInv DEF MachinesInit, UsageInFocus
<1>2. UsageInFocus /\ [MachinesNext]_machineVars => UsageInFocus'
  BY UsageNextIInv, OneMoves DEF UsageInFocus
<1> QED
  BY <1>1, <1>2, PTL DEF MachinesSpec

\* When an upload is answered its turn has one row, and one upload was told that
\* it made it, however often and however many at once the turn was uploaded.
THEOREM UsageCountedOnceCorrect == MachinesSpec => []UsageCountedOnce
<1>1. UsageInFocus => UsageCountedOnce
  BY UsageOnce DEF UsageInFocus, UsageCountedOnce
<1> QED
  BY <1>1, UsageMoves, PTL

-----------------------------------------------------------------------------
(***************************************************************************)
(* Conversations.  No answered message is lost, however calls overlap and  *)
(* wherever the process stops; and what one call at a time finds again.    *)
(***************************************************************************)

\* What of the calls' shape the rest needs.
ChatShaped ==
  /\ DOMAIN chatCall = Writer
  /\ \A c \in Writer :
       /\ "pc" \in DOMAIN chatCall[c]
       /\ chatCall[c].pc # "idle" =>
            /\ "number" \in DOMAIN chatCall[c] /\ "body" \in DOMAIN chatCall[c]
            /\ chatCall[c].body.op \in {"addMessage", "update", "remove"}
       /\ chatCall[c].pc \notin {"idle", "find"} => "title" \in DOMAIN chatCall[c]

\* The conversation is there until it is removed, with the messages of all the
\* calls that were answered or that have inserted theirs.
ChatStored ==
  ~gone =>
    /\ chatThere /\ kept \subseteq messages
    /\ \A c \in Writer : chatCall[c].pc \in {"title", "save title"} => chatCall[c].number \in messages

\* What an update has loaded is still so, and the references are the last ones
\* sent but between their two statements.
ChatAlone ==
  /\ \A c, d \in Chat!UnderWay : c = d
  /\ gone => ~chatThere
  /\ chatThere /\ given # Chat!NewTitle => title = given
  /\ chatThere /\ (\A c \in Writer : chatCall[c].pc # "insert refs") => { r[2] : r \in refs } = chatAsked
  /\ \A c \in Writer :
       /\ chatCall[c].pc = "save title" => chatThere /\ title = Chat!NewTitle
       /\ chatCall[c].pc \in {"delete refs", "insert refs", "save"} =>
            chatThere /\ chatCall[c].title = title /\ chatCall[c].body.op = "update"
       /\ chatCall[c].pc = "insert refs" => refs = {} /\ chatCall[c].body.refs[1] = chatAsked

ChatIInv == ChatShaped /\ ChatStored /\ (~chatCrossed => ChatAlone)

-----------------------------------------------------------------------------
(* The calls                                                               *)

LEMMA ChatTakeIs ==
  ASSUME ChatShaped, NEW c \in Writer, NEW r, Chat!Take(c, r)
  PROVE  DOMAIN chatCall' = Writer /\ chatCall'[c] = r /\ \A d \in Writer \ {c} : chatCall'[d] = chatCall[d]
BY DEF ChatShaped, Chat!Take

LEMMA ChatDoneIs ==
  ASSUME ChatShaped, NEW c \in Writer, Chat!Done(c)
  PROVE  /\ DOMAIN chatCall' = Writer /\ chatCall'[c].pc = "idle" /\ "pc" \in DOMAIN chatCall'[c]
         /\ \A d \in Writer \ {c} : chatCall'[d] = chatCall[d]
<1>1. Chat!Take(c, Chat!Nothing)
  BY DEF Chat!Done
<1>2. chatCall'[c] = Chat!Nothing /\ DOMAIN chatCall' = Writer /\ \A d \in Writer \ {c} : chatCall'[d] = chatCall[d]
  BY <1>1, ChatTakeIs
<1> QED
  BY <1>2 DEF Chat!Nothing

LEMMA ChatGotoIs ==
  ASSUME ChatShaped, NEW c \in Writer, chatCall[c].pc \notin {"idle", "find"}, NEW to, Chat!Goto(c, to)
  PROVE  /\ DOMAIN chatCall' = Writer /\ chatCall'[c].pc = to /\ DOMAIN chatCall'[c] = DOMAIN chatCall[c]
         /\ chatCall'[c].number = chatCall[c].number /\ chatCall'[c].body = chatCall[c].body
         /\ chatCall'[c].title = chatCall[c].title
         /\ \A d \in Writer \ {c} : chatCall'[d] = chatCall[d]
<1> DEFINE k == chatCall[c]
<1>1. {"pc", "number", "body", "title"} \subseteq DOMAIN k
  BY DEF ChatShaped
<1>2. chatCall' = [chatCall EXCEPT ![c] = [k EXCEPT !.pc = to]]
  BY DEF Chat!Goto
<1>3. /\ DOMAIN chatCall' = Writer /\ chatCall'[c] = [k EXCEPT !.pc = to]
      /\ \A d \in Writer \ {c} : chatCall'[d] = chatCall[d]
  BY <1>2 DEF ChatShaped
<1> HIDE DEF k
<1>4. /\ [k EXCEPT !.pc = to].pc = to /\ DOMAIN [k EXCEPT !.pc = to] = DOMAIN k
      /\ [k EXCEPT !.pc = to].number = k.number /\ [k EXCEPT !.pc = to].body = k.body
      /\ [k EXCEPT !.pc = to].title = k.title
  BY <1>1
<1> QED
  BY <1>3, <1>4 DEF k

\* The shape of the others does not change.
LEMMA ChatShapedStep ==
  ASSUME ChatShaped, NEW c \in Writer, DOMAIN chatCall' = Writer,
         \A d \in Writer \ {c} : chatCall'[d] = chatCall[d],
         "pc" \in DOMAIN chatCall'[c],
         chatCall'[c].pc # "idle" =>
           /\ "number" \in DOMAIN chatCall'[c] /\ "body" \in DOMAIN chatCall'[c]
           /\ chatCall'[c].body.op \in {"addMessage", "update", "remove"}
           /\ chatCall'[c].pc # "find" => "title" \in DOMAIN chatCall'[c]
  PROVE  ChatShaped'
BY DEF ChatShaped

\* While no calls have crossed, the others are idle.
LEMMA ChatOthersIdle ==
  ASSUME ChatAlone, NEW c \in Writer, chatCall[c].pc # "idle",
         \A d \in Writer \ {c} : chatCall'[d] = chatCall[d]
  PROVE  /\ \A d \in Writer \ {c} : chatCall[d].pc = "idle" /\ chatCall'[d].pc = "idle"
         /\ \A d, e \in Chat!UnderWay' : d = e
<1>1. \A d \in Writer \ {c} : chatCall[d].pc = "idle"
  BY DEF ChatAlone, Chat!UnderWay
<1> QED
  BY <1>1 DEF Chat!UnderWay

-----------------------------------------------------------------------------
(* The steps                                                               *)

LEMMA ChatStartPreserves ==
  ASSUME ChatIInv, NEW c \in Writer, Chat!Start(c)
  PROVE  ChatIInv'
<1>0. ChatShaped /\ ChatStored
  BY DEF ChatIInv
<1>1. PICK b \in Chat!Body : Chat!Take(c, [pc |-> "find", body |-> b, number |-> chatCalls'])
  BY DEF Chat!Start
<1>2. /\ chatCall[c].pc = "idle" /\ chatCrossed' = (chatCrossed \/ Chat!UnderWay # {})
      /\ UNCHANGED <<chatThere, title, messages, refs, kept, given, chatAsked, gone>>
  BY DEF Chat!Start
<1>3. /\ DOMAIN chatCall' = Writer /\ chatCall'[c] = [pc |-> "find", body |-> b, number |-> chatCalls']
      /\ \A d \in Writer \ {c} : chatCall'[d] = chatCall[d]
  BY <1>0, <1>1, ChatTakeIs
<1>4. b.op \in {"addMessage", "update", "remove"}
  BY DEF Chat!Body
<1>5. chatCall'[c].pc = "find" /\ chatCall'[c].body = b
      /\ {"pc", "number", "body"} \subseteq DOMAIN chatCall'[c]
  BY <1>3
<1>6. ChatShaped'
  BY <1>0, <1>3, <1>4, <1>5, ChatShapedStep
<1>7. ChatStored'
  BY <1>0, <1>2, <1>3, <1>5 DEF ChatStored
<1>8. ASSUME ~chatCrossed'
      PROVE  ChatAlone'
  <2>1. ChatAlone /\ Chat!UnderWay = {}
    BY <1>2, <1>8 DEF ChatIInv
  <2>2. \A d \in Writer \ {c} : chatCall'[d].pc = "idle" /\ chatCall[d].pc = "idle"
    BY <1>3, <2>1 DEF Chat!UnderWay
  <2> QED
    BY <1>2, <1>5, <2>1, <2>2 DEF ChatAlone, Chat!UnderWay
<1> QED
  BY <1>6, <1>7, <1>8 DEF ChatIInv

LEMMA ChatFindPreserves ==
  ASSUME ChatIInv, NEW c \in Writer, Chat!findOwnedConversation(c)
  PROVE  ChatIInv'
<1>0. ChatShaped /\ ChatStored
  BY DEF ChatIInv
<1> DEFINE k  == chatCall[c]
           at == CASE k.body.op = "addMessage" -> "insert"
                   [] k.body.op = "update" -> IF k.body.refs = << >> THEN "save" ELSE "delete refs"
                   [] k.body.op = "remove" -> "remove"
           r  == [pc |-> at, body |-> k.body, number |-> k.number, title |-> title,
                  messages |-> messages, refs |-> refs]
<1>1. /\ k.pc = "find" /\ IF chatThere THEN Chat!Take(c, r) ELSE Chat!Done(c)
      /\ UNCHANGED <<chatThere, title, messages, refs, chatCalls, kept, given, chatAsked, gone, chatCrossed>>
  BY DEF Chat!findOwnedConversation
<1>2. /\ at \in {"insert", "save", "delete refs", "remove"}
      /\ at \in {"save", "delete refs"} => k.body.op = "update"
  BY <1>0, <1>1 DEF ChatShaped
<1>3. k.body.op \in {"addMessage", "update", "remove"}
  BY <1>0, <1>1 DEF ChatShaped
<1> HIDE DEF at
<1>4. CASE chatThere
  <2>1. DOMAIN chatCall' = Writer /\ chatCall'[c] = r /\ \A d \in Writer \ {c} : chatCall'[d] = chatCall[d]
    BY <1>0, <1>1, <1>4, ChatTakeIs
  <2>2. /\ r.pc = at /\ r.body = k.body /\ r.title = title
        /\ {"pc", "number", "body", "title"} \subseteq DOMAIN r
    OBVIOUS
  <2> HIDE DEF r
  <2>3. ChatShaped'
    BY <1>0, <1>3, <2>1, <2>2, ChatShapedStep
  <2>4. ChatStored'
    BY <1>0, <1>1, <1>2, <2>1, <2>2 DEF ChatStored
  <2>5. ASSUME ~chatCrossed'
        PROVE  ChatAlone'
    <3>1. ChatAlone
      BY <1>1, <2>5 DEF ChatIInv
    <3>2. /\ \A d \in Writer \ {c} : chatCall[d].pc = "idle" /\ chatCall'[d].pc = "idle"
          /\ \A d, e \in Chat!UnderWay' : d = e
      BY <1>1, <2>1, <3>1, ChatOthersIdle
    <3>3. \A d \in Writer : chatCall[d].pc # "insert refs"
      BY <1>1, <3>2
    <3>4. { x[2] : x \in refs } = chatAsked
      BY <1>4, <3>1, <3>3 DEF ChatAlone
    <3> QED
      BY <1>1, <1>2, <1>4, <2>1, <2>2, <3>1, <3>2, <3>4 DEF ChatAlone
  <2> QED
    BY <2>3, <2>4, <2>5 DEF ChatIInv
<1>5. CASE ~chatThere
  <2>1. /\ DOMAIN chatCall' = Writer /\ chatCall'[c].pc = "idle" /\ "pc" \in DOMAIN chatCall'[c]
        /\ \A d \in Writer \ {c} : chatCall'[d] = chatCall[d]
    BY <1>0, <1>1, <1>5, ChatDoneIs
  <2>2. ChatShaped'
    BY <1>0, <2>1, ChatShapedStep
  <2>3. ChatStored'
    BY <1>0, <1>1, <2>1 DEF ChatStored
  <2>4. ASSUME ~chatCrossed'
        PROVE  ChatAlone'
    <3>1. ChatAlone
      BY <1>1, <2>4 DEF ChatIInv
    <3>2. /\ \A d \in Writer \ {c} : chatCall[d].pc = "idle" /\ chatCall'[d].pc = "idle"
          /\ \A d, e \in Chat!UnderWay' : d = e
      BY <1>1, <2>1, <3>1, ChatOthersIdle
    <3> QED
      BY <1>1, <1>5, <2>1, <3>1, <3>2 DEF ChatAlone
  <2> QED
    BY <2>2, <2>3, <2>4 DEF ChatIInv
<1> QED
  BY <1>4, <1>5

LEMMA ChatEnds ==
  ASSUME ChatShaped, NEW c \in Writer, Chat!Done(c)
  PROVE  ChatShaped' /\ chatCall'[c].pc = "idle" /\ \A d \in Writer \ {c} : chatCall'[d] = chatCall[d]
<1>1. /\ DOMAIN chatCall' = Writer /\ chatCall'[c].pc = "idle" /\ "pc" \in DOMAIN chatCall'[c]
      /\ \A d \in Writer \ {c} : chatCall'[d] = chatCall[d]
  BY ChatDoneIs
<1> QED
  BY <1>1, ChatShapedStep

\* A call that goes on keeps what it has in memory.
LEMMA ChatGoesOn ==
  ASSUME ChatShaped, NEW c \in Writer, chatCall[c].pc \notin {"idle", "find"}, NEW to, Chat!Goto(c, to)
  PROVE  /\ ChatShaped' /\ chatCall'[c].pc = to
         /\ chatCall'[c].number = chatCall[c].number /\ chatCall'[c].body = chatCall[c].body
         /\ chatCall'[c].title = chatCall[c].title
         /\ \A d \in Writer \ {c} : chatCall'[d] = chatCall[d]
<1>1. /\ DOMAIN chatCall' = Writer /\ chatCall'[c].pc = to /\ DOMAIN chatCall'[c] = DOMAIN chatCall[c]
      /\ chatCall'[c].number = chatCall[c].number /\ chatCall'[c].body = chatCall[c].body
      /\ chatCall'[c].title = chatCall[c].title
      /\ \A d \in Writer \ {c} : chatCall'[d] = chatCall[d]
  BY ChatGotoIs
<1>2. /\ {"pc", "number", "body", "title"} \subseteq DOMAIN chatCall[c]
      /\ chatCall[c].body.op \in {"addMessage", "update", "remove"}
  BY DEF ChatShaped
<1>3. ChatShaped'
  BY <1>1, <1>2, ChatShapedStep
<1> QED
  BY <1>1, <1>3

LEMMA ChatInsertMessagePreserves ==
  ASSUME ChatIInv, NEW c \in Writer, Chat!InsertMessage(c)
  PROVE  ChatIInv'
<1>0. ChatShaped /\ ChatStored
  BY DEF ChatIInv
<1> DEFINE k == chatCall[c]
<1>1. /\ k.pc = "insert"
      /\ messages' = IF chatThere THEN messages \cup {k.number} ELSE messages
      /\ kept' = IF chatThere /\ ~k.body.user THEN kept \cup {k.number} ELSE kept
      /\ IF chatThere /\ k.body.user THEN Chat!Goto(c, "title") ELSE Chat!Done(c)
      /\ UNCHANGED <<chatThere, title, refs, chatCalls, given, chatAsked, gone, chatCrossed>>
  BY DEF Chat!InsertMessage
<1>2. /\ ChatShaped' /\ \A d \in Writer \ {c} : chatCall'[d] = chatCall[d]
      /\ \/ chatCall'[c].pc = "idle"
         \/ chatThere /\ chatCall'[c].pc = "title" /\ chatCall'[c].number = k.number
  <2>1. CASE chatThere /\ k.body.user
    <3>1. Chat!Goto(c, "title")
      BY <1>1, <2>1
    <3> QED
      BY <1>0, <1>1, <2>1, <3>1, ChatGoesOn
  <2>2. CASE ~(chatThere /\ k.body.user)
    <3>1. Chat!Done(c)
      BY <1>1, <2>2
    <3> QED
      BY <1>0, <1>1, <3>1, ChatEnds
  <2> QED
    BY <2>1, <2>2
<1>3. ChatStored'
  BY <1>0, <1>1, <1>2 DEF ChatStored
<1>4. ASSUME ~chatCrossed'
      PROVE  ChatAlone'
  <2>1. ChatAlone
    BY <1>1, <1>4 DEF ChatIInv
  <2>2. /\ \A d \in Writer \ {c} : chatCall[d].pc = "idle" /\ chatCall'[d].pc = "idle"
        /\ \A d, e \in Chat!UnderWay' : d = e
    BY <1>1, <1>2, <2>1, ChatOthersIdle
  <2> QED
    BY <1>1, <1>2, <2>1, <2>2 DEF ChatAlone
<1> QED
  BY <1>2, <1>3, <1>4 DEF ChatIInv

LEMMA ChatFindTitlePreserves ==
  ASSUME ChatIInv, NEW c \in Writer, Chat!FindTitle(c)
  PROVE  ChatIInv'
<1>0. ChatShaped /\ ChatStored
  BY DEF ChatIInv
<1> DEFINE k == chatCall[c]
<1>1. /\ k.pc = "title"
      /\ IF chatThere /\ Chat!IsNewTitle(title)
         THEN Chat!Goto(c, "save title") /\ UNCHANGED kept
         ELSE Chat!Done(c) /\ kept' = kept \cup {k.number}
      /\ UNCHANGED <<chatThere, title, messages, refs, chatCalls, given, chatAsked, gone, chatCrossed>>
  BY DEF Chat!FindTitle
<1>2. /\ ChatShaped' /\ \A d \in Writer \ {c} : chatCall'[d] = chatCall[d]
      /\ \/ chatCall'[c].pc = "idle" /\ kept' = kept \cup {k.number}
         \/ /\ chatThere /\ title = Chat!NewTitle /\ kept' = kept
            /\ chatCall'[c].pc = "save title" /\ chatCall'[c].number = k.number
  <2>1. CASE chatThere /\ Chat!IsNewTitle(title)
    <3>1. Chat!Goto(c, "save title") /\ kept' = kept
      BY <1>1, <2>1
    <3> QED
      BY <1>0, <1>1, <2>1, <3>1, ChatGoesOn DEF Chat!IsNewTitle
  <2>2. CASE ~(chatThere /\ Chat!IsNewTitle(title))
    <3>1. Chat!Done(c) /\ kept' = kept \cup {k.number}
      BY <1>1, <2>2
    <3> QED
      BY <1>0, <1>1, <3>1, ChatEnds
  <2> QED
    BY <2>1, <2>2
<1>3. ChatStored'
  BY <1>0, <1>1, <1>2 DEF ChatStored
<1>4. ASSUME ~chatCrossed'
      PROVE  ChatAlone'
  <2>1. ChatAlone
    BY <1>1, <1>4 DEF ChatIInv
  <2>2. /\ \A d \in Writer \ {c} : chatCall[d].pc = "idle" /\ chatCall'[d].pc = "idle"
        /\ \A d, e \in Chat!UnderWay' : d = e
    BY <1>1, <1>2, <2>1, ChatOthersIdle
  <2> QED
    BY <1>1, <1>2, <2>1, <2>2 DEF ChatAlone
<1> QED
  BY <1>2, <1>3, <1>4 DEF ChatIInv

LEMMA ChatSaveTitlePreserves ==
  ASSUME ChatIInv, NEW c \in Writer, Chat!SaveTitle(c)
  PROVE  ChatIInv'
<1>0. ChatShaped /\ ChatStored
  BY DEF ChatIInv
<1>1. /\ chatCall[c].pc = "save title" /\ chatThere' = TRUE /\ title' = Chat!FirstTitle
      /\ kept' = kept \cup {chatCall[c].number} /\ Chat!Done(c)
      /\ UNCHANGED <<messages, refs, chatCalls, given, chatAsked, gone, chatCrossed>>
  BY DEF Chat!SaveTitle
<1>2. /\ ChatShaped' /\ chatCall'[c].pc = "idle" /\ \A d \in Writer \ {c} : chatCall'[d] = chatCall[d]
  BY <1>0, <1>1, ChatEnds
<1>3. ChatStored'
  BY <1>0, <1>1, <1>2 DEF ChatStored
<1>4. ASSUME ~chatCrossed'
      PROVE  ChatAlone'
  <2>1. ChatAlone
    BY <1>1, <1>4 DEF ChatIInv
  <2>2. /\ \A d \in Writer \ {c} : chatCall[d].pc = "idle" /\ chatCall'[d].pc = "idle"
        /\ \A d, e \in Chat!UnderWay' : d = e
    BY <1>1, <1>2, <2>1, ChatOthersIdle
  <2>3. chatThere /\ title = Chat!NewTitle /\ given = Chat!NewTitle /\ ~gone
    BY <1>1, <2>1 DEF ChatAlone
  <2>4. { x[2] : x \in refs } = chatAsked
    BY <1>1, <2>1, <2>2, <2>3 DEF ChatAlone
  <2> QED
    BY <1>1, <1>2, <2>2, <2>3, <2>4 DEF ChatAlone
<1> QED
  BY <1>2, <1>3, <1>4 DEF ChatIInv

LEMMA ChatDeleteRefsPreserves ==
  ASSUME ChatIInv, NEW c \in Writer, Chat!DeleteRefs(c)
  PROVE  ChatIInv'
<1>0. ChatShaped /\ ChatStored
  BY DEF ChatIInv
<1> DEFINE to == IF chatCall[c].body.refs[1] = {} THEN "save" ELSE "insert refs"
<1>1. /\ chatCall[c].pc = "delete refs" /\ refs' = {} /\ chatAsked' = chatCall[c].body.refs[1]
      /\ Chat!Goto(c, to)
      /\ UNCHANGED <<chatThere, title, messages, chatCalls, kept, given, gone, chatCrossed>>
  BY DEF Chat!DeleteRefs
<1>2. (to = "save" /\ chatAsked' = {}) \/ to = "insert refs"
  BY <1>1
<1> HIDE DEF to
<1>3. /\ ChatShaped' /\ chatCall'[c].pc = to
      /\ chatCall'[c].body = chatCall[c].body /\ chatCall'[c].title = chatCall[c].title
      /\ \A d \in Writer \ {c} : chatCall'[d] = chatCall[d]
  BY <1>0, <1>1, ChatGoesOn
<1>4. ChatStored'
  BY <1>0, <1>1, <1>2, <1>3 DEF ChatStored
<1>5. ASSUME ~chatCrossed'
      PROVE  ChatAlone'
  <2>1. ChatAlone
    BY <1>1, <1>5 DEF ChatIInv
  <2>2. /\ \A d \in Writer \ {c} : chatCall[d].pc = "idle" /\ chatCall'[d].pc = "idle"
        /\ \A d, e \in Chat!UnderWay' : d = e
    BY <1>1, <1>3, <2>1, ChatOthersIdle
  <2>3. { x[2] : x \in refs' } = {}
    BY <1>1
  <2> QED
    BY <1>1, <1>2, <1>3, <2>1, <2>2, <2>3 DEF ChatAlone
<1> QED
  BY <1>3, <1>4, <1>5 DEF ChatIInv

LEMMA ChatInsertRefsPreserves ==
  ASSUME ChatIInv, NEW c \in Writer, Chat!InsertRefs(c)
  PROVE  ChatIInv'
<1>0. ChatShaped /\ ChatStored
  BY DEF ChatIInv
<1> DEFINE k == chatCall[c]
<1>1. /\ k.pc = "insert refs"
      /\ refs' = IF chatThere THEN refs \cup ({k.number} \X k.body.refs[1]) ELSE refs
      /\ IF chatThere THEN Chat!Goto(c, "save") ELSE Chat!Done(c)
      /\ UNCHANGED <<chatThere, title, messages, chatCalls, kept, given, chatAsked, gone, chatCrossed>>
  BY DEF Chat!InsertRefs
<1>2. /\ ChatShaped' /\ \A d \in Writer \ {c} : chatCall'[d] = chatCall[d]
      /\ \/ ~chatThere /\ chatCall'[c].pc = "idle"
         \/ /\ chatThere /\ chatCall'[c].pc = "save"
            /\ chatCall'[c].body = k.body /\ chatCall'[c].title = k.title
  <2>1. CASE chatThere
    <3>1. Chat!Goto(c, "save")
      BY <1>1, <2>1
    <3> QED
      BY <1>0, <1>1, <2>1, <3>1, ChatGoesOn
  <2>2. CASE ~chatThere
    <3>1. Chat!Done(c)
      BY <1>1, <2>2
    <3> QED
      BY <1>0, <2>2, <3>1, ChatEnds
  <2> QED
    BY <2>1, <2>2
<1>3. ChatStored'
  BY <1>0, <1>1, <1>2 DEF ChatStored
<1>4. ASSUME ~chatCrossed'
      PROVE  ChatAlone'
  <2>1. ChatAlone
    BY <1>1, <1>4 DEF ChatIInv
  <2>2. /\ \A d \in Writer \ {c} : chatCall[d].pc = "idle" /\ chatCall'[d].pc = "idle"
        /\ \A d, e \in Chat!UnderWay' : d = e
    BY <1>1, <1>2, <2>1, ChatOthersIdle
  <2>3. chatThere /\ k.title = title /\ k.body.op = "update" /\ refs = {} /\ k.body.refs[1] = chatAsked
    BY <1>1, <2>1 DEF ChatAlone
  <2>4. refs' = {k.number} \X chatAsked
    BY <1>1, <2>3
  <2>5. { x[2] : x \in refs' } = chatAsked
    <3>1. \A x \in refs' : x[2] \in chatAsked
      BY <2>4
    <3>2. ASSUME NEW t \in chatAsked
          PROVE  <<k.number, t>> \in refs' /\ <<k.number, t>>[2] = t
      BY <2>4
    <3> QED
      BY <3>1, <3>2
  <2> QED
    BY <1>1, <1>2, <2>1, <2>2, <2>3, <2>5 DEF ChatAlone
<1> QED
  BY <1>2, <1>3, <1>4 DEF ChatIInv

LEMMA ChatSaveConversationPreserves ==
  ASSUME ChatIInv, NEW c \in Writer, Chat!SaveConversation(c)
  PROVE  ChatIInv'
<1>0. ChatShaped /\ ChatStored
  BY DEF ChatIInv
<1> DEFINE k == chatCall[c]
<1>1. /\ k.pc = "save" /\ Chat!Done(c)
      /\ \/ /\ chatThere' = TRUE
            /\ \/ title' = k.title /\ given' = given
               \/ title' = given'
         \/ UNCHANGED <<chatThere, title, given>>
      /\ UNCHANGED <<messages, refs, chatCalls, kept, chatAsked, gone, chatCrossed>>
  BY DEF Chat!SaveConversation
<1>2. /\ ChatShaped' /\ chatCall'[c].pc = "idle" /\ \A d \in Writer \ {c} : chatCall'[d] = chatCall[d]
  BY <1>0, <1>1, ChatEnds
<1>3. ChatStored'
  <2>1. chatThere => chatThere'
    BY <1>1
  <2>2. UNCHANGED <<messages, kept, gone>>
    BY <1>1
  <2> QED
    BY <1>0, <1>2, <2>1, <2>2 DEF ChatStored
<1>4. ASSUME ~chatCrossed'
      PROVE  ChatAlone'
  <2>1. ChatAlone
    BY <1>1, <1>4 DEF ChatIInv
  <2>2. /\ \A d \in Writer \ {c} : chatCall[d].pc = "idle" /\ chatCall'[d].pc = "idle"
        /\ \A d, e \in Chat!UnderWay' : d = e
    BY <1>1, <1>2, <2>1, ChatOthersIdle
  <2>3. chatThere /\ k.title = title /\ ~gone /\ { x[2] : x \in refs } = chatAsked
    BY <1>1, <2>1, <2>2 DEF ChatAlone
  <2> QED
    BY <1>1, <1>2, <2>1, <2>2, <2>3 DEF ChatAlone
<1> QED
  BY <1>2, <1>3, <1>4 DEF ChatIInv

LEMMA ChatRemoveConversationPreserves ==
  ASSUME ChatIInv, NEW c \in Writer, Chat!RemoveConversation(c)
  PROVE  ChatIInv'
<1>0. ChatShaped /\ ChatStored
  BY DEF ChatIInv
<1>1. /\ chatCall[c].pc = "remove" /\ Chat!Done(c)
      /\ chatThere' = FALSE /\ gone' = TRUE /\ chatCrossed' = chatCrossed
  BY DEF Chat!RemoveConversation
<1>2. /\ ChatShaped' /\ chatCall'[c].pc = "idle" /\ \A d \in Writer \ {c} : chatCall'[d] = chatCall[d]
  BY <1>0, <1>1, ChatEnds
<1>3. ChatStored'
  BY <1>1 DEF ChatStored
<1>4. ASSUME ~chatCrossed'
      PROVE  ChatAlone'
  <2>1. ChatAlone
    BY <1>1, <1>4 DEF ChatIInv
  <2>2. /\ \A d \in Writer \ {c} : chatCall[d].pc = "idle" /\ chatCall'[d].pc = "idle"
        /\ \A d, e \in Chat!UnderWay' : d = e
    BY <1>1, <1>2, <2>1, ChatOthersIdle
  <2> QED
    BY <1>1, <1>2, <2>2 DEF ChatAlone
<1> QED
  BY <1>2, <1>3, <1>4 DEF ChatIInv

LEMMA ChatRestartPreserves ==
  ASSUME ChatIInv, Chat!Restart
  PROVE  ChatIInv'
<1>1. /\ chatCall' = [c \in Writer |-> Chat!Nothing] /\ chatCrossed' = TRUE
      /\ UNCHANGED <<chatThere, messages, kept, gone>>
  BY DEF Chat!Restart
<1>2. DOMAIN chatCall' = Writer /\ \A c \in Writer : chatCall'[c] = Chat!Nothing
  BY <1>1
<1>3. Chat!Nothing.pc = "idle" /\ "pc" \in DOMAIN Chat!Nothing
  BY DEF Chat!Nothing
<1>4. ChatShaped' /\ ChatStored'
  BY <1>1, <1>2, <1>3 DEF ChatIInv, ChatShaped, ChatStored
<1> QED
  BY <1>1, <1>4 DEF ChatIInv

-----------------------------------------------------------------------------
(* The results                                                             *)

LEMMA ChatInitIInv ==
  ASSUME Chat!Init
  PROVE  ChatIInv
<1>1. /\ DOMAIN chatCall = Writer /\ \A c \in Writer : chatCall[c] = Chat!Nothing
      /\ chatThere = TRUE /\ title = Chat!NewTitle /\ messages = {} /\ refs = {} /\ kept = {}
      /\ given = Chat!NewTitle /\ chatAsked = {} /\ gone = FALSE /\ chatCrossed = FALSE
  BY DEF Chat!Init
<1>2. Chat!Nothing.pc = "idle" /\ "pc" \in DOMAIN Chat!Nothing
  BY DEF Chat!Nothing
<1>3. ChatShaped /\ ChatStored
  BY <1>1, <1>2 DEF ChatShaped, ChatStored
<1>4. { x[2] : x \in refs } = {}
  BY <1>1
<1>5. ChatAlone
  BY <1>1, <1>2, <1>4 DEF ChatAlone, Chat!UnderWay
<1> QED
  BY <1>3, <1>5 DEF ChatIInv

LEMMA ChatNextIInv ==
  ASSUME ChatIInv, [Chat!Next]_chatVars
  PROVE  ChatIInv'
<1>1. CASE UNCHANGED chatVars
  BY <1>1 DEF chatVars, ChatIInv, ChatShaped, ChatStored, ChatAlone, Chat!UnderWay
<1>2. CASE Chat!Next
  BY <1>2, ChatStartPreserves, ChatFindPreserves, ChatInsertMessagePreserves,
     ChatFindTitlePreserves,
     ChatSaveTitlePreserves, ChatDeleteRefsPreserves, ChatInsertRefsPreserves, ChatSaveConversationPreserves,
     ChatRemoveConversationPreserves, ChatRestartPreserves
  DEF Chat!Next
<1> QED
  BY <1>1, <1>2

\* No answered message is lost.
LEMMA ChatIsKept == ChatIInv => Chat!MessagesKept
  BY DEF ChatIInv, ChatStored, Chat!MessagesKept

\* While no two calls have overlapped and none was cut off, the title and the
\* references are the last ones given, and what was removed stays removed.
LEMMA ChatIsOneAtATime == ChatIInv => Chat!OneCallAtATime
<1>1. ASSUME ChatIInv, ~chatCrossed
      PROVE  /\ chatThere /\ given # Chat!NewTitle => title = given
             /\ chatThere /\ (\A c \in Chat!UnderWay : chatCall[c].body.op # "update")
                  => { r[2] : r \in refs } = chatAsked
             /\ gone => ~chatThere
  <2>1. ChatAlone
    BY <1>1 DEF ChatIInv
  <2>2. ASSUME \A c \in Chat!UnderWay : chatCall[c].body.op # "update"
        PROVE  \A c \in Writer : chatCall[c].pc # "insert refs"
    BY <2>1, <2>2 DEF ChatAlone, Chat!UnderWay
  <2> QED
    BY <2>1, <2>2 DEF ChatAlone
<1> QED
  BY <1>1 DEF Chat!OneCallAtATime

ChatInFocus == focus = "chat" => ChatIInv

\* The invariant holds while the conversation moves.
LEMMA ChatMoves == MachinesSpec => []ChatInFocus
<1>1. MachinesInit => ChatInFocus
  BY ChatInitIInv DEF MachinesInit, ChatInFocus
<1>2. ChatInFocus /\ [MachinesNext]_machineVars => ChatInFocus'
  BY ChatNextIInv, OneMoves DEF ChatInFocus
<1> QED
  BY <1>1, <1>2, PTL DEF MachinesSpec

\* An answered message stays until its conversation is removed, however calls
\* overlap and wherever the process stops; and while no two have overlapped and
\* none was cut off, the title and the references are the last ones given.
THEOREM ConversationKeptCorrect == MachinesSpec => []ConversationKept
<1>1. ChatInFocus => ConversationKept
  BY ChatIsKept, ChatIsOneAtATime DEF ChatInFocus, ConversationKept
<1> QED
  BY <1>1, ChatMoves, PTL

-----------------------------------------------------------------------------
(* Induction on the naturals: a set of them that is not empty has a least  *)
(* member.                                                                 *)

LEMMA LeastIs ==
  ASSUME NEW S \in SUBSET Nat, S # {}
  PROVE  \E n \in S : \A m \in S : n <= m
<1>1. IsWellFoundedOn(OpToRel(<, Nat), Nat)
  BY NatLessThanWellFounded
<1> DEFINE less == OpToRel(<, Nat)
<1>2. less = { p \in Nat \X Nat : p[1] < p[2] }
  BY DEF OpToRel
<1>3. IsWellFoundedOn(less, Nat)
  BY <1>1
<1> HIDE DEF less
<1>4. PICK n \in S : \A m \in S : ~ (<<m, n>> \in less)
  <2>1. S \subseteq Nat
    OBVIOUS
  <2> QED
    BY <1>3, <2>1, WFMin
<1>5. ASSUME NEW m \in S
      PROVE  n <= m
  <2>1. ~ (m < n)
    BY <1>2, <1>4
  <2> QED
    BY <2>1
<1> QED
  BY <1>4, <1>5

LEMMA SetInduction ==
  ASSUME NEW S \in SUBSET Nat, 0 \in S, \A n \in S : n + 1 \in S
  PROVE  S = Nat
<1> SUFFICES ASSUME S # Nat
             PROVE  FALSE
  OBVIOUS
<1>1. Nat \ S # {} /\ Nat \ S \in SUBSET Nat
  OBVIOUS
<1>2. PICK n \in Nat \ S : \A m \in Nat \ S : n <= m
  BY <1>1, LeastIs
<1>3. n # 0 /\ n - 1 \in Nat
  BY <1>2
<1>4. n - 1 \in S
  BY <1>2, <1>3
<1>5. n - 1 + 1 \in S /\ n - 1 + 1 = n
  BY <1>3, <1>4
<1> QED
  BY <1>2, <1>5

-----------------------------------------------------------------------------
(* Windows                                                                 *)

\* One window after another.
LEMMA WindowsFollow ==
  ASSUME NEW m \in Int, NEW n \in Int, NEW C \in Nat \ {0}
  PROVE  /\ m * C \in Int
         /\ (m + 1) * C = m * C + C
         /\ m < n => m * C + C <= n * C
<1>1. m * C \in Int /\ (m + 1) * C = m * C + C
  OBVIOUS
<1>2. ASSUME m < n
      PROVE  m * C + C <= n * C
  <2>1. (n - m - 1) * C >= 0
    BY <1>2
  <2>2. (n - m - 1) * C = n * C - m * C - C
    OBVIOUS
  <2> QED
    BY <2>1, <2>2
<1> QED
  BY <1>1, <1>2

LEMMA QuotientIs ==
  ASSUME NEW x \in Nat, NEW C \in Nat \ {0}
  PROVE  /\ x \div C \in Nat /\ (x \div C) * C <= x /\ x < (x \div C) * C + C
         /\ x \div C <= x
<1>1. x \div C \in Nat /\ (x \div C) * C <= x /\ x < (x \div C) * C + C
  OBVIOUS
<1>2. (x \div C) * C >= x \div C
  BY <1>1
<1> QED
  BY <1>1, <1>2

\* The walk goes through the windows in order.
LEMMA WalkIs ==
  ASSUME NEW anchor \in Int, NEW ref \in Int
  PROVE  BootstrapWalk(anchor, ref) =
           { Window(anchor, n) : n \in { m \in 0 .. (ref - anchor) : m < CycleIndex(anchor, ref) } }
<1> DEFINE Walks(w) == w = [n \in Nat |-> IF n = 0 THEN getProjectAnchoredCycleBounds(anchor, anchor)
                                        ELSE getNextCycleBounds(w[n - 1].endDate)]
           plain   == [n \in Nat |-> Window(anchor, n)]
           walk    == CHOOSE w : Walks(w)
           current == getProjectAnchoredCycleBounds(anchor, ref)
<1>1. getProjectAnchoredCycleBounds(anchor, anchor) = Window(anchor, 0)
  <2>1. CycleIndex(anchor, anchor) = 0
    BY CycleDaysAssumption, QuotientIs DEF CycleIndex
  <2> QED
    BY <2>1 DEF getProjectAnchoredCycleBounds
<1>2. ASSUME NEW n \in Nat \ {0}
      PROVE  getNextCycleBounds(Window(anchor, n - 1).endDate) = Window(anchor, n)
  <2>1. n - 1 \in Int /\ n - 1 + 1 = n
    OBVIOUS
  <2>2. n * CycleDays = (n - 1) * CycleDays + CycleDays /\ (n - 1) * CycleDays \in Int
    BY <2>1, CycleDaysAssumption, WindowsFollow
  <2> QED
    BY <2>2, CycleDaysAssumption DEF getNextCycleBounds, Window
<1>3. Walks(plain)
  BY <1>1, <1>2
<1>4. Walks(walk)
  BY <1>3
<1>5. \A n \in Nat : walk[n] = Window(anchor, n)
  <2> DEFINE S == { n \in Nat : walk[n] = Window(anchor, n) }
  <2>1. /\ walk[0] = Window(anchor, 0)
        /\ \A n \in Nat \ {0} : walk[n] = getNextCycleBounds(walk[n - 1].endDate)
    BY <1>1, <1>4
  <2> HIDE DEF walk
  <2>2. 0 \in S
    BY <2>1
  <2>3. ASSUME NEW n \in S
        PROVE  n + 1 \in S
    <3>1. n + 1 \in Nat \ {0} /\ n + 1 - 1 = n /\ walk[n] = Window(anchor, n)
      OBVIOUS
    <3>2. walk[n + 1] = getNextCycleBounds(walk[n].endDate)
      BY <2>1, <3>1
    <3>3. getNextCycleBounds(Window(anchor, n).endDate) = Window(anchor, n + 1)
      BY <1>2, <3>1
    <3> QED
      BY <3>1, <3>2, <3>3
  <2>4. S = Nat
    BY <2>2, <2>3, SetInduction
  <2> QED
    BY <2>4
<1>6. BootstrapWalk(anchor, ref) =
        { walk[n] : n \in { m \in 0 .. (ref - anchor) : walk[m].endDate < current.startDate } }
  BY DEF BootstrapWalk
<1>7. CycleIndex(anchor, ref) \in Int /\ current = Window(anchor, CycleIndex(anchor, ref))
  BY CycleDaysAssumption, QuotientIs DEF CycleIndex, getProjectAnchoredCycleBounds
<1>8. ASSUME NEW m \in 0 .. (ref - anchor)
      PROVE  walk[m] = Window(anchor, m) /\ (walk[m].endDate < current.startDate <=> m < CycleIndex(anchor, ref))
  <2> DEFINE k == CycleIndex(anchor, ref)
  <2>1. walk[m] = Window(anchor, m) /\ m \in Int /\ k \in Int
    BY <1>5, <1>7
  <2> HIDE DEF walk, k, current
  <2>2. /\ m * CycleDays \in Int /\ k * CycleDays \in Int
        /\ m < k => m * CycleDays + CycleDays <= k * CycleDays
        /\ k < m => k * CycleDays + CycleDays <= m * CycleDays
    BY <2>1, CycleDaysAssumption, WindowsFollow
  <2>3. Window(anchor, m).endDate = anchor + m * CycleDays + (CycleDays - 1)
        /\ current.startDate = anchor + k * CycleDays
    BY <1>7 DEF Window, k
  <2>4. anchor + m * CycleDays + (CycleDays - 1) < anchor + k * CycleDays <=> m < k
    BY <2>1, <2>2, CycleDaysAssumption
  <2> QED
    BY <2>1, <2>3, <2>4 DEF k
<1> HIDE DEF walk, current
<1> QED
  BY <1>6, <1>8

-----------------------------------------------------------------------------
(* The window of a day and those before it                                  *)

LEMMA IndexIs ==
  ASSUME NEW anchor \in Int, NEW ref \in Int, NEW k, k = CycleIndex(anchor, ref)
  PROVE  /\ k \in Nat
         /\ k * CycleDays \in Nat
         /\ getProjectAnchoredCycleBounds(anchor, ref)
              = [startDate |-> anchor + k * CycleDays, endDate |-> anchor + k * CycleDays + (CycleDays - 1)]
         /\ ref < anchor => k = 0
         /\ ref >= anchor => /\ anchor + k * CycleDays <= ref
                               /\ ref < anchor + k * CycleDays + CycleDays
                               /\ k <= ref - anchor
<1>1. getProjectAnchoredCycleBounds(anchor, ref)
        = [startDate |-> anchor + k * CycleDays, endDate |-> anchor + k * CycleDays + (CycleDays - 1)]
  BY DEF Window, getProjectAnchoredCycleBounds
<1>2. CASE ref < anchor
  BY <1>1, <1>2, CycleDaysAssumption DEF CycleIndex
<1>3. CASE ref >= anchor
  <2>1. ref - anchor \in Nat /\ k = (ref - anchor) \div CycleDays
    BY <1>3 DEF CycleIndex
  <2>2. k \in Nat /\ k * CycleDays <= ref - anchor /\ ref - anchor < k * CycleDays + CycleDays
        /\ k <= ref - anchor
    BY <2>1, CycleDaysAssumption, QuotientIs
  <2>3. k * CycleDays \in Nat
    BY <2>2, CycleDaysAssumption
  <2>4. anchor + k * CycleDays <= ref /\ ref < anchor + k * CycleDays + CycleDays
    BY <2>2, <2>3, CycleDaysAssumption
  <2> QED
    BY <1>1, <1>3, <2>2, <2>3, <2>4
<1> QED
  BY <1>2, <1>3

LEMMA CurrentIs ==
  ASSUME created \in Int, now \in Int
  PROVE  CurrentWindowIsCurrent
<1> DEFINE k == CycleIndex(created, now)
<1>1. /\ k \in Nat /\ k * CycleDays \in Nat
      /\ Current.startDate = created + k * CycleDays
      /\ Current.endDate = created + k * CycleDays + (CycleDays - 1)
      /\ now < created => k = 0
      /\ now >= created => created + k * CycleDays <= now /\ now < created + k * CycleDays + CycleDays
  <2>1. /\ k \in Nat /\ k * CycleDays \in Nat
        /\ getProjectAnchoredCycleBounds(created, now)
             = [startDate |-> created + k * CycleDays, endDate |-> created + k * CycleDays + (CycleDays - 1)]
        /\ now < created => k = 0
        /\ now >= created => created + k * CycleDays <= now /\ now < created + k * CycleDays + CycleDays
    BY IndexIs
  <2> QED
    BY <2>1 DEF Current
<1>2. k = 0 => k * CycleDays = 0
  BY CycleDaysAssumption
<1> HIDE DEF k
<1>3. Current.startDate \in Int /\ Current.endDate \in Int
      /\ Current.endDate - Current.startDate + 1 = CycleDays /\ Current.startDate <= Current.endDate
  BY <1>1, CycleDaysAssumption
<1>4. Cardinality(Days(Current)) = CycleDays
  <2>1. Cardinality(Current.startDate .. Current.endDate) = Current.endDate - Current.startDate + 1
    BY <1>3, FS_Interval
  <2> QED
    BY <1>3, <2>1 DEF Days
<1>5. (IF now < created THEN created ELSE now) \in Days(Current)
  BY <1>1, <1>2, CycleDaysAssumption DEF Days
<1>6. \A d \in created .. MaxDay :
        isCyclePeriodEnded(Current.endDate, d) <=> d \notin Days(Current) /\ d >= Current.startDate
  BY <1>3, CalendarAssumption DEF isCyclePeriodEnded, Days
<1> QED
  BY <1>4, <1>5, <1>6 DEF CurrentWindowIsCurrent

LEMMA PastIsTiled ==
  ASSUME created \in Int, now \in Int
  PROVE  BootstrapTilesThePast
<1> DEFINE k    == CycleIndex(created, now)
           past == BootstrapWalk(created, now)
           W(n) == Window(created, n)
<1>1. /\ k \in Nat /\ k * CycleDays \in Nat
      /\ Current = [startDate |-> created + k * CycleDays, endDate |-> created + k * CycleDays + (CycleDays - 1)]
      /\ k # 0 => k <= now - created
  BY IndexIs DEF Current
<1>2. past = { W(n) : n \in { m \in 0 .. (now - created) : m < k } }
  BY WalkIs
<1> HIDE DEF k, past
<1>3. { m \in 0 .. (now - created) : m < k } = { m \in Nat : m < k }
  BY <1>1
<1>4. past = { W(n) : n \in { m \in Nat : m < k } }
  BY <1>2, <1>3
<1>5. ASSUME NEW n \in Nat
      PROVE  /\ n * CycleDays \in Nat
             /\ W(n).startDate = created + n * CycleDays
             /\ W(n).endDate = created + n * CycleDays + (CycleDays - 1)
             /\ Days(W(n)) = created + n * CycleDays .. created + n * CycleDays + (CycleDays - 1)
  BY CycleDaysAssumption DEF Window, Days
<1>6. ASSUME NEW m \in Nat, NEW n \in Nat, m < n
      PROVE  m * CycleDays + CycleDays <= n * CycleDays
  BY <1>6, CycleDaysAssumption, WindowsFollow
<1> HIDE DEF W
<1>7. UNION { Days(b) : b \in past } = created .. Current.startDate - 1
  <2>1. ASSUME NEW n \in Nat, n < k, NEW d \in Days(W(n))
        PROVE  d \in created .. Current.startDate - 1
    <3>1. n * CycleDays + CycleDays <= k * CycleDays
      BY <1>1, <1>6, <2>1
    <3>2. /\ n * CycleDays \in Nat
          /\ d \in created + n * CycleDays .. created + n * CycleDays + (CycleDays - 1)
      BY <1>5, <2>1
    <3>3. Current.startDate = created + k * CycleDays
      BY <1>1
    <3> QED
      BY <1>1, <3>1, <3>2, <3>3, CycleDaysAssumption
  <2>2. ASSUME NEW d \in created .. Current.startDate - 1
        PROVE  \E n \in Nat : n < k /\ d \in Days(W(n))
    <3> DEFINE x == d - created
               n == x \div CycleDays
    <3>1. x \in Nat /\ x < k * CycleDays
      BY <1>1
    <3> HIDE DEF x
    <3>2. n \in Nat /\ n * CycleDays <= x /\ x < n * CycleDays + CycleDays
      BY <3>1, CycleDaysAssumption, QuotientIs
    <3> HIDE DEF n
    <3>3. ~(k <= n)
      <4>1. k < n => k * CycleDays + CycleDays <= n * CycleDays
        BY <1>1, <1>6, <3>2
      <4>2. n * CycleDays \in Nat
        BY <1>5, <3>2
      <4> QED
        BY <1>1, <3>1, <3>2, <4>1, <4>2, CycleDaysAssumption
    <3>4. d \in Days(W(n))
      <4>1. d = created + x
        BY DEF x
      <4> QED
        BY <1>5, <3>1, <3>2, <4>1, CycleDaysAssumption
    <3> QED
      BY <1>1, <3>2, <3>3, <3>4
  <2> QED
    BY <1>4, <2>1, <2>2
<1>8. \A b, c \in past : b # c => Days(b) \cap Days(c) = {}
  <2>1. ASSUME NEW m \in Nat, NEW n \in Nat, m < n
        PROVE  Days(W(m)) \cap Days(W(n)) = {}
    <3>1. /\ m * CycleDays \in Nat /\ n * CycleDays \in Nat /\ m * CycleDays + CycleDays <= n * CycleDays
          /\ Days(W(m)) = created + m * CycleDays .. created + m * CycleDays + (CycleDays - 1)
          /\ Days(W(n)) = created + n * CycleDays .. created + n * CycleDays + (CycleDays - 1)
      BY <1>5, <1>6, <2>1
    <3> QED
      BY <3>1, CycleDaysAssumption
  <2>2. ASSUME NEW m \in Nat, NEW n \in Nat, W(m) # W(n)
        PROVE  Days(W(m)) \cap Days(W(n)) = {}
    <3>1. m < n \/ n < m
      BY <2>2
    <3> QED
      BY <2>1, <3>1
  <2> QED
    BY <1>4, <2>2
<1>9. past # {} => \E b \in past : getNextCycleBounds(b.endDate) = Current
  <2>1. SUFFICES ASSUME k # 0
                 PROVE  \E b \in past : getNextCycleBounds(b.endDate) = Current
    BY <1>1, <1>4
  <2>2. k - 1 \in Nat /\ k - 1 < k /\ k - 1 + 1 = k
    BY <1>1, <2>1
  <2>3. k * CycleDays = (k - 1) * CycleDays + CycleDays
    BY <2>2, CycleDaysAssumption, WindowsFollow
  <2>4. getNextCycleBounds(W(k - 1).endDate) = Current
    BY <1>1, <1>5, <2>2, <2>3, CycleDaysAssumption DEF getNextCycleBounds
  <2> QED
    BY <1>4, <2>2, <2>4
<1> QED
  BY <1>7, <1>8, <1>9 DEF BootstrapTilesThePast, past

CalendarInFocus == focus = "calendar" => created \in Int /\ now \in Int

\* Days pass, or are taken back.
LEMMA CalendarMoves == MachinesSpec => []CalendarInFocus
<1>1. MachinesInit => CalendarInFocus
  BY CycleDaysAssumption DEF MachinesInit, Created, CalendarInFocus
<1>2. CalendarInFocus /\ [MachinesNext]_machineVars => CalendarInFocus'
  <2>1. ASSUME [Pass]_calendarVars, created \in Int, now \in Int
        PROVE  created' \in Int /\ now' \in Int
    BY <2>1 DEF Pass, Tick, Back, calendarVars
  <2> QED
    BY <2>1, OneMoves DEF CalendarInFocus
<1> QED
  BY <1>1, <1>2, PTL DEF MachinesSpec


-----------------------------------------------------------------------------
(***************************************************************************)
(* The figures of a summary.  Its reads see the rows of different moments; *)
(* what makes them agree is that an activity has a moment of its own,      *)
(* which no entity in the hands of a call shares; that a task has one      *)
(* entry, unless it was brought back; and that what differs between reads  *)
(* is what was crossed.                                                    *)
(***************************************************************************)

\* The moments at which something was written.
FigureMoments == { m \in Nat : m < clock /\ \E s \in Starts : s <= m }

FigureWritten == [status : Figures!Status \cup {"gone"}, bug : BOOLEAN, created : FigureMoments, updated : FigureMoments,
            archived : BOOLEAN]

FigureTypeOK ==
  /\ clock \in Nat /\ \E s \in Starts : s <= clock
  /\ DOMAIN task = FigureTask /\ \A t \in FigureTask : task[t] = Figures!Nobody \/ task[t] \in FigureWritten
  /\ DOMAIN figuresEnt = FigureTask
  /\ log \subseteq [task : FigureTask, at : FigureMoments, status : Figures!Status]
  /\ unlogged \subseteq [task : FigureTask, status : Figures!Status]
  /\ flags \subseteq [task : FigureTask, at : FigureMoments, on : BOOLEAN]
  /\ filed \subseteq [task : FigureTask, completed : FigureMoments, archived : FigureMoments]
  /\ figuresAsked = Figures!Null \/ (figuresAsked \in Nat /\ \E s \in Starts : s <= figuresAsked)
  /\ figuresLeft \subseteq Figures!Reads /\ (figuresAsked = Figures!Null => figuresLeft = {})

\* What was read is of its time.
FigureGotOK ==
  /\ DOMAIN figuresGot = Figures!Names
  /\ figuresGot["created"] \subseteq [task : FigureTask, at : FigureMoments]
  /\ figuresGot["series"] \subseteq [task : FigureTask, at : FigureMoments]
  /\ figuresGot["archived"] \subseteq filed
  /\ figuresGot["active"] \subseteq [task : FigureTask, completed : FigureMoments, archived : {Figures!Null}]
  /\ figuresGot["moves"] \subseteq log
  /\ figuresGot["bugs"] \subseteq [task : FigureTask, at : FigureMoments, on : BOOLEAN]
  /\ figuresAsked = Figures!Null => figuresGot["active"] = {} /\ figuresGot["archived"] = {}

\* The entity in the hands of a call was the row of its task once.
FigureHeld ==
  \A t \in FigureTask : figuresEnt[t] # Figures!Nobody =>
    /\ figuresEnt[t] \in FigureWritten /\ figuresEnt[t].status \in Figures!Status
    /\ task[t] # Figures!Nobody /\ figuresEnt[t].created = task[t].created

\* An activity has a moment of its own.
FigureOwnMoment ==
  /\ \A e, f \in log : e.at = f.at => e = f
  /\ \A e \in log : /\ \A f \in filed : e.at # f.completed /\ e.at # f.archived
                    /\ \A t \in FigureTask : e.at # task[t].updated /\ e.at # figuresEnt[t].updated

\* A task that no save has restored stays archived, and has one entry.
FigureFiledOnce ==
  /\ \A f \in filed : /\ f.completed < f.archived
                      /\ f.task \in restored \/ task[f.task].archived
  /\ \A f, g \in filed : f.task = g.task => f = g \/ (f.task \in restored /\ f.archived # g.archived)

\* Reads at different moments differ by what has happened in between.
FigureReadsAgree ==
  figuresAsked # Figures!Null =>
    /\ \A r, s \in figuresGot["active"] : r.task = s.task => r = s
    /\ {"close", "restore", "insert"} \cap figuresCrossed = {} =>
         /\ \A r \in figuresGot["active"] : ~task[r.task].archived
         /\ \A r \in figuresGot["archived"] : task[r.task].archived
    /\ {"create", "remove", "insert"} \cap figuresCrossed = {} =>
         \A n \in {"created", "series"} : {n} \notin figuresLeft => figuresGot[n] = Figures!Rows["created"]

FigureIInv == FigureTypeOK /\ FigureGotOK /\ FigureHeld /\ FigureOwnMoment /\ FigureFiledOnce /\ FigureReadsAgree

-----------------------------------------------------------------------------
(* Every step preserves the invariant                                      *)

LEMMA FigureInitIInv == Figures!Init => FigureIInv
<1> SUFFICES ASSUME Figures!Init
             PROVE  FigureIInv
  OBVIOUS
<1>1. FigureTypeOK
  BY FiguresAssumption DEF Figures!Init, FigureTypeOK, Figures!Null
<1>2. FigureGotOK
  BY DEF Figures!Init, FigureGotOK, Figures!Unread, Figures!Names
<1>3. FigureHeld /\ FigureOwnMoment /\ FigureFiledOnce /\ FigureReadsAgree
  BY DEF Figures!Init, FigureHeld, FigureOwnMoment, FigureFiledOnce, FigureReadsAgree
<1> QED
  BY <1>1, <1>2, <1>3 DEF FigureIInv

\* The moments that were stay, and a write adds its own.
LEMMA FigureMomentsGrow ==
  ASSUME FigureTypeOK, clock' \in Nat, clock' >= clock
  PROVE  /\ FigureMoments \subseteq FigureMoments'
         /\ \E s \in Starts : s <= clock'
         /\ clock' = clock + 1 => clock \in FigureMoments'
<1>1. \A m \in FigureMoments : m < clock'
  BY DEF FigureTypeOK, FigureMoments
<1>2. PICK s \in Starts : s <= clock
  BY DEF FigureTypeOK
<1> QED
  BY <1>1, <1>2, FiguresAssumption DEF FigureTypeOK, FigureMoments

LEMMA FigureWriteIs ==
  ASSUME FigureIInv, NEW what, Figures!Write(what)
  PROVE  /\ clock' = clock + 1 /\ clock' \in Nat /\ clock \in Nat
         /\ FigureMoments \subseteq FigureMoments' /\ clock \in FigureMoments' /\ \A m \in FigureMoments : m < clock
         /\ \E s \in Starts : s <= clock'
         /\ UNCHANGED Figures!summary /\ figuresCrossed \subseteq figuresCrossed'
         /\ figuresAsked # Figures!Null => what \in figuresCrossed'
<1>1. clock' = clock + 1 /\ clock' \in Nat /\ clock \in Nat
  BY DEF FigureIInv, FigureTypeOK, Figures!Write
<1>2. figuresAsked # Figures!Null => Figures!Reading
  BY DEF Figures!Write, Figures!Complete, Figures!Reading
<1>3. UNCHANGED Figures!summary /\ figuresCrossed \subseteq figuresCrossed' /\ (figuresAsked # Figures!Null => what \in figuresCrossed')
  BY <1>2 DEF Figures!Write
<1> QED
  BY <1>1, <1>3, FigureMomentsGrow DEF FigureIInv, FigureMoments

\* What a write may do to the tables.
FigureWrites(what) ==
  /\ DOMAIN task' = FigureTask /\ DOMAIN figuresEnt' = FigureTask
  /\ \A t \in FigureTask : task'[t] = task[t] \/
       /\ task'[t] \in FigureWritten'
       /\ \/ task'[t].updated = clock \/ task'[t].updated = task[t].updated
          \/ task'[t].updated = figuresEnt[t].updated
  /\ \A t \in FigureTask : figuresEnt'[t] = figuresEnt[t] \/ figuresEnt'[t] = Figures!Nobody
  /\ \A t \in FigureTask : task[t] # Figures!Nobody => task'[t] # Figures!Nobody /\ task'[t].created = task[t].created
  /\ restored \subseteq restored'
  /\ \A t \in FigureTask : task[t].archived => task'[t].archived \/ t \in restored'
  /\ what \notin {"close", "restore", "insert"} =>
       \A t \in FigureTask : task'[t].archived = task[t].archived
  /\ what \notin {"create", "remove", "insert"} => Figures!There' = Figures!There
  /\ log \subseteq log' /\ log' \subseteq [task : FigureTask, at : FigureMoments', status : Figures!Status]
  /\ \A e \in log' \ log : e.at = clock /\ \A f \in log' \ log : e = f
  /\ log' # log => task' = task /\ figuresEnt' = figuresEnt /\ filed' = filed
  /\ unlogged' \subseteq [task : FigureTask, status : Figures!Status]
  /\ flags' \subseteq [task : FigureTask, at : FigureMoments', on : BOOLEAN]
  /\ filed \subseteq filed' /\ filed' \subseteq [task : FigureTask, completed : FigureMoments', archived : FigureMoments']
  /\ \A f \in filed' \ filed :
       /\ f.completed = task[f.task].updated /\ f.completed \in FigureMoments /\ f.archived = clock
       /\ ~task[f.task].archived /\ task'[f.task].archived
       /\ \A g \in filed' \ filed : f.task = g.task => f = g

LEMMA FigureNobodyIsNotThere == \A t \in Figures!There : t \in FigureTask /\ task[t] # Figures!Nobody
BY DEF Figures!There, Figures!Nobody, Figures!Status

LEMMA FigureWritesPreserve ==
  ASSUME FigureIInv, NEW what, Figures!Write(what), FigureWrites(what)
  PROVE  FigureIInv'
<1>1. /\ clock' = clock + 1 /\ clock' \in Nat /\ clock \in Nat
      /\ FigureMoments \subseteq FigureMoments' /\ clock \in FigureMoments' /\ \A m \in FigureMoments : m < clock
      /\ \E s \in Starts : s <= clock'
      /\ figuresAsked' = figuresAsked /\ figuresLeft' = figuresLeft /\ figuresGot' = figuresGot /\ figuresCrossed \subseteq figuresCrossed'
      /\ figuresAsked # Figures!Null => what \in figuresCrossed'
  BY FigureWriteIs DEF Figures!summary
<1>2. FigureTypeOK'
  <2>1. \A t \in FigureTask : task[t] \in FigureWritten => task[t] \in FigureWritten'
    BY <1>1 DEF FigureWritten
  <2>2. DOMAIN task' = FigureTask /\ \A t \in FigureTask : task'[t] = Figures!Nobody \/ task'[t] \in FigureWritten'
    BY <2>1 DEF FigureIInv, FigureTypeOK, FigureWrites
  <2>3. figuresAsked' = Figures!Null \/ (figuresAsked' \in Nat /\ \E s \in Starts : s <= figuresAsked')
    BY <1>1 DEF FigureIInv, FigureTypeOK
  <2>4. figuresLeft' \subseteq Figures!Reads /\ (figuresAsked' = Figures!Null => figuresLeft' = {})
    BY <1>1 DEF FigureIInv, FigureTypeOK
  <2> QED
    BY <1>1, <2>2, <2>3, <2>4 DEF FigureTypeOK, FigureWrites
<1>3. FigureGotOK'
  <2>1. [task : FigureTask, at : FigureMoments] \subseteq [task : FigureTask, at : FigureMoments']
    BY <1>1
  <2>2. [task : FigureTask, completed : FigureMoments, archived : {Figures!Null}]
          \subseteq [task : FigureTask, completed : FigureMoments', archived : {Figures!Null}]
    BY <1>1
  <2>3. [task : FigureTask, at : FigureMoments, on : BOOLEAN] \subseteq [task : FigureTask, at : FigureMoments', on : BOOLEAN]
    BY <1>1
  <2>4. log \subseteq log' /\ filed \subseteq filed'
    BY DEF FigureWrites
  <2> QED
    BY <1>1, <2>1, <2>2, <2>3, <2>4 DEF FigureIInv, FigureGotOK
<1>7. FigureHeld'
  <2> SUFFICES ASSUME NEW t \in FigureTask, figuresEnt'[t] # Figures!Nobody
               PROVE  /\ figuresEnt'[t] \in FigureWritten' /\ figuresEnt'[t].status \in Figures!Status
                      /\ task'[t] # Figures!Nobody /\ figuresEnt'[t].created = task'[t].created
    BY DEF FigureHeld
  <2>1. figuresEnt'[t] = figuresEnt[t] /\ (task[t] # Figures!Nobody => task'[t] # Figures!Nobody /\ task'[t].created = task[t].created)
    BY DEF FigureWrites
  <2>2. figuresEnt[t] \in FigureWritten => figuresEnt[t] \in FigureWritten'
    BY <1>1 DEF FigureWritten
  <2> QED
    BY <2>1, <2>2 DEF FigureIInv, FigureHeld
<1>4. FigureOwnMoment'
  <2>1. \A e \in log : e.at \in FigureMoments /\ e.at # clock
    BY <1>1 DEF FigureIInv, FigureTypeOK
  <2>2. \A f \in filed : f.completed \in FigureMoments /\ f.archived \in FigureMoments /\ f.completed # clock /\ f.archived # clock
    BY <1>1 DEF FigureIInv, FigureTypeOK
  <2>3. \A t \in FigureTask : task[t].updated # clock
    <3>1. ASSUME NEW t \in FigureTask
          PROVE  task[t].updated # clock
      <4>1. CASE task[t] = Figures!Nobody
        BY <1>1, <4>1 DEF Figures!Nobody, Figures!Null
      <4>2. CASE task[t] \in FigureWritten
        BY <1>1, <4>2 DEF FigureWritten
      <4> QED
        BY <4>1, <4>2 DEF FigureIInv, FigureTypeOK
    <3> QED
      BY <3>1
  <2>8. \A t \in FigureTask : figuresEnt[t].updated # clock
    <3>1. ASSUME NEW t \in FigureTask
          PROVE  figuresEnt[t].updated # clock
      <4>1. CASE figuresEnt[t] = Figures!Nobody
        BY <1>1, <4>1 DEF Figures!Nobody, Figures!Null
      <4>2. CASE figuresEnt[t] \in FigureWritten
        BY <1>1, <4>2 DEF FigureWritten
      <4> QED
        BY <4>1, <4>2 DEF FigureIInv, FigureHeld
    <3> QED
      BY <3>1
  <2>9. \A e \in log : e.at # Figures!Null
    BY <2>1 DEF FigureMoments, Figures!Null
  <2>4. \A e, f \in log' : e.at = f.at => e = f
    <3>1. ASSUME NEW e \in log', NEW f \in log', e.at = f.at
          PROVE  e = f
      <4>1. CASE e \in log /\ f \in log
        BY <3>1, <4>1 DEF FigureIInv, FigureOwnMoment
      <4>2. CASE e \notin log /\ f \notin log
        BY <3>1, <4>2 DEF FigureWrites
      <4>3. CASE e \in log /\ f \notin log
        BY <2>1, <3>1, <4>3 DEF FigureWrites
      <4>4. CASE e \notin log /\ f \in log
        BY <2>1, <3>1, <4>4 DEF FigureWrites
      <4> QED
        BY <4>1, <4>2, <4>3, <4>4
    <3> QED
      BY <3>1
  <2>5. ASSUME NEW e \in log', e \in log, NEW f \in filed'
        PROVE  e.at # f.completed /\ e.at # f.archived
    <3>1. CASE f \in filed
      BY <2>5, <3>1 DEF FigureIInv, FigureOwnMoment
    <3>2. CASE f \notin filed
      <4>1. f.completed = task[f.task].updated /\ f.archived = clock /\ f.task \in FigureTask
        BY <3>2 DEF FigureWrites
      <4> QED
        BY <2>1, <2>5, <4>1 DEF FigureIInv, FigureOwnMoment
    <3> QED
      BY <3>1, <3>2
  <2>6. ASSUME NEW e \in log', e \in log, NEW t \in FigureTask
        PROVE  e.at # task'[t].updated /\ e.at # figuresEnt'[t].updated
    <3>1. \/ task'[t].updated = clock \/ task'[t].updated = task[t].updated
          \/ task'[t].updated = figuresEnt[t].updated
      BY DEF FigureWrites
    <3>2. figuresEnt'[t].updated = figuresEnt[t].updated \/ figuresEnt'[t].updated = Figures!Null
      BY DEF FigureWrites, Figures!Nobody
    <3> QED
      BY <2>1, <2>6, <2>9, <3>1, <3>2 DEF FigureIInv, FigureOwnMoment
  <2>7. ASSUME NEW e \in log', e \notin log
        PROVE  /\ \A f \in filed' : e.at # f.completed /\ e.at # f.archived
               /\ \A t \in FigureTask : e.at # task'[t].updated /\ e.at # figuresEnt'[t].updated
    <3>1. task' = task /\ figuresEnt' = figuresEnt /\ filed' = filed /\ e.at = clock
      BY <2>7 DEF FigureWrites
    <3> QED
      BY <2>2, <2>3, <2>8, <3>1
  <2> QED
    BY <2>4, <2>5, <2>6, <2>7 DEF FigureOwnMoment
<1>5. FigureFiledOnce'
  <2>1. ASSUME NEW f \in filed'
        PROVE  f.completed < f.archived /\ (f.task \in restored' \/ task'[f.task].archived)
    <3>1. CASE f \in filed
      <4>1. f.task \in FigureTask
        BY <3>1 DEF FigureIInv, FigureTypeOK
      <4> QED
        BY <3>1, <4>1 DEF FigureIInv, FigureFiledOnce, FigureWrites
    <3>2. CASE f \notin filed
      <4>1. f \in filed' \ filed
        BY <2>1, <3>2
      <4>2. f.completed \in FigureMoments /\ f.archived = clock /\ task'[f.task].archived
        BY <4>1 DEF FigureWrites
      <4> QED
        BY <1>1, <4>2
    <3> QED
      BY <3>1, <3>2
  <2>2. \A f \in filed' : f \notin filed => f.archived = clock /\ ~task[f.task].archived
    BY DEF FigureWrites
  <2>3. \A f \in filed : f.archived # clock /\ (task[f.task].archived \/ f.task \in restored')
    <3>1. \A f \in filed : f.archived \in FigureMoments
      BY DEF FigureIInv, FigureTypeOK
    <3> QED
      BY <1>1, <3>1 DEF FigureIInv, FigureFiledOnce, FigureWrites
  <2>4. ASSUME NEW f \in filed', NEW g \in filed', f.task = g.task
        PROVE  f = g \/ (f.task \in restored' /\ f.archived # g.archived)
    <3>1. CASE f \in filed /\ g \in filed
      BY <2>4, <3>1 DEF FigureIInv, FigureFiledOnce, FigureWrites
    <3>2. CASE f \notin filed /\ g \notin filed
      BY <2>4, <3>2 DEF FigureWrites
    <3>3. CASE f \in filed /\ g \notin filed
      BY <2>2, <2>3, <2>4, <3>3
    <3>4. CASE f \notin filed /\ g \in filed
      BY <2>2, <2>3, <2>4, <3>4
    <3> QED
      BY <3>1, <3>2, <3>3, <3>4
  <2> QED
    BY <2>1, <2>4 DEF FigureFiledOnce
<1>6. FigureReadsAgree'
  <2> SUFFICES ASSUME figuresAsked' # Figures!Null
               PROVE  /\ \A r, s \in figuresGot'["active"] : r.task = s.task => r = s
                      /\ {"close", "restore", "insert"} \cap figuresCrossed' = {} =>
                           /\ \A r \in figuresGot'["active"] : ~task'[r.task].archived
                           /\ \A r \in figuresGot'["archived"] : task'[r.task].archived
                      /\ {"create", "remove", "insert"} \cap figuresCrossed' = {} =>
                           \A n \in {"created", "series"} : {n} \notin figuresLeft' => figuresGot'[n] = Figures!Rows'["created"]
    BY DEF FigureReadsAgree
  <2>1. figuresAsked # Figures!Null /\ what \in figuresCrossed'
    BY <1>1
  <2>2. \A r, s \in figuresGot'["active"] : r.task = s.task => r = s
    BY <1>1, <2>1 DEF FigureIInv, FigureReadsAgree
  <2>3. ASSUME {"close", "restore", "insert"} \cap figuresCrossed' = {}
        PROVE  /\ \A r \in figuresGot'["active"] : ~task'[r.task].archived
               /\ \A r \in figuresGot'["archived"] : task'[r.task].archived
    <3>1. what \notin {"close", "restore", "insert"} /\ {"close", "restore", "insert"} \cap figuresCrossed = {}
      BY <1>1, <2>1, <2>3
    <3>2. \A t \in FigureTask : task'[t].archived = task[t].archived
      BY <3>1 DEF FigureWrites
    <3>3. (\A r \in figuresGot["active"] : r.task \in FigureTask) /\ (\A r \in figuresGot["archived"] : r.task \in FigureTask)
      BY DEF FigureIInv, FigureGotOK, FigureTypeOK
    <3> QED
      BY <1>1, <2>1, <3>1, <3>2, <3>3 DEF FigureIInv, FigureReadsAgree
  <2>4. ASSUME {"create", "remove", "insert"} \cap figuresCrossed' = {}, NEW n \in {"created", "series"}, {n} \notin figuresLeft'
        PROVE  figuresGot'[n] = Figures!Rows'["created"]
    <3>1. what \notin {"create", "remove", "insert"} /\ {"create", "remove", "insert"} \cap figuresCrossed = {} /\ {n} \notin figuresLeft
      BY <1>1, <2>1, <2>4
    <3>2. Figures!There' = Figures!There /\ \A t \in Figures!There : task'[t].created = task[t].created
      BY <3>1, FigureNobodyIsNotThere DEF FigureWrites
    <3>3. Figures!Rows["created"] = { [task |-> t, at |-> task[t].created] : t \in Figures!There }
      BY DEF Figures!Rows
    <3>4. Figures!Rows'["created"] = { [task |-> t, at |-> task'[t].created] : t \in Figures!There' }
      BY DEF Figures!Rows
    <3>5. Figures!Rows'["created"] = Figures!Rows["created"]
      BY <3>2, <3>3, <3>4
    <3> QED
      BY <1>1, <2>1, <3>1, <3>5 DEF FigureIInv, FigureReadsAgree
  <2> QED
    BY <2>2, <2>3, <2>4
<1> QED
  BY <1>2, <1>3, <1>4, <1>5, <1>6, <1>7 DEF FigureIInv

-----------------------------------------------------------------------------
(* The writes                                                              *)

\* The parts of Writes that a write of one task has to show.
LEMMA FigureTaskIsWritten ==
  ASSUME FigureIInv, NEW what, Figures!Write(what), NEW t \in FigureTask, NEW x, task' = [task EXCEPT ![t] = x],
         x \in FigureWritten', x.updated = clock \/ x.updated = task[t].updated \/ x.updated = figuresEnt[t].updated,
         DOMAIN figuresEnt' = FigureTask, \A u \in FigureTask : figuresEnt'[u] = figuresEnt[u] \/ figuresEnt'[u] = Figures!Nobody,
         restored \subseteq restored',
         x.archived = task[t].archived \/ (what \in {"restore", "insert"} /\ t \in restored'),
         task[t] # Figures!Nobody => x.created = task[t].created,
         what \notin {"create", "remove", "insert"} => t \in Figures!There /\ x.status \in Figures!Status,
         log' = log, filed' = filed, unlogged' \subseteq [task : FigureTask, status : Figures!Status],
         flags' \subseteq [task : FigureTask, at : FigureMoments', on : BOOLEAN]
  PROVE  FigureIInv'
<1>1. FigureMoments \subseteq FigureMoments'
  BY FigureWriteIs
<1>2. DOMAIN task = FigureTask
  BY DEF FigureIInv, FigureTypeOK
<1>3. DOMAIN task' = FigureTask /\ task'[t] = x /\ \A u \in FigureTask \ {t} : task'[u] = task[u]
  BY <1>2
<1>4. what \notin {"create", "remove", "insert"} => Figures!There' = Figures!There
  BY <1>3 DEF Figures!There
<1>5. log \subseteq [task : FigureTask, at : FigureMoments', status : Figures!Status]
      /\ filed \subseteq [task : FigureTask, completed : FigureMoments', archived : FigureMoments']
  BY <1>1 DEF FigureIInv, FigureTypeOK
<1>6. x # Figures!Nobody
  BY DEF FigureWritten, Figures!Nobody, Figures!Status
<1>7. \A u \in FigureTask : task[u].archived => task'[u].archived \/ u \in restored'
  BY <1>3
<1>8. what \notin {"close", "restore", "insert"} => \A u \in FigureTask : task'[u].archived = task[u].archived
  BY <1>3
<1>9. \A u \in FigureTask : task[u] # Figures!Nobody => task'[u] # Figures!Nobody /\ task'[u].created = task[u].created
  BY <1>3, <1>6
<1>10. \A u \in FigureTask : task'[u] = task[u] \/
         /\ task'[u] \in FigureWritten'
         /\ \/ task'[u].updated = clock \/ task'[u].updated = task[u].updated
            \/ task'[u].updated = figuresEnt[u].updated
  BY <1>3
<1>11. FigureWrites(what)
  BY <1>3, <1>4, <1>5, <1>7, <1>8, <1>9, <1>10 DEF FigureWrites
<1> QED
  BY <1>11, FigureWritesPreserve

LEMMA FigureFlagsStay ==
  ASSUME FigureIInv, NEW what, Figures!Write(what)
  PROVE  flags \subseteq [task : FigureTask, at : FigureMoments', on : BOOLEAN]
<1>1. FigureMoments \subseteq FigureMoments'
  BY FigureWriteIs
<1> QED
  BY <1>1 DEF FigureIInv, FigureTypeOK

\* What a task that is there looks like after the write.
LEMMA FigureThereIs ==
  ASSUME FigureIInv, NEW what, Figures!Write(what), NEW t \in FigureTask, task[t] # Figures!Nobody
  PROVE  /\ task[t] \in [status : Figures!Status \cup {"gone"}, bug : BOOLEAN, created : FigureMoments',
                         updated : FigureMoments', archived : BOOLEAN]
         /\ clock \in FigureMoments'
<1>1. FigureMoments \subseteq FigureMoments' /\ clock \in FigureMoments'
  BY FigureWriteIs
<1>2. task[t] \in FigureWritten
  BY DEF FigureIInv, FigureTypeOK
<1> QED
  BY <1>1, <1>2 DEF FigureWritten

LEMMA FigureCreatePreserves ==
  ASSUME FigureIInv, NEW t \in FigureTask, NEW s \in Figures!Status, Figures!Create(t, s)
  PROVE  FigureIInv'
<1> DEFINE x == [status |-> s, bug |-> FALSE, created |-> clock, updated |-> clock, archived |-> FALSE]
<1>1. Figures!Write("create") /\ task[t] = Figures!Nobody /\ task' = [task EXCEPT ![t] = x]
      /\ UNCHANGED <<log, unlogged, flags, filed, figuresEnt, restored>>
  BY DEF Figures!Create
<1>2. clock \in FigureMoments'
  BY <1>1, FigureWriteIs
<1>3. x \in FigureWritten' /\ x.updated = clock /\ x.archived = task[t].archived
  BY <1>1, <1>2 DEF FigureWritten, Figures!Nobody
<1>4. flags' \subseteq [task : FigureTask, at : FigureMoments', on : BOOLEAN]
  BY <1>1, FigureFlagsStay
<1>5. unlogged' \subseteq [task : FigureTask, status : Figures!Status]
  BY <1>1 DEF FigureIInv, FigureTypeOK
<1>6. DOMAIN figuresEnt' = FigureTask /\ \A u \in FigureTask : figuresEnt'[u] = figuresEnt[u]
  BY <1>1 DEF FigureIInv, FigureTypeOK
<1> DEFINE what == "create"
<1>7. Figures!Write(what) /\ what \in {"create", "remove", "insert"}
  BY <1>1
<1> HIDE DEF x, what
<1> QED
  BY <1>1, <1>3, <1>4, <1>5, <1>6, <1>7, FigureTaskIsWritten

\* What a call has in its hands to save.
LEMMA FigureEntityIs ==
  ASSUME FigureIInv, NEW t \in FigureTask, NEW e, NEW s, NEW on, Figures!Save(t, e, s, on)
  PROVE  /\ task[t] # Figures!Nobody /\ e \in FigureWritten /\ e.status \in Figures!Status /\ e.bug \in BOOLEAN
         /\ e.created = task[t].created
         /\ e.updated = task[t].updated \/ e.updated = figuresEnt[t].updated
         /\ DOMAIN figuresEnt' = FigureTask /\ \A u \in FigureTask : figuresEnt'[u] = figuresEnt[u] \/ figuresEnt'[u] = Figures!Nobody
<1>1. CASE t \in Figures!There /\ e = task[t] /\ UNCHANGED figuresEnt
  <2>1. task[t] # Figures!Nobody /\ task[t].status \in Figures!Status
    BY <1>1, FigureNobodyIsNotThere DEF Figures!There
  <2>2. task[t] \in FigureWritten
    BY <2>1 DEF FigureIInv, FigureTypeOK
  <2> QED
    BY <1>1, <2>1, <2>2 DEF FigureIInv, FigureTypeOK, FigureWritten
<1>2. CASE e # Figures!Nobody /\ e = figuresEnt[t] /\ figuresEnt' = [figuresEnt EXCEPT ![t] = Figures!Nobody]
  <2>1. e \in FigureWritten /\ e.status \in Figures!Status /\ task[t] # Figures!Nobody /\ e.created = task[t].created
    BY <1>2 DEF FigureIInv, FigureHeld
  <2>2. e.bug \in BOOLEAN
    BY <2>1 DEF FigureWritten
  <2>3. DOMAIN figuresEnt = FigureTask
    BY DEF FigureIInv, FigureTypeOK
  <2> QED
    BY <1>2, <2>1, <2>2, <2>3
<1> QED
  BY <1>1, <1>2 DEF Figures!Save

LEMMA FigureSaveWrites ==
  ASSUME NEW t, NEW e, NEW s, NEW on, Figures!Save(t, e, s, on)
  PROVE  \E what \in {"update", "restore", "insert"} :
           /\ Figures!Write(what) /\ restored \subseteq restored'
           /\ what = "insert" \/ t \in Figures!There
           /\ \/ what = "update" /\ e.archived = task[t].archived
              \/ what \in {"restore", "insert"} /\ t \in restored'
BY DEF Figures!Save

LEMMA FigureSavePreserves ==
  ASSUME FigureIInv, NEW t \in FigureTask, NEW e, NEW s \in Figures!Status, NEW on \in BOOLEAN, Figures!Save(t, e, s, on),
         log' = log, filed' = filed, unlogged' \subseteq [task : FigureTask, status : Figures!Status],
         flags' \subseteq flags \cup { [task |-> t, at |-> clock, on |-> on] }
  PROVE  FigureIInv'
<1> DEFINE x == [e EXCEPT !.status = s, !.bug = on, !.updated = IF t \in Figures!There THEN clock ELSE @]
<1>1. PICK what \in {"update", "restore", "insert"} :
           /\ Figures!Write(what) /\ restored \subseteq restored'
           /\ what = "insert" \/ t \in Figures!There
           /\ \/ what = "update" /\ e.archived = task[t].archived
              \/ what \in {"restore", "insert"} /\ t \in restored'
  BY FigureSaveWrites
<1>2. FigureMoments \subseteq FigureMoments' /\ clock \in FigureMoments'
  BY <1>1, FigureWriteIs
<1>3. /\ task[t] # Figures!Nobody /\ e \in FigureWritten /\ e.created = task[t].created
      /\ e.updated = task[t].updated \/ e.updated = figuresEnt[t].updated
      /\ DOMAIN figuresEnt' = FigureTask /\ \A u \in FigureTask : figuresEnt'[u] = figuresEnt[u] \/ figuresEnt'[u] = Figures!Nobody
  BY FigureEntityIs
<1>4. /\ e \in [status : Figures!Status \cup {"gone"}, bug : BOOLEAN, created : FigureMoments',
                updated : FigureMoments', archived : BOOLEAN]
  BY <1>2, <1>3 DEF FigureWritten
<1>5. /\ x \in FigureWritten' /\ x.status = s /\ x.archived = e.archived /\ x.created = e.created
      /\ x.updated = clock \/ x.updated = e.updated
  BY <1>2, <1>4 DEF FigureWritten
<1>6. task' = [task EXCEPT ![t] = x]
  BY DEF Figures!Save
<1>7. flags' \subseteq [task : FigureTask, at : FigureMoments', on : BOOLEAN]
  BY <1>1, <1>2, FigureFlagsStay
<1> HIDE DEF x
<1>8. x.archived = task[t].archived \/ (what \in {"restore", "insert"} /\ t \in restored')
  BY <1>1, <1>5
<1>9. x.updated = clock \/ x.updated = task[t].updated \/ x.updated = figuresEnt[t].updated
  BY <1>3, <1>5
<1>10. x.created = task[t].created /\ x.status \in Figures!Status
  BY <1>3, <1>5
<1>11. what \notin {"create", "remove", "insert"} => t \in Figures!There
  BY <1>1
<1> QED
  BY <1>1, <1>3, <1>5, <1>6, <1>7, <1>8, <1>9, <1>10, <1>11, FigureTaskIsWritten

LEMMA FigureMovePreserves ==
  ASSUME FigureIInv, NEW t \in FigureTask, NEW e, NEW s \in Figures!Status, Figures!Move(t, e, s)
  PROVE  FigureIInv'
<1>1. Figures!Save(t, e, s, e.bug) /\ UNCHANGED <<log, flags, filed>>
      /\ unlogged' = unlogged \cup { [task |-> t, status |-> s] }
  BY DEF Figures!Move
<1>2. e.bug \in BOOLEAN
  BY <1>1, FigureEntityIs
<1>3. unlogged' \subseteq [task : FigureTask, status : Figures!Status]
  BY <1>1 DEF FigureIInv, FigureTypeOK
<1>4. flags' \subseteq flags \cup { [task |-> t, at |-> clock, on |-> e.bug] }
  BY <1>1
<1> QED
  BY <1>1, <1>2, <1>3, <1>4, FigureSavePreserves

LEMMA FigureEditPreserves ==
  ASSUME FigureIInv, NEW t \in FigureTask, NEW e, Figures!Edit(t, e)
  PROVE  FigureIInv'
<1>1. Figures!Save(t, e, e.status, e.bug) /\ UNCHANGED <<log, unlogged, flags, filed>>
  BY DEF Figures!Edit
<1>2. e.bug \in BOOLEAN /\ e.status \in Figures!Status
  BY <1>1, FigureEntityIs
<1>3. unlogged' \subseteq [task : FigureTask, status : Figures!Status]
  BY <1>1 DEF FigureIInv, FigureTypeOK
<1>4. flags' \subseteq flags \cup { [task |-> t, at |-> clock, on |-> e.bug] }
  BY <1>1
<1> QED
  BY <1>1, <1>2, <1>3, <1>4, FigureSavePreserves

LEMMA FigureFollowPreserves ==
  ASSUME FigureIInv, NEW t \in FigureTask, NEW e, NEW s \in {"todo", "done"}, Figures!Follow(t, e, s)
  PROVE  FigureIInv'
<1>1. Figures!Save(t, e, s, e.bug) /\ UNCHANGED <<log, unlogged, flags, filed>>
  BY DEF Figures!Follow
<1>2. e.bug \in BOOLEAN /\ s \in Figures!Status
  BY <1>1, FigureEntityIs DEF Figures!Status
<1>3. unlogged' \subseteq [task : FigureTask, status : Figures!Status]
  BY <1>1 DEF FigureIInv, FigureTypeOK
<1>4. flags' \subseteq flags \cup { [task |-> t, at |-> clock, on |-> e.bug] }
  BY <1>1
<1> QED
  BY <1>1, <1>2, <1>3, <1>4, FigureSavePreserves

LEMMA FigureFlagPreserves ==
  ASSUME FigureIInv, NEW t \in FigureTask, NEW e, NEW on \in BOOLEAN, Figures!Flag(t, e, on)
  PROVE  FigureIInv'
<1> DEFINE s == IF on THEN "todo" ELSE e.status
<1>1. Figures!Save(t, e, s, on) /\ UNCHANGED <<log, unlogged, filed>>
      /\ flags' = flags \cup { [task |-> t, at |-> clock, on |-> on] }
  BY DEF Figures!Flag
<1>2. s \in Figures!Status
  BY <1>1, FigureEntityIs DEF Figures!Status
<1>3. unlogged' \subseteq [task : FigureTask, status : Figures!Status]
  BY <1>1 DEF FigureIInv, FigureTypeOK
<1> HIDE DEF s
<1> QED
  BY <1>1, <1>2, <1>3, FigureSavePreserves

LEMMA FigureLoadPreserves ==
  ASSUME FigureIInv, NEW t \in FigureTask, Figures!Load(t)
  PROVE  FigureIInv'
<1>1. /\ t \in Figures!There /\ figuresEnt' = [figuresEnt EXCEPT ![t] = task[t]]
      /\ UNCHANGED <<clock, task, log, unlogged, flags, filed, restored, figuresAsked, figuresLeft, figuresGot, figuresCrossed>>
  BY DEF Figures!Load, Figures!summary
<1>2. task[t] # Figures!Nobody /\ task[t].status \in Figures!Status
  BY <1>1, FigureNobodyIsNotThere DEF Figures!There
<1>3. task[t] \in FigureWritten
  BY <1>2 DEF FigureIInv, FigureTypeOK
<1>4. /\ DOMAIN figuresEnt' = FigureTask /\ figuresEnt'[t] = task[t] /\ \A u \in FigureTask \ {t} : figuresEnt'[u] = figuresEnt[u]
  BY <1>1 DEF FigureIInv, FigureTypeOK
<1>5. FigureMoments' = FigureMoments
  BY <1>1 DEF FigureMoments
<1>6. FigureWritten' = FigureWritten
  BY <1>5 DEF FigureWritten
<1>7. FigureTypeOK'
  BY <1>1, <1>4, <1>5, <1>6 DEF FigureIInv, FigureTypeOK
<1>8. FigureGotOK' /\ FigureFiledOnce'
  BY <1>1, <1>5 DEF FigureIInv, FigureGotOK, FigureFiledOnce
<1>9. FigureHeld'
  BY <1>1, <1>2, <1>3, <1>4, <1>6 DEF FigureIInv, FigureHeld
<1>10. FigureOwnMoment'
  BY <1>1, <1>4 DEF FigureIInv, FigureOwnMoment
<1>11. FigureReadsAgree'
  BY <1>1 DEF FigureIInv, FigureReadsAgree, Figures!Rows, Figures!There
<1> QED
  BY <1>7, <1>8, <1>9, <1>10, <1>11 DEF FigureIInv

LEMMA FigureRemovePreserves ==
  ASSUME FigureIInv, NEW t \in FigureTask, Figures!Remove(t)
  PROVE  FigureIInv'
<1> DEFINE x == [task[t] EXCEPT !.status = "gone"]
<1>1. t \in Figures!There /\ Figures!Write("remove") /\ UNCHANGED <<log, unlogged, filed, figuresEnt, restored>>
      /\ flags' = { f \in flags : f.task # t }
      /\ task' = [task EXCEPT ![t].status = "gone"]
  BY DEF Figures!Remove
<1>2. /\ task[t] \in [status : Figures!Status \cup {"gone"}, bug : BOOLEAN, created : FigureMoments',
                      updated : FigureMoments', archived : BOOLEAN]
  BY <1>1, FigureThereIs, FigureNobodyIsNotThere
<1>3. x \in FigureWritten' /\ x.updated = task[t].updated /\ x.archived = task[t].archived
      /\ x.created = task[t].created
  BY <1>2 DEF FigureWritten
<1>4. task' = [task EXCEPT ![t] = x]
  BY <1>1
<1>5. unlogged' \subseteq [task : FigureTask, status : Figures!Status]
  BY <1>1 DEF FigureIInv, FigureTypeOK
<1>6. flags' \subseteq [task : FigureTask, at : FigureMoments', on : BOOLEAN]
  BY <1>1, FigureFlagsStay
<1>7. DOMAIN figuresEnt' = FigureTask /\ \A u \in FigureTask : figuresEnt'[u] = figuresEnt[u]
  BY <1>1 DEF FigureIInv, FigureTypeOK
<1> DEFINE what == "remove"
<1>8. Figures!Write(what) /\ what \in {"create", "remove", "insert"}
  BY <1>1
<1> HIDE DEF x, what
<1> QED
  BY <1>1, <1>3, <1>4, <1>5, <1>6, <1>7, <1>8, FigureTaskIsWritten

LEMMA FigureRecordPreserves ==
  ASSUME FigureIInv, NEW e \in unlogged, Figures!Record(e)
  PROVE  FigureIInv'
<1>1. Figures!Write("record") /\ UNCHANGED <<task, flags, filed, figuresEnt, restored>> /\ unlogged' = unlogged \ {e}
      /\ log' = log \cup { [task |-> e.task, at |-> clock, status |-> e.status] }
  BY DEF Figures!Record
<1>2. FigureMoments \subseteq FigureMoments' /\ clock \in FigureMoments'
  BY <1>1, FigureWriteIs
<1>3. e.task \in FigureTask /\ e.status \in Figures!Status /\ unlogged' \subseteq [task : FigureTask, status : Figures!Status]
  BY <1>1 DEF FigureIInv, FigureTypeOK
<1>4. log' \subseteq [task : FigureTask, at : FigureMoments', status : Figures!Status]
  <2>1. log \subseteq [task : FigureTask, at : FigureMoments', status : Figures!Status]
    BY <1>2 DEF FigureIInv, FigureTypeOK
  <2> QED
    BY <1>1, <1>2, <1>3, <2>1
<1>5. filed \subseteq [task : FigureTask, completed : FigureMoments', archived : FigureMoments']
  BY <1>2 DEF FigureIInv, FigureTypeOK
<1>6. Figures!There' = Figures!There /\ DOMAIN task = FigureTask /\ DOMAIN figuresEnt = FigureTask
  BY <1>1 DEF Figures!There, FigureIInv, FigureTypeOK
<1>7. flags' \subseteq [task : FigureTask, at : FigureMoments', on : BOOLEAN]
  BY <1>1, FigureFlagsStay
<1>8. FigureWrites("record")
  BY <1>1, <1>3, <1>4, <1>5, <1>6, <1>7 DEF FigureWrites
<1> QED
  BY <1>1, <1>8, FigureWritesPreserve

LEMMA FigureClosePreserves ==
  ASSUME FigureIInv, Figures!Close
  PROVE  FigureIInv'
<1> DEFINE leaving == { t \in Figures!There : task[t].status = "done" /\ ~task[t].archived }
<1>1. Figures!Write("close") /\ UNCHANGED <<log, unlogged, flags, figuresEnt, restored>>
      /\ task' = [t \in FigureTask |->
           IF t \in leaving THEN [task[t] EXCEPT !.archived = TRUE, !.updated = clock] ELSE task[t]]
      /\ filed' = filed \cup { [task |-> t, completed |-> task[t].updated, archived |-> clock] : t \in leaving }
  BY DEF Figures!Close
<1>2. FigureMoments \subseteq FigureMoments' /\ clock \in FigureMoments'
  BY <1>1, FigureWriteIs
<1>3. ASSUME NEW t \in leaving
      PROVE  /\ t \in FigureTask /\ task[t].status \in Figures!Status /\ ~task[t].archived
             /\ task[t].updated \in FigureMoments /\ task[t] # Figures!Nobody
             /\ [task[t] EXCEPT !.archived = TRUE, !.updated = clock] \in FigureWritten'
             /\ [task[t] EXCEPT !.archived = TRUE, !.updated = clock].updated = clock
             /\ [task[t] EXCEPT !.archived = TRUE, !.updated = clock].archived = TRUE
             /\ [task[t] EXCEPT !.archived = TRUE, !.updated = clock].status = task[t].status
             /\ [task[t] EXCEPT !.archived = TRUE, !.updated = clock].created = task[t].created
  <2>1. t \in FigureTask /\ task[t].status \in Figures!Status /\ ~task[t].archived /\ task[t] # Figures!Nobody
    BY FigureNobodyIsNotThere DEF Figures!There
  <2>2. task[t] \in FigureWritten
    BY <2>1 DEF FigureIInv, FigureTypeOK
  <2> QED
    BY <1>2, <2>1, <2>2 DEF FigureWritten
<1> HIDE DEF leaving
<1>4. /\ DOMAIN task' = FigureTask
      /\ \A t \in leaving : task'[t] = [task[t] EXCEPT !.archived = TRUE, !.updated = clock]
      /\ \A t \in FigureTask \ leaving : task'[t] = task[t]
  BY <1>1, <1>3
<1>5. Figures!There' = Figures!There
  BY <1>3, <1>4 DEF Figures!There
<1>14. \A t \in FigureTask : task[t] # Figures!Nobody => task'[t] # Figures!Nobody /\ task'[t].created = task[t].created
  <2>1. ASSUME NEW t \in leaving
        PROVE  task'[t] # Figures!Nobody /\ task'[t].created = task[t].created
    <3>1. task'[t].status \in Figures!Status /\ task'[t].created = task[t].created
      BY <1>3, <1>4
    <3> QED
      BY <3>1 DEF Figures!Nobody, Figures!Status
  <2> QED
    BY <1>4, <2>1
<1>15. DOMAIN figuresEnt' = FigureTask /\ \A t \in FigureTask : figuresEnt'[t] = figuresEnt[t]
  BY <1>1 DEF FigureIInv, FigureTypeOK
<1>6. ASSUME NEW f \in filed', f \notin filed
      PROVE  /\ f \in [task : FigureTask, completed : FigureMoments, archived : {clock}]
             /\ f.completed = task[f.task].updated /\ f.task \in leaving
             /\ \A g \in filed' \ filed : f.task = g.task => f = g
  <2>1. PICK t \in leaving : f = [task |-> t, completed |-> task[t].updated, archived |-> clock]
    BY <1>1, <1>6
  <2>2. ASSUME NEW g \in filed' \ filed, f.task = g.task
        PROVE  f = g
    <3>1. PICK u \in leaving : g = [task |-> u, completed |-> task[u].updated, archived |-> clock]
      BY <1>1
    <3> QED
      BY <2>1, <2>2, <3>1
  <2> QED
    BY <1>3, <2>1, <2>2
<1>7. filed' \subseteq [task : FigureTask, completed : FigureMoments', archived : FigureMoments']
  <2>1. filed \subseteq [task : FigureTask, completed : FigureMoments', archived : FigureMoments']
    BY <1>2 DEF FigureIInv, FigureTypeOK
  <2> QED
    BY <1>2, <1>6, <2>1
<1>8. \A f \in filed' \ filed :
        /\ f.completed = task[f.task].updated /\ f.completed \in FigureMoments /\ f.archived = clock
        /\ ~task[f.task].archived /\ task'[f.task].archived
        /\ \A g \in filed' \ filed : f.task = g.task => f = g
  <2>1. ASSUME NEW f \in filed', f \notin filed
        PROVE  /\ f.completed = task[f.task].updated /\ f.completed \in FigureMoments /\ f.archived = clock
               /\ ~task[f.task].archived /\ task'[f.task].archived
    <3>1. f.completed = task[f.task].updated /\ f.completed \in FigureMoments /\ f.archived = clock /\ f.task \in leaving
      BY <1>6, <2>1
    <3>2. task'[f.task] = [task[f.task] EXCEPT !.archived = TRUE, !.updated = clock]
      BY <1>4, <3>1
    <3>3. [task[f.task] EXCEPT !.archived = TRUE, !.updated = clock].archived = TRUE /\ ~task[f.task].archived
      BY <1>3, <3>1
    <3> QED
      BY <3>1, <3>2, <3>3
  <2> QED
    BY <1>6, <2>1
<1>9. log' \subseteq [task : FigureTask, at : FigureMoments', status : Figures!Status]
      /\ flags' \subseteq [task : FigureTask, at : FigureMoments', on : BOOLEAN]
      /\ unlogged' \subseteq [task : FigureTask, status : Figures!Status]
  BY <1>1, <1>2, FigureFlagsStay DEF FigureIInv, FigureTypeOK
<1>10. \A t \in FigureTask : task[t].archived => task'[t].archived
  <2>1. ASSUME NEW t \in FigureTask, task[t].archived
        PROVE  task'[t] = task[t]
    BY <1>3, <1>4, <2>1
  <2> QED
    BY <2>1
<1>11. \A t \in FigureTask : task'[t] = task[t] \/
         (task'[t] \in FigureWritten' /\ (task'[t].updated = clock \/ task'[t].updated = task[t].updated))
  <2>1. ASSUME NEW t \in leaving
        PROVE  task'[t] \in FigureWritten' /\ task'[t].updated = clock
    BY <1>3, <1>4
  <2> QED
    BY <1>4, <2>1
<1>12. filed \subseteq filed' /\ log' = log /\ restored \subseteq restored'
  BY <1>1
<1>13. FigureWrites("close")
  BY <1>4, <1>5, <1>7, <1>8, <1>9, <1>10, <1>11, <1>12, <1>14, <1>15 DEF FigureWrites
<1> QED
  BY <1>1, <1>13, FigureWritesPreserve

-----------------------------------------------------------------------------
(* Pauses, reads and answers                                               *)

LEMMA FigurePausePreserves ==
  ASSUME FigureIInv, Figures!Pause
  PROVE  FigureIInv'
<1>1. UNCHANGED <<Figures!stored, Figures!summary, figuresCrossed>> /\ clock' \in Nat /\ clock' >= clock
  <2>1. PICK d \in Pauses : clock' = clock + d
    BY DEF Figures!Pause
  <2>2. d \in Nat /\ clock \in Nat
    BY FiguresAssumption DEF FigureIInv, FigureTypeOK
  <2> QED
    BY <2>1, <2>2 DEF Figures!Pause
<1>2. FigureMoments \subseteq FigureMoments' /\ \E s \in Starts : s <= clock'
  BY <1>1, FigureMomentsGrow DEF FigureIInv
<1>3. FigureTypeOK'
  <2>1. \A t \in FigureTask : task[t] \in FigureWritten => task[t] \in FigureWritten'
    BY <1>2 DEF FigureWritten
  <2> QED
    BY <1>1, <1>2, <2>1 DEF FigureIInv, FigureTypeOK, Figures!stored, Figures!summary
<1>4. FigureGotOK'
  BY <1>1, <1>2 DEF FigureIInv, FigureGotOK, Figures!stored, Figures!summary
<1>5. FigureOwnMoment' /\ FigureFiledOnce'
  BY <1>1 DEF FigureIInv, FigureOwnMoment, FigureFiledOnce, Figures!stored
<1>7. FigureHeld'
  <2>1. \A t \in FigureTask : figuresEnt[t] \in FigureWritten => figuresEnt[t] \in FigureWritten'
    BY <1>2 DEF FigureWritten
  <2> QED
    BY <1>1, <2>1 DEF FigureIInv, FigureHeld, Figures!stored
<1>6. FigureReadsAgree'
  BY <1>1
  DEF FigureIInv, FigureReadsAgree, Figures!Rows, Figures!There, Figures!stored, Figures!summary
<1> QED
  BY <1>3, <1>4, <1>5, <1>6, <1>7 DEF FigureIInv

\* A step that only reads leaves the tables and the clock.
LEMMA FigureReadingPreserves ==
  ASSUME FigureIInv, UNCHANGED <<clock, Figures!stored>>
  PROVE  /\ FigureOwnMoment' /\ FigureFiledOnce' /\ FigureHeld' /\ FigureMoments' = FigureMoments /\ Figures!Rows' = Figures!Rows
         /\ (figuresAsked' = Figures!Null \/ (figuresAsked' \in Nat /\ \E s \in Starts : s <= figuresAsked'))
              /\ figuresLeft' \subseteq Figures!Reads /\ (figuresAsked' = Figures!Null => figuresLeft' = {}) => FigureTypeOK'
<1>1. FigureOwnMoment' /\ FigureFiledOnce'
  BY DEF FigureIInv, FigureOwnMoment, FigureFiledOnce, Figures!stored
<1>2. FigureMoments' = FigureMoments
  BY DEF FigureMoments
<1>3. Figures!Rows' = Figures!Rows
  BY DEF Figures!Rows, Figures!There, Figures!OpenInDone, Figures!stored
<1>4. (figuresAsked' = Figures!Null \/ (figuresAsked' \in Nat /\ \E s \in Starts : s <= figuresAsked'))
         /\ figuresLeft' \subseteq Figures!Reads /\ (figuresAsked' = Figures!Null => figuresLeft' = {}) => FigureTypeOK'
  <2>1. FigureWritten' = FigureWritten
    BY <1>2 DEF FigureWritten
  <2> QED
    BY <1>2, <2>1 DEF FigureIInv, FigureTypeOK, Figures!stored
<1>5. FigureHeld'
  <2>1. FigureWritten' = FigureWritten
    BY <1>2 DEF FigureWritten
  <2> QED
    BY <2>1 DEF FigureIInv, FigureHeld, Figures!stored
<1> QED
  BY <1>1, <1>2, <1>3, <1>4, <1>5

LEMMA FigureAskPreserves ==
  ASSUME FigureIInv, Figures!Ask
  PROVE  FigureIInv'
<1>1. figuresAsked' = clock /\ figuresLeft' = Figures!Reads /\ figuresGot' = figuresGot /\ UNCHANGED <<clock, Figures!stored>> /\ figuresAsked = Figures!Null
  BY DEF Figures!Ask
<1>2. FigureOwnMoment' /\ FigureFiledOnce' /\ FigureHeld' /\ FigureMoments' = FigureMoments /\ Figures!Rows' = Figures!Rows /\ FigureTypeOK'
  BY <1>1, FigureReadingPreserves DEF FigureIInv, FigureTypeOK, Figures!Null
<1>3. FigureGotOK'
  BY <1>1, <1>2 DEF FigureIInv, FigureGotOK, Figures!stored
<1>4. figuresGot["active"] = {} /\ figuresGot["archived"] = {}
  BY <1>1 DEF FigureIInv, FigureGotOK
<1>5. FigureReadsAgree'
  BY <1>1, <1>4 DEF FigureReadsAgree, Figures!Reads
<1> QED
  BY <1>2, <1>3, <1>5 DEF FigureIInv

LEMMA FigureAnswerPreserves ==
  ASSUME FigureIInv, Figures!Answer
  PROVE  FigureIInv'
<1>1. figuresAsked' = Figures!Null /\ figuresLeft' = {} /\ figuresGot' = Figures!Unread /\ UNCHANGED <<clock, Figures!stored>>
  BY DEF Figures!Answer
<1>2. FigureOwnMoment' /\ FigureFiledOnce' /\ FigureHeld' /\ FigureTypeOK'
  BY <1>1, FigureReadingPreserves
<1>3. FigureGotOK'
  BY <1>1 DEF FigureGotOK, Figures!Unread, Figures!Names
<1>4. FigureReadsAgree'
  BY <1>1 DEF FigureReadsAgree
<1> QED
  BY <1>2, <1>3, <1>4 DEF FigureIInv

LEMMA FigureRowsAre ==
  ASSUME FigureIInv
  PROVE  /\ Figures!Rows["created"] \subseteq [task : FigureTask, at : FigureMoments]
         /\ Figures!Rows["series"] = Figures!Rows["created"]
         /\ Figures!Rows["archived"] \subseteq filed
         /\ Figures!Rows["active"] \subseteq [task : FigureTask, completed : FigureMoments, archived : {Figures!Null}]
         /\ \A r, s \in Figures!Rows["active"] : r.task = s.task => r = s
         /\ \A r \in Figures!Rows["active"] : ~task[r.task].archived
         /\ \A r \in Figures!Rows["archived"] : task[r.task].archived
         /\ Figures!Rows["moves"] = log
         /\ Figures!Rows["bugs"] = flags
<1>1. \A t \in Figures!There : t \in FigureTask /\ task[t].created \in FigureMoments /\ task[t].updated \in FigureMoments
  BY FigureNobodyIsNotThere DEF FigureIInv, FigureTypeOK, FigureWritten
<1>2. Figures!Rows["created"] = { [task |-> t, at |-> task[t].created] : t \in Figures!There }
      /\ Figures!Rows["series"] = { [task |-> t, at |-> task[t].created] : t \in Figures!There }
      /\ Figures!Rows["active"] = { [task |-> t, completed |-> task[t].updated, archived |-> Figures!Null] : t \in Figures!OpenInDone }
      /\ Figures!Rows["archived"] = { f \in filed : f.task \in Figures!There /\ task[f.task].archived }
      /\ Figures!Rows["moves"] = log /\ Figures!Rows["bugs"] = flags
  BY DEF Figures!Rows
<1>3. \A t \in Figures!OpenInDone : t \in Figures!There /\ ~task[t].archived
  BY DEF Figures!OpenInDone
<1>4. \A r \in Figures!Rows["active"] : \E t \in Figures!OpenInDone :
        r = [task |-> t, completed |-> task[t].updated, archived |-> Figures!Null]
  BY <1>2
<1>5. \A r, s \in Figures!Rows["active"] : r.task = s.task => r = s
  <2>1. ASSUME NEW r \in Figures!Rows["active"], NEW s \in Figures!Rows["active"], r.task = s.task
        PROVE  r = s
    <3>1. PICK t \in Figures!OpenInDone : r = [task |-> t, completed |-> task[t].updated, archived |-> Figures!Null]
      BY <1>4
    <3>2. PICK u \in Figures!OpenInDone : s = [task |-> u, completed |-> task[u].updated, archived |-> Figures!Null]
      BY <1>4
    <3> QED
      BY <2>1, <3>1, <3>2
  <2> QED
    BY <2>1
<1>6. Figures!Rows["active"] \subseteq [task : FigureTask, completed : FigureMoments, archived : {Figures!Null}]
  BY <1>1, <1>3, <1>4
<1>7. \A r \in Figures!Rows["active"] : ~task[r.task].archived
  BY <1>3, <1>4
<1>8. Figures!Rows["created"] \subseteq [task : FigureTask, at : FigureMoments]
  BY <1>1, <1>2
<1>9. Figures!Rows["archived"] \subseteq filed /\ \A r \in Figures!Rows["archived"] : task[r.task].archived
  BY <1>2
<1> QED
  BY <1>2, <1>5, <1>6, <1>7, <1>8, <1>9

LEMMA FigureReadPreserves ==
  ASSUME FigureIInv, NEW some \in SUBSET figuresLeft, some # {}, Figures!Read(some)
  PROVE  FigureIInv'
<1>1. /\ figuresLeft' = figuresLeft \ some /\ UNCHANGED <<clock, Figures!stored, figuresAsked, figuresCrossed>>
      /\ figuresGot' = [n \in Figures!Names |-> IF n \in UNION some THEN Figures!Rows[n] ELSE figuresGot[n]]
  BY DEF Figures!Read
<1>2. figuresAsked # Figures!Null
  BY DEF FigureIInv, FigureTypeOK
<1>3. FigureOwnMoment' /\ FigureFiledOnce' /\ FigureHeld' /\ FigureMoments' = FigureMoments /\ Figures!Rows' = Figures!Rows /\ FigureTypeOK'
  <2>1. figuresAsked' = Figures!Null \/ (figuresAsked' \in Nat /\ \E s \in Starts : s <= figuresAsked')
    BY <1>1 DEF FigureIInv, FigureTypeOK
  <2>2. figuresLeft' \subseteq Figures!Reads /\ (figuresAsked' = Figures!Null => figuresLeft' = {})
    BY <1>1 DEF FigureIInv, FigureTypeOK
  <2> QED
    BY <1>1, <2>1, <2>2, FigureReadingPreserves
<1>4. \A n \in Figures!Names : figuresGot'[n] = Figures!Rows[n] \/ figuresGot'[n] = figuresGot[n]
  BY <1>1
<1>5. FigureGotOK'
  <2>1. DOMAIN figuresGot' = Figures!Names
    BY <1>1
  <2>2. /\ figuresGot'["created"] \subseteq [task : FigureTask, at : FigureMoments]
        /\ figuresGot'["series"] \subseteq [task : FigureTask, at : FigureMoments]
        /\ figuresGot'["archived"] \subseteq filed
        /\ figuresGot'["active"] \subseteq [task : FigureTask, completed : FigureMoments, archived : {Figures!Null}]
        /\ figuresGot'["moves"] \subseteq log
    BY <1>4, FigureRowsAre DEF Figures!Names, FigureIInv, FigureGotOK
  <2>3. figuresGot'["bugs"] \subseteq [task : FigureTask, at : FigureMoments, on : BOOLEAN]
    BY <1>4, FigureRowsAre DEF Figures!Names, FigureIInv, FigureGotOK, FigureTypeOK
  <2>4. filed' = filed /\ log' = log
    BY <1>1 DEF Figures!stored
  <2> QED
    BY <1>1, <1>2, <1>3, <2>1, <2>2, <2>3, <2>4 DEF FigureGotOK
<1>6. FigureReadsAgree'
  <2>1. \A x, y \in figuresGot'["active"] : x.task = y.task => x = y
    BY <1>2, <1>4, FigureRowsAre DEF Figures!Names, FigureIInv, FigureReadsAgree
  <2>2. {"close", "restore", "insert"} \cap figuresCrossed' = {} =>
          /\ \A x \in figuresGot'["active"] : ~task'[x.task].archived
          /\ \A x \in figuresGot'["archived"] : task'[x.task].archived
    BY <1>1, <1>2, <1>4, FigureRowsAre
    DEF Figures!Names, FigureIInv, FigureReadsAgree, Figures!stored
  <2>3. ASSUME {"create", "remove", "insert"} \cap figuresCrossed' = {}, NEW n \in {"created", "series"}, {n} \notin figuresLeft'
        PROVE  figuresGot'[n] = Figures!Rows'["created"]
    <3>1. n \in Figures!Names /\ Figures!Rows[n] = Figures!Rows["created"]
      BY FigureRowsAre DEF Figures!Names
    <3>2. CASE n \in UNION some
      BY <1>1, <1>3, <3>1, <3>2
    <3>3. CASE n \notin UNION some
      <4>1. {n} \notin figuresLeft
        BY <1>1, <2>3, <3>3
      <4> QED
        BY <1>1, <1>2, <1>3, <2>3, <3>1, <3>3, <4>1 DEF FigureIInv, FigureReadsAgree
    <3> QED
      BY <3>2, <3>3
  <2> QED
    BY <2>1, <2>2, <2>3 DEF FigureReadsAgree
<1> QED
  BY <1>3, <1>5, <1>6 DEF FigureIInv

LEMMA FigureNextIInv ==
  ASSUME FigureIInv, [Figures!Next]_figuresVars
  PROVE  FigureIInv'
<1>1. CASE Figures!Next
  <2>1. ASSUME NEW some \in SUBSET figuresLeft, some # {}, Figures!Read(some)
        PROVE  FigureIInv'
    BY <2>1, FigureReadPreserves
  <2>2. ASSUME NEW r \in figuresLeft, Figures!Read({r})
        PROVE  FigureIInv'
    BY <2>1, <2>2
  <2>3. ASSUME Figures!Reading, Figures!Read(figuresLeft)
        PROVE  FigureIInv'
    BY <2>1, <2>3 DEF Figures!Reading
  <2> QED
    BY <1>1, <2>2, <2>3, FigurePausePreserves, FigureClosePreserves, FigureAskPreserves,
       FigureAnswerPreserves, FigureEditPreserves,
       FigureLoadPreserves, FigureRemovePreserves, FigureCreatePreserves, FigureMovePreserves, FigureFollowPreserves, FigureFlagPreserves,
       FigureRecordPreserves DEF Figures!Next
<1>2. CASE UNCHANGED figuresVars
  <2>1. UNCHANGED <<clock, Figures!stored, figuresAsked, figuresLeft, figuresGot, figuresCrossed>>
    BY <1>2 DEF figuresVars, Figures!stored, Figures!summary
  <2>2. FigureOwnMoment' /\ FigureFiledOnce' /\ FigureHeld' /\ FigureMoments' = FigureMoments /\ Figures!Rows' = Figures!Rows /\ FigureTypeOK'
    BY <2>1, FigureReadingPreserves DEF FigureIInv, FigureTypeOK
  <2>3. FigureGotOK' /\ FigureReadsAgree'
    BY <2>1, <2>2 DEF FigureIInv, FigureGotOK, FigureReadsAgree, Figures!stored
  <2> QED
    BY <2>2, <2>3 DEF FigureIInv
<1> QED
  BY <1>1, <1>2

-----------------------------------------------------------------------------
(* Completed tasks                                                         *)

LEMMA FigureAreCompletedOnce ==
  ASSUME FigureIInv
  PROVE  Figures!CompletedOnce
<1> SUFFICES ASSUME Figures!Complete, {"close", "restore", "insert"} \cap figuresCrossed = {},
                    NEW r \in Figures!doneDurations, NEW s \in Figures!doneDurations, r.task = s.task
             PROVE  r = s \/ (r.task \in restored /\ {r, s} \subseteq figuresGot["archived"])
  BY DEF Figures!CompletedOnce
<1>1. figuresAsked # Figures!Null
  BY DEF Figures!Complete
<1>2. (\A f \in figuresGot["archived"] : f \in filed /\ task[f.task].archived)
      /\ \A f \in figuresGot["active"] : ~task[f.task].archived
  BY <1>1 DEF FigureIInv, FigureGotOK, FigureReadsAgree
<1>3. CASE r \in figuresGot["archived"] /\ s \in figuresGot["archived"]
  BY <1>2, <1>3 DEF FigureIInv, FigureFiledOnce
<1>4. CASE r \in figuresGot["active"] /\ s \in figuresGot["active"]
  BY <1>1, <1>4 DEF FigureIInv, FigureReadsAgree
<1>5. CASE (r \in figuresGot["archived"] /\ s \in figuresGot["active"]) \/ (r \in figuresGot["active"] /\ s \in figuresGot["archived"])
  BY <1>2, <1>5
<1> QED
  BY <1>3, <1>4, <1>5 DEF Figures!doneDurations

-----------------------------------------------------------------------------
(* The stays of an archived task                                            *)

LEMMA FigureLastStayEnds ==
  ASSUME FigureIInv
  PROVE  Figures!ArchivedStayEnds
<1> SUFFICES ASSUME NEW r \in figuresGot["archived"],
                    \A e \in figuresGot["moves"] : e.task = r.task => ~(e.at > r.archived)
             PROVE  \E d \in Figures!Dwells :
                      /\ d.task = r.task /\ d.end = r.archived
                      /\ (\A o \in figuresGot["archived"] : o.task = r.task => o.archived <= r.archived)
                           => \A o \in Figures!Dwells : o.task = r.task => o = d \/ o.end <= d.start
                      /\ { e \in figuresGot["moves"] : e.task = r.task /\ e.at > r.completed } = {} => d.status = "done"
  BY DEF Figures!ArchivedStayEnds
<1> DEFINE events  == figuresGot["moves"]
           entries    == figuresGot["archived"]
           last(x) == { e \in events : e.task = x.task /\
                          \A o \in events : o.task = x.task => o.at <= e.at }
           Done(x, at) == [task |-> x.task, at |-> at, status |-> "done"]
           enters(x) == /\ \A e \in last(x) : e.status # "done" /\ x.completed > e.at
                        /\ x.completed <= x.archived
           ends(x) == \A e \in last(x) : x.archived > e.at
           V == Figures!appendArchiveClosures(events, entries)
           a == Done(r, r.archived)
           c == Done(r, r.completed)
<1>1. V = events \cup { Done(x, x.completed) : x \in { y \in entries : enters(y) } }
                 \cup { Done(x, x.archived) : x \in { y \in entries : ends(y) } }
  BY DEF Figures!appendArchiveClosures
<1>2. /\ r.task \in FigureTask /\ r.completed \in Nat /\ r.archived \in Nat /\ r.completed < r.archived
      /\ \A x \in entries : x.task = r.task =>
           /\ x.completed \in Nat /\ x.archived \in Nat /\ x.completed < x.archived
           /\ x.archived = r.archived => x = r
  BY DEF FigureIInv, FigureGotOK, FigureFiledOnce, FigureTypeOK, FigureMoments
<1>3. \A e \in events : /\ e.at \in Nat /\ \A x \in entries : e.at # x.completed /\ e.at # x.archived
                        /\ \A f \in events : e.at = f.at => e = f
  BY DEF FigureIInv, FigureGotOK, FigureOwnMoment, FigureTypeOK, FigureMoments
<1>4. \A e \in events : e.task = r.task => e.at < r.archived
  BY <1>2, <1>3
<1>5. a \in V
  <2>1. ends(r)
    BY <1>2, <1>4
  <2> QED
    BY <1>1, <2>1
<1>6. a.task = r.task /\ a.at = r.archived /\ c.task = r.task /\ c.at = r.completed /\ c.status = "done"
  OBVIOUS
<1>7. ASSUME NEW v \in V, v.task = r.task
      PROVE  \/ v \in events
             \/ /\ v.status = "done" /\ v = Done(r, v.at)
                /\ \E x \in entries : x.task = r.task /\ (v.at = x.completed \/ v.at = x.archived)
  <2>1. CASE v \in events
    BY <2>1
  <2>2. CASE \E x \in entries : v = Done(x, x.completed)
    BY <1>7, <2>2
  <2>3. CASE \E x \in entries : v = Done(x, x.archived)
    BY <1>7, <2>3
  <2> QED
    BY <1>1, <2>1, <2>2, <2>3
<1>8. enters(r) => c \in V
  BY <1>1
<1>9. events \subseteq V
  BY <1>1
<1>10. (\A e \in events : e.task # r.task) => enters(r)
  BY <1>2
<1>11. ASSUME ~enters(r)
       PROVE  \E e \in last(r) : e.status = "done" \/ e.at >= r.completed
  BY <1>2, <1>3, <1>11
<1>12. \A e \in last(r) : e \in events /\ e.task = r.task /\ \A o \in events : o.task = r.task => o.at <= e.at
  OBVIOUS
<1>13. Figures!Dwells = Figures!closedStatusDwells(V)
  BY DEF Figures!Dwells
<1>22. a = Done(r, r.archived) /\ r \in entries
  OBVIOUS
<1> HIDE DEF events, entries, V, a, c, enters, last, ends, Done
<1>14. \A v \in V : v.task = r.task => v.at \in Nat
  BY <1>2, <1>3, <1>7
<1>15. \A v, w \in V : v.task = r.task /\ w.task = r.task /\ v.at = w.at => v = w
  <2>1. ASSUME NEW v \in V, NEW w \in V, v.task = r.task, w.task = r.task, v.at = w.at
        PROVE  v = w
    <3>1. v \in events \/ (v = Done(r, v.at) /\ \E x \in entries : v.at = x.completed \/ v.at = x.archived)
      BY <1>7, <2>1
    <3>2. w \in events \/ (w = Done(r, w.at) /\ \E x \in entries : w.at = x.completed \/ w.at = x.archived)
      BY <1>7, <2>1
    <3> QED
      BY <1>3, <2>1, <3>1, <3>2
  <2> QED
    BY <2>1
<1>23. ASSUME \A o \in entries : o.task = r.task => o.archived <= r.archived
       PROVE  \A v \in V : v.task = r.task => v = a \/ v.at < r.archived
  <2> SUFFICES ASSUME NEW v \in V, v.task = r.task
               PROVE  v = a \/ v.at < r.archived
    OBVIOUS
  <2>1. CASE v \in events
    BY <1>4, <2>1
  <2>2. CASE /\ v = Done(r, v.at)
             /\ \E x \in entries : x.task = r.task /\ (v.at = x.completed \/ v.at = x.archived)
    <3>1. PICK x \in entries : x.task = r.task /\ (v.at = x.completed \/ v.at = x.archived)
      BY <2>2
    <3>2. x.archived <= r.archived /\ x.completed < x.archived /\ x.completed \in Nat /\ x.archived \in Nat
      BY <1>2, <1>23, <3>1
    <3>3. v.at <= r.archived /\ v.at \in Nat
      BY <1>2, <3>1, <3>2
    <3>4. v.at = r.archived => v = a
      BY <1>22, <2>2
    <3> QED
      BY <1>2, <3>3, <3>4
  <2> QED
    BY <1>7, <2>1, <2>2
<1>16. PICK p \in V : /\ p.task = r.task /\ p.at < r.archived
                      /\ \A o \in V : o.task = r.task /\ o.at < r.archived => o.at <= p.at
  <2> DEFINE S == { r.archived - v.at : v \in { w \in V : w.task = r.task /\ w.at < r.archived } }
  <2>1. \E v \in V : v.task = r.task /\ v.at < r.archived
    <3>1. CASE \A e \in events : e.task # r.task
      BY <1>2, <1>6, <1>8, <1>10, <3>1
    <3>2. CASE \E e \in events : e.task = r.task
      BY <1>4, <1>9, <3>2
    <3> QED
      BY <3>1, <3>2
  <2>2. S \in SUBSET Nat /\ S # {}
    <3>1. \A v \in V : v.task = r.task /\ v.at < r.archived => r.archived - v.at \in Nat
      BY <1>2, <1>14
    <3> QED
      BY <2>1, <3>1
  <2>3. PICK n \in S : \A m \in S : n <= m
    BY <2>2, LeastIs
  <2>4. PICK p \in V : p.task = r.task /\ p.at < r.archived /\ n = r.archived - p.at
    BY <2>3
  <2>5. ASSUME NEW o \in V, o.task = r.task, o.at < r.archived
        PROVE  o.at <= p.at
    <3>1. r.archived - p.at <= r.archived - o.at
      BY <2>3, <2>4, <2>5
    <3> QED
      BY <1>2, <1>14, <2>4, <2>5, <3>1
  <2> QED
    BY <2>4, <2>5
<1> DEFINE Follows(f, e) ==
             /\ f.task = e.task /\ e.at < f.at
             /\ \A o \in V : o.task = e.task => o.at <= e.at \/ o.at >= f.at
           d == [task |-> r.task, status |-> p.status, start |-> p.at, end |-> r.archived]
<1>17. Figures!Dwells = { [task |-> q[1].task, status |-> q[1].status, start |-> q[1].at, end |-> q[2].at] :
                    q \in { x \in V \X V : Follows(x[2], x[1]) } }
  BY <1>13 DEF Figures!closedStatusDwells
<1>18. d \in Figures!Dwells
  <2>1. Follows(a, p)
    BY <1>2, <1>6, <1>14, <1>16
  <2> DEFINE q == <<p, a>>
  <2>2. q \in { x \in V \X V : Follows(x[2], x[1]) }
    BY <1>5, <2>1
  <2>3. d = [task |-> q[1].task, status |-> q[1].status, start |-> q[1].at, end |-> q[2].at]
    BY <1>6, <1>16
  <2> HIDE DEF q, d, Follows
  <2> QED
    BY <1>17, <2>2, <2>3
<1>19. ASSUME \A o \in entries : o.task = r.task => o.archived <= r.archived,
              NEW o \in Figures!Dwells, o.task = r.task
       PROVE  o = d \/ o.end <= d.start
  <2>1. PICK q \in V \X V : /\ Follows(q[2], q[1])
                            /\ o = [task |-> q[1].task, status |-> q[1].status, start |-> q[1].at, end |-> q[2].at]
    BY <1>17
  <2> DEFINE v == q[1]
             w == q[2]
  <2>2. /\ v \in V /\ w \in V /\ v.task = r.task /\ w.task = r.task /\ v.at < w.at
        /\ \A x \in V : x.task = r.task => x.at <= v.at \/ x.at >= w.at
        /\ o = [task |-> r.task, status |-> v.status, start |-> v.at, end |-> w.at]
    BY <1>19, <2>1
  <2> HIDE DEF v, w
  <2>3. CASE w = a
    <3>1. v.at < r.archived /\ w.at = r.archived
      BY <1>6, <2>2, <2>3
    <3>2. v.at <= p.at /\ p.at <= v.at /\ v.at \in Nat /\ p.at \in Nat
      BY <1>2, <1>14, <1>16, <2>2, <3>1
    <3>3. v = p
      BY <1>15, <1>16, <2>2, <3>2
    <3> QED
      BY <2>2, <3>1, <3>3
  <2>4. CASE w # a
    <3>1. w.at < r.archived
      BY <1>19, <1>23, <2>2, <2>4
    <3> QED
      BY <1>16, <2>2, <3>1
  <2> QED
    BY <2>3, <2>4
<1>20. ASSUME { e \in events : e.task = r.task /\ e.at > r.completed } = {}
       PROVE  p.status = "done"
  <2>1. \A e \in events : e.task = r.task => e.at < r.completed
    <3>1. r.completed \in Nat /\ \A e \in events : e.at \in Nat /\ e.at # r.completed
      BY <1>2, <1>3, <1>22
    <3> QED
      BY <3>1, <1>20
  <2>2. p \in events \/ p.status = "done"
    BY <1>7, <1>16
  <2>3. CASE enters(r)
    <3>1. r.completed <= p.at
      BY <1>2, <1>6, <1>8, <1>16, <2>3
    <3>2. p \notin events
      BY <1>2, <1>3, <1>16, <2>1, <3>1
    <3> QED
      BY <2>2, <3>2
  <2>4. CASE ~enters(r) /\ p \in events
    <3>1. PICK e \in last(r) : e.status = "done" \/ e.at >= r.completed
      BY <1>11, <2>4
    <3>2. /\ e \in events /\ e.task = r.task /\ e.status = "done" /\ p \in events
          /\ p.at <= e.at
      BY <1>2, <1>3, <1>12, <1>16, <2>1, <2>4, <3>1
    <3>3. e.at <= p.at
      BY <1>4, <1>9, <1>16, <3>2
    <3>4. e.at = p.at
      BY <1>3, <3>2, <3>3
    <3> QED
      BY <1>3, <3>2, <3>4
  <2> QED
    BY <2>2, <2>3, <2>4
<1>21. d.task = r.task /\ d.end = r.archived /\ d.status = p.status
  OBVIOUS
<1> HIDE DEF d, Follows
<1> QED
  BY <1>18, <1>19, <1>20, <1>21 DEF events, entries

-----------------------------------------------------------------------------
(* Days and weeks                                                          *)

\* The code's reckoning of a week and the database's agree: it begins 8 half days
\* after a multiple of 14.
LEMMA FigureWeekIs ==
  ASSUME NEW at \in Nat
  PROVE  \E p \in Int : /\ Figures!utcWeekStart(at) = 14 * p + 8
                        /\ Figures!utcWeekStart(at) <= at /\ at < Figures!utcWeekStart(at) + 14
<1> DEFINE q == at \div 2
           b == at % 2
           m == (q + 4) \div 7
           weekday == (q + 4) % 7
<1>1. q \in Nat /\ b \in 0 .. 1 /\ at = 2 * q + b
  OBVIOUS
<1>2. m \in Nat /\ weekday \in 0 .. 6 /\ q + 4 = 7 * m + weekday
  BY <1>1
<1>3. Figures!utcWeekStart(at) = at - b + (IF weekday = 0 THEN -6 ELSE 1 - weekday) * 2
  BY DEF Figures!utcWeekStart, Figures!utcDayStart, Figures!Day
<1> HIDE DEF q, b, m, weekday
<1>4. CASE weekday = 0
  <2>1. Figures!utcWeekStart(at) = 14 * (m - 2) + 8 /\ m - 2 \in Int
    BY <1>1, <1>2, <1>3, <1>4
  <2>2. Figures!utcWeekStart(at) <= at /\ at < Figures!utcWeekStart(at) + 14
    BY <1>1, <1>2, <1>3, <1>4
  <2> QED
    BY <2>1, <2>2
<1>5. CASE weekday # 0
  <2>1. Figures!utcWeekStart(at) = 14 * (m - 1) + 8 /\ m - 1 \in Int
    BY <1>1, <1>2, <1>3, <1>5
  <2>2. Figures!utcWeekStart(at) <= at /\ at < Figures!utcWeekStart(at) + 14
    BY <1>1, <1>2, <1>3, <1>5
  <2> QED
    BY <2>1, <2>2
<1> QED
  BY <1>4, <1>5

LEMMA FigureDayIs ==
  ASSUME NEW at \in Nat
  PROVE  \E p \in Nat : /\ Figures!utcDayStart(at) = 2 * p
                        /\ Figures!utcDayStart(at) <= at /\ at < Figures!utcDayStart(at) + 2
<1> DEFINE q == at \div 2
           b == at % 2
<1>1. q \in Nat /\ b \in 0 .. 1 /\ at = 2 * q + b
  OBVIOUS
<1>2. Figures!utcDayStart(at) = at - b
  BY DEF Figures!utcDayStart, Figures!Day
<1> HIDE DEF q, b
<1> QED
  BY <1>1, <1>2

\* A bucket is a stretch of a length, and they begin at a distance of their lengths.
FigureLength(by) == IF by = "day" THEN Figures!Day ELSE Figures!Week

LEMMA FigureBucketIs ==
  ASSUME NEW at \in Nat, NEW by \in {"day", "week"}
  PROVE  /\ Figures!bucketStartMs(at, by) \in Int
         /\ Figures!bucketStartMs(at, by) <= at /\ at < Figures!bucketStartMs(at, by) + FigureLength(by)
         /\ Figures!date_trunc(by, at) = Figures!bucketStartMs(at, by)
         /\ \E p \in Int : Figures!bucketStartMs(at, by) = FigureLength(by) * p + (IF by = "day" THEN 0 ELSE 8)
<1>1. CASE by = "day"
  <2>1. PICK p \in Nat : Figures!utcDayStart(at) = 2 * p /\ Figures!utcDayStart(at) <= at /\ at < Figures!utcDayStart(at) + 2
    BY FigureDayIs
  <2>2. at \div 2 = p
    BY <2>1
  <2> QED
    BY <1>1, <2>1, <2>2 DEF Figures!bucketStartMs, Figures!date_trunc, FigureLength, Figures!Day
<1>2. CASE by = "week"
  <2>1. PICK p \in Int : /\ Figures!utcWeekStart(at) = 14 * p + 8
                         /\ Figures!utcWeekStart(at) <= at /\ at < Figures!utcWeekStart(at) + 14
    BY FigureWeekIs
  <2> DEFINE w == Figures!utcWeekStart(at)
  <2>2. w \in (at - Figures!Week + 1) .. at /\ w % Figures!Week = 4 * Figures!Day
    BY <2>1 DEF Figures!Week, Figures!Day
  <2>3. ASSUME NEW d \in (at - Figures!Week + 1) .. at, d % Figures!Week = 4 * Figures!Day
        PROVE  d = w
    <3>1. d \in Int /\ d = 14 * (d \div 14) + 8 /\ d \div 14 \in Int
      BY <2>3 DEF Figures!Week, Figures!Day
    <3> QED
      BY <2>1, <2>3, <3>1 DEF Figures!Week, Figures!Day
  <2> HIDE DEF w
  <2>4. Figures!date_trunc(by, at) = w
    BY <1>2, <2>2, <2>3 DEF Figures!date_trunc
  <2> QED
    BY <1>2, <2>1, <2>4 DEF Figures!bucketStartMs, FigureLength, Figures!Week, Figures!Day, w
<1> QED
  BY <1>1, <1>2

\* Buckets keep the order of moments, at distances that are multiples of the length.
LEMMA FigureBucketsInOrder ==
  ASSUME NEW a \in Nat, NEW b \in Nat, a <= b, NEW by \in {"day", "week"}
  PROVE  /\ Figures!bucketStartMs(a, by) <= Figures!bucketStartMs(b, by)
         /\ (Figures!bucketStartMs(b, by) - Figures!bucketStartMs(a, by)) % FigureLength(by) = 0
<1> DEFINE x == Figures!bucketStartMs(a, by)
           y == Figures!bucketStartMs(b, by)
           c == IF by = "day" THEN 0 ELSE 8
<1>1. PICK p \in Int : x = FigureLength(by) * p + c
  BY FigureBucketIs
<1>2. PICK q \in Int : y = FigureLength(by) * q + c
  BY FigureBucketIs
<1>3. /\ x \in Int /\ y \in Int /\ x <= a /\ a < x + FigureLength(by) /\ y <= b /\ b < y + FigureLength(by)
  BY FigureBucketIs
<1> HIDE DEF x, y
<1>4. FigureLength(by) = 2 \/ FigureLength(by) = 14
  BY DEF FigureLength, Figures!Day, Figures!Week
<1>5. x <= y
  BY <1>1, <1>2, <1>3, <1>4
<1>6. (y - x) % FigureLength(by) = 0
  <2>1. CASE FigureLength(by) = 2
    BY <1>1, <1>2, <2>1
  <2>2. CASE FigureLength(by) = 14
    BY <1>1, <1>2, <2>2
  <2> QED
    BY <1>4, <2>1, <2>2
<1> QED
  BY <1>5, <1>6 DEF x, y

-----------------------------------------------------------------------------
(* Trends                                                                  *)

LEMMA FigureMinIs ==
  ASSUME NEW S \in SUBSET Nat, S # {}
  PROVE  Figures!Min(S) \in S /\ \A x \in S : Figures!Min(S) <= x
<1>1. \E n \in S : \A x \in S : n <= x
  BY LeastIs
<1> QED
  BY <1>1 DEF Figures!Min

LEMMA FigureMaxOfTwo ==
  ASSUME NEW a \in Int, NEW b \in Int
  PROVE  Figures!Max({a, b}) \in {a, b} /\ Figures!Max({a, b}) >= a /\ Figures!Max({a, b}) >= b
<1>1. \E x \in {a, b} : \A y \in {a, b} : x >= y
  <2>1. a >= b \/ b >= a
    OBVIOUS
  <2> QED
    BY <2>1
<1> DEFINE top == CHOOSE x \in {a, b} : \A y \in {a, b} : x >= y
<1>2. top \in {a, b} /\ \A y \in {a, b} : top >= y
  BY <1>1
<1>3. Figures!Max({a, b}) = top
  BY DEF Figures!Max
<1> QED
  BY <1>2, <1>3

\* What lies in a period lies in one of its buckets.
LEMMA FigureInBuckets ==
  ASSUME NEW at \in Nat, NEW by \in {"day", "week"}, NEW w,
         (w.start = Figures!Null /\ w.end = Figures!Null) \/ (w.start \in Nat /\ w.end \in Nat),
         Figures!inRange(at, w), clock \in Nat, at < clock,
         NEW extra \in SUBSET Nat, w.start = Figures!Null => \E x \in extra : x <= at
  PROVE  Figures!bucketStartMs(at, by) \in Figures!emptyTrendBuckets(w, by, extra)
<1> DEFINE end   == IF w.end # Figures!Null THEN w.end ELSE clock
           start == CASE w.start # Figures!Null -> w.start
                      [] w.start = Figures!Null /\ extra # {} -> Figures!Min(extra)
                      [] OTHER -> end - 12 * Figures!Week
           top   == Figures!Max({end - 1, start})
           first == Figures!bucketStartMs(start, by)
           final == Figures!bucketStartMs(top, by)
           b     == Figures!bucketStartMs(at, by)
<1>1. end \in Nat /\ at <= end - 1
  BY DEF Figures!inRange, Figures!Null
<1>2. start \in Nat /\ start <= at
  <2>1. CASE w.start # Figures!Null
    <3>1. start = w.start
      BY <2>1
    <3> QED
      BY <2>1, <3>1 DEF Figures!inRange
  <2>2. CASE w.start = Figures!Null
    <3>1. extra # {} /\ \E x \in extra : x <= at
      BY <2>2
    <3>2. start = Figures!Min(extra)
      BY <2>2, <3>1
    <3>3. Figures!Min(extra) \in extra /\ \A x \in extra : Figures!Min(extra) <= x
      BY <3>1, FigureMinIs
    <3>4. Figures!Min(extra) \in Nat /\ Figures!Min(extra) <= at
      <4>1. PICK x \in extra : x <= at
        BY <3>1
      <4> DEFINE m == Figures!Min(extra)
      <4>2. m \in Nat /\ x \in Nat /\ m <= x
        BY <3>3
      <4> HIDE DEF m
      <4>3. m <= at
        BY <4>1, <4>2
      <4> QED
        BY <4>2, <4>3 DEF m
    <3> QED
      BY <3>2, <3>4
  <2> QED
    BY <2>1, <2>2
<1>3. Figures!emptyTrendBuckets(w, by, extra) = { x \in first .. final : (x - first) % FigureLength(by) = 0 }
  BY DEF Figures!emptyTrendBuckets, FigureLength
<1> HIDE DEF end, start
<1>4. top \in Nat /\ at <= top
  <2> DEFINE eve == end - 1
  <2>0. eve \in Int /\ start \in Int
    BY <1>1, <1>2
  <2> HIDE DEF eve
  <2>1. Figures!Max({eve, start}) \in {eve, start} /\ Figures!Max({eve, start}) >= eve
    BY <2>0, FigureMaxOfTwo
  <2>2. top = Figures!Max({eve, start})
    BY DEF eve
  <2>3. top \in {end - 1, start} /\ top >= end - 1
    BY <2>1, <2>2 DEF eve
  <2> HIDE DEF top
  <2> QED
    BY <1>1, <1>2, <2>3
<1> HIDE DEF top
<1>5. first <= b /\ (b - first) % FigureLength(by) = 0
  BY <1>2, FigureBucketsInOrder
<1>6. b <= final
  BY <1>4, FigureBucketsInOrder
<1>7. first \in Int /\ final \in Int /\ b \in Int
  BY <1>2, <1>4, FigureBucketIs
<1> HIDE DEF first, final, b
<1>8. b \in { x \in first .. final : (x - first) % FigureLength(by) = 0 }
  BY <1>5, <1>6, <1>7
<1> QED
  BY <1>3, <1>8 DEF b

LEMMA FigurePeriodsAre ==
  ASSUME NEW at \in Nat, NEW s \in Starts, s <= at, NEW w \in Figures!Periods(at)
  PROVE  /\ (w.start = Figures!Null /\ w.end = Figures!Null) \/ (w.start \in Nat /\ w.end \in Nat)
         /\ Figures!granularity(w) \in {"day", "week"}
<1>1. s \in Nat /\ s >= 180 /\ \A r \in Ranges : r[1] <= r[2] /\ Figures!utcDayStart(s) + r[1] * Figures!Day >= 0
  BY FiguresAssumption DEF Figures!Day
<1>2. Figures!granularity(w) \in {"day", "week"}
  BY DEF Figures!granularity
<1>3. CASE w.key # "custom"
  <2>1. w \in { [key |-> "7d", start |-> at - 14, end |-> at], [key |-> "30d", start |-> at - 60, end |-> at],
                [key |-> "90d", start |-> at - 180, end |-> at], [key |-> "all", start |-> Figures!Null, end |-> Figures!Null] }
    BY <1>3 DEF Figures!Periods, Figures!Day
  <2> QED
    BY <1>1, <1>2, <2>1
<1>4. CASE w.key = "custom"
  <2>1. PICK r \in Ranges : w = [key |-> "custom", start |-> Figures!utcDayStart(at) + r[1] * Figures!Day,
                                 end |-> Figures!utcDayStart(at) + (r[2] + 1) * Figures!Day]
    BY <1>4 DEF Figures!Periods
  <2>2. r[1] \in Int /\ r[2] \in Int /\ r[1] <= r[2] /\ Figures!utcDayStart(s) + r[1] * 2 >= 0
    BY <1>1, FiguresAssumption DEF Figures!Day
  <2>3. Figures!utcDayStart(s) <= Figures!utcDayStart(at) /\ Figures!utcDayStart(at) \in Int /\ Figures!utcDayStart(s) \in Int
    BY <1>1, FigureBucketsInOrder, FigureBucketIs DEF Figures!bucketStartMs
  <2>4. Figures!utcDayStart(at) + r[1] * 2 \in Nat /\ Figures!utcDayStart(at) + (r[2] + 1) * 2 \in Nat
    BY <2>2, <2>3
  <2> QED
    BY <1>2, <2>1, <2>4 DEF Figures!Day
<1> QED
  BY <1>2, <1>3, <1>4

LEMMA FigureMomentsAre ==
  ASSUME NEW m \in FigureMoments
  PROVE  m \in Nat /\ m >= 180 /\ m < clock
BY FiguresAssumption DEF FigureMoments, Figures!Day

LEMMA FigureEventsAre ==
  ASSUME FigureIInv
  PROVE  /\ \A e \in figuresGot["moves"] \cup Figures!Completed \cup Figures!Reported : e.at \in FigureMoments
         /\ \A r \in figuresGot["series"] \cup figuresGot["created"] : r.at \in FigureMoments
<1>1. \A e \in figuresGot["moves"] : e.at \in FigureMoments
  BY DEF FigureIInv, FigureGotOK, FigureTypeOK
<1>2. \A e \in Figures!Reported : e.at \in FigureMoments
  BY DEF FigureIInv, FigureGotOK, Figures!Reported
<1>3. \A r \in figuresGot["archived"] \cup figuresGot["active"] : r.completed \in FigureMoments
  BY DEF FigureIInv, FigureGotOK, FigureTypeOK
<1>4. \A e \in Figures!Completed : e.at \in FigureMoments
  BY <1>3 DEF Figures!Completed, Figures!doneDurations
<1>5. \A r \in figuresGot["series"] \cup figuresGot["created"] : r.at \in FigureMoments
  BY DEF FigureIInv, FigureGotOK
<1> QED
  BY <1>1, <1>2, <1>4, <1>5

LEMMA FigureTrendsAddUp ==
  ASSUME FigureIInv
  PROVE  Figures!TrendAddsUp
<1> SUFFICES ASSUME Figures!Complete, NEW w \in Figures!Periods(figuresAsked)
             PROVE  LET by      == Figures!granularity(w)
                        step    == IF by = "day" THEN Figures!Day ELSE Figures!Week
                        buckets == Figures!emptyTrendBuckets(w, by, Figures!extraDates(w, by))
                        events  == figuresGot["moves"] \cup Figures!Completed \cup Figures!Reported
                    IN  /\ Figures!Counted(Figures!Within(events, w), by, buckets) = Figures!Within(events, w)
                        /\ \A e \in events : e.at - Figures!bucketStartMs(e.at, by) \in 0 .. (step - 1)
                        /\ {"create", "remove", "insert"} \cap figuresCrossed = {} =>
                             Figures!CountedBySql(Figures!Within(figuresGot["series"], w), by, buckets) = Figures!Within(figuresGot["created"], w)
  BY DEF Figures!TrendAddsUp
<1> DEFINE by      == Figures!granularity(w)
           extra   == Figures!extraDates(w, by)
           buckets == Figures!emptyTrendBuckets(w, by, extra)
           events  == figuresGot["moves"] \cup Figures!Completed \cup Figures!Reported
           series  == figuresGot["series"]
<1>1. figuresAsked \in Nat /\ figuresAsked # Figures!Null /\ figuresLeft = {} /\ \E s \in Starts : s <= figuresAsked
  BY DEF Figures!Complete, FigureIInv, FigureTypeOK
<1>2. /\ (w.start = Figures!Null /\ w.end = Figures!Null) \/ (w.start \in Nat /\ w.end \in Nat)
      /\ by \in {"day", "week"}
  BY <1>1, FigurePeriodsAre
<1>3. clock \in Nat
  BY DEF FigureIInv, FigureTypeOK
<1>4. \A e \in events \cup series : e.at \in Nat /\ e.at >= 180 /\ e.at < clock
  BY FigureEventsAre, FigureMomentsAre
<1>5. extra = { Figures!date_trunc(by, r.at) : r \in Figures!Within(series, w) } \cup
              { Figures!utcDayStart(r.at) : r \in Figures!Within(events, w) }
  BY DEF Figures!extraDates
<1>6. \A entries : \A r \in Figures!Within(entries, w) : r \in entries /\ Figures!inRange(r.at, w)
  BY DEF Figures!Within
<1> HIDE DEF by, extra, events, series
<1>7. FigureLength(by) = 2 \/ FigureLength(by) = 14
  BY DEF FigureLength, Figures!Day, Figures!Week
<1>8. \A r \in Figures!Within(series, w) :
        Figures!date_trunc(by, r.at) \in Nat /\ Figures!date_trunc(by, r.at) <= r.at /\ Figures!date_trunc(by, r.at) = Figures!bucketStartMs(r.at, by)
  <2>1. ASSUME NEW r \in Figures!Within(series, w)
        PROVE  Figures!date_trunc(by, r.at) \in Nat /\ Figures!date_trunc(by, r.at) <= r.at
                 /\ Figures!date_trunc(by, r.at) = Figures!bucketStartMs(r.at, by)
    <3>1. r.at \in Nat /\ r.at >= 180
      BY <1>4, <1>6
    <3>2. /\ Figures!bucketStartMs(r.at, by) \in Int
          /\ Figures!bucketStartMs(r.at, by) <= r.at /\ r.at < Figures!bucketStartMs(r.at, by) + FigureLength(by)
          /\ Figures!date_trunc(by, r.at) = Figures!bucketStartMs(r.at, by)
      BY <1>2, <3>1, FigureBucketIs
    <3> QED
      BY <1>7, <3>1, <3>2
  <2> QED
    BY <2>1
<1>9. \A r \in Figures!Within(events, w) : Figures!utcDayStart(r.at) \in Nat /\ Figures!utcDayStart(r.at) <= r.at
  <2>1. ASSUME NEW r \in Figures!Within(events, w)
        PROVE  Figures!utcDayStart(r.at) \in Nat /\ Figures!utcDayStart(r.at) <= r.at
    <3>1. r.at \in Nat
      BY <1>4, <1>6
    <3>2. PICK p \in Nat : Figures!utcDayStart(r.at) = 2 * p /\ Figures!utcDayStart(r.at) <= r.at
      BY <3>1, FigureDayIs
    <3> QED
      BY <3>2
  <2> QED
    BY <2>1
<1>10. extra \in SUBSET Nat
  BY <1>5, <1>8, <1>9
<1>11. ASSUME NEW r \in Figures!Within(events, w) \cup Figures!Within(series, w)
       PROVE  Figures!bucketStartMs(r.at, by) \in buckets
  <2>1. r.at \in Nat /\ r.at < clock /\ Figures!inRange(r.at, w)
    BY <1>4, <1>6
  <2>2. \E x \in extra : x <= r.at
    BY <1>5, <1>8, <1>9
  <2> QED
    BY <1>2, <1>3, <1>10, <2>1, <2>2, FigureInBuckets
<1> HIDE DEF buckets
<1>12. Figures!Counted(Figures!Within(events, w), by, buckets) = Figures!Within(events, w)
  BY <1>11 DEF Figures!Counted
<1>13. \A e \in events : e.at - Figures!bucketStartMs(e.at, by) \in 0 .. (FigureLength(by) - 1)
  <2>1. ASSUME NEW e \in events
        PROVE  e.at - Figures!bucketStartMs(e.at, by) \in 0 .. (FigureLength(by) - 1)
    <3>1. e.at \in Nat
      BY <1>4
    <3>2. /\ Figures!bucketStartMs(e.at, by) \in Int
          /\ Figures!bucketStartMs(e.at, by) <= e.at /\ e.at < Figures!bucketStartMs(e.at, by) + FigureLength(by)
      BY <1>2, <3>1, FigureBucketIs
    <3> QED
      BY <1>7, <3>1, <3>2
  <2> QED
    BY <2>1
<1>14. ASSUME {"create", "remove", "insert"} \cap figuresCrossed = {}
       PROVE  Figures!CountedBySql(Figures!Within(series, w), by, buckets) = Figures!Within(figuresGot["created"], w)
  <2>1. series = figuresGot["created"]
    BY <1>1, <1>14 DEF FigureIInv, FigureReadsAgree, series
  <2>2. \A r \in Figures!Within(series, w) : Figures!date_trunc(by, r.at) \in buckets
    BY <1>8, <1>11
  <2> QED
    BY <2>1, <2>2 DEF Figures!CountedBySql
<1> QED
  BY <1>12, <1>13, <1>14 DEF by, extra, buckets, events, series, FigureLength

FigureInFocus == focus = "analytics" => FigureIInv

\* The invariant holds while tasks are written and a summary reads them.
LEMMA FigureMoves == MachinesSpec => []FigureInFocus
<1>1. MachinesInit => FigureInFocus
  BY FigureInitIInv, FiguresAssumption DEF MachinesInit, FigureInFocus
<1>2. FigureInFocus /\ [MachinesNext]_machineVars => FigureInFocus'
  BY FigureNextIInv, OneMoves, FiguresAssumption DEF FigureInFocus
<1> QED
  BY <1>1, <1>2, PTL DEF MachinesSpec

\* For every creation day, cycle length and day: the windows of a project cover its
\* days, each once.  For all tasks, writes, moments and periods: the columns of a
\* trend add up to the totals; unless something comes between the reads a completed
\* task is counted once, or once for each archival if the save of an old entity has
\* brought it back; and a stay of an archived task ends with each of its archivals.
THEOREM FiguresHoldCorrect == MachinesSpec => []FiguresHold
<1>1. CalendarInFocus => (focus = "calendar" => WindowsTile)
  BY CurrentIs, PastIsTiled DEF CalendarInFocus, WindowsTile
<1>2. FigureInFocus => (focus = "analytics" => Figures!TrendAddsUp)
  BY FigureTrendsAddUp DEF FigureInFocus
<1>3. FigureInFocus => (focus = "analytics" => Figures!CompletedOnce /\ Figures!ArchivedStayEnds)
  BY FigureAreCompletedOnce, FigureLastStayEnds DEF FigureInFocus
<1>4. CalendarInFocus /\ FigureInFocus => FiguresHold
  BY <1>1, <1>2, <1>3 DEF FiguresHold
<1> QED
  BY <1>4, CalendarMoves, FigureMoves, PTL
=============================================================================
