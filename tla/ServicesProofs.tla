---------------------------- MODULE ServicesProofs ----------------------------
(***************************************************************************)
(* Proofs about Machines: the reminders, the rights of users and the tools *)
(* of AI clients, each from an invariant of its own, which has the name of *)
(* its machine in front.                                                   *)
(***************************************************************************)
EXTENDS MachinesProofs, SequenceTheorems


-----------------------------------------------------------------------------
(***************************************************************************)
(* Reminders.  A request changes the opt-in and the subscriptions one      *)
(* after the other, and may die in between; what the scheduler counts as   *)
(* sent is what was sent on the day it has in mind.                        *)
(***************************************************************************)

PushPreference == [row : BOOLEAN, in : BOOLEAN, due : BOOLEAN]

\* What of the shape the rest needs.
PushTypeOK ==
  /\ owner \in [Browser -> PushUser \cup {Nil}]
  /\ prefs \in [PushUser -> PushPreference]
  /\ pushAt \in {"idle", "optIn", "count", "clear", "save"}
  /\ pushAt # "idle" => who \in PushUser
  /\ pushEnt \in PushPreference
  /\ told \in [PushUser -> Nat]

\* A subscription whose user is not opted in is that of the request under way,
\* which is about to save that they are; a request about to save that its user is
\* not has left no subscription of theirs.
PushOptingIn ==
  ~pushTorn =>
    /\ \A b \in Browser : owner[b] # Nil =>
         \/ prefs[owner[b]].in
         \/ owner[b] = who /\ (pushAt = "optIn" \/ (pushAt = "save" /\ pushEnt.in))
    /\ pushAt = "save" /\ ~pushEnt.in => Reminders!Of(who) = {}

\* Who was told on this day is noted, and the note is of this day.
PushNoted ==
  /\ \A u \in PushUser : told[u] <= 1
  /\ \A u \in PushUser : told[u] # 0 => u \in sentToday /\ lastDayKey = today
  /\ tick # "start" => dayKey = lastDayKey

PushIInv == PushTypeOK /\ PushOptingIn /\ PushNoted

LEMMA PushInitIInv ==
  ASSUME Reminders!Init
  PROVE  PushIInv
<1>1. Reminders!Unset \in PushPreference
  BY DEF Reminders!Unset, PushPreference
<1>2. PushTypeOK
  BY <1>1 DEF Reminders!Init, PushTypeOK
<1>3. PushOptingIn
  BY DEF Reminders!Init, PushOptingIn
<1>4. PushNoted
  BY DEF Reminders!Init, PushNoted
<1> QED
  BY <1>2, <1>3, <1>4 DEF PushIInv

-----------------------------------------------------------------------------
(* The requests                                                            *)

\* A request that leaves rows, scheduler and days alone.
LEMMA PushQuietPreserves ==
  ASSUME PushIInv, PushTypeOK', PushOptingIn', UNCHANGED <<today, Reminders!memory, told>>
  PROVE  PushIInv'
BY DEF PushIInv, PushNoted, Reminders!memory

LEMMA PushUpsertPreserves ==
  ASSUME PushIInv, NEW u \in PushUser, NEW b \in Browser, Reminders!upsertSubscription(u, b)
  PROVE  PushIInv'
<1>1. /\ pushAt = "idle" /\ owner' = [owner EXCEPT ![b] = u] /\ pushAt' = "optIn" /\ who' = u
      /\ UNCHANGED <<prefs, pushEnt, pushTorn, today, Reminders!memory, told>>
  BY DEF Reminders!upsertSubscription
<1>2. PushTypeOK'
  BY <1>1 DEF PushIInv, PushTypeOK
<1>3. \A c \in Browser : owner'[c] = owner[c] \/ owner'[c] = who'
  BY <1>1 DEF PushIInv, PushTypeOK
<1>4. PushOptingIn'
  BY <1>1, <1>3 DEF PushIInv, PushOptingIn
<1> QED
  BY <1>1, <1>2, <1>4, PushQuietPreserves

LEMMA PushOptInPreserves ==
  ASSUME PushIInv, Reminders!ensureOptedIn
  PROVE  PushIInv'
<1>1. /\ pushAt = "optIn" /\ pushAt' = "save" /\ pushEnt' = [prefs[who] EXCEPT !.row = TRUE, !.in = TRUE]
      /\ UNCHANGED <<owner, prefs, who, pushTorn, today, Reminders!memory, told>>
  BY DEF Reminders!ensureOptedIn
<1>2. prefs[who] \in PushPreference
  BY <1>1 DEF PushIInv, PushTypeOK
<1>3. pushEnt' \in PushPreference /\ pushEnt'.in
  BY <1>1, <1>2 DEF PushPreference
<1>4. PushTypeOK'
  BY <1>1, <1>3 DEF PushIInv, PushTypeOK
<1>5. PushOptingIn'
  BY <1>1, <1>3 DEF PushIInv, PushOptingIn
<1> QED
  BY <1>1, <1>4, <1>5, PushQuietPreserves

LEMMA PushDeletePreserves ==
  ASSUME PushIInv, NEW u \in PushUser, NEW b \in Browser, Reminders!deleteSubscription(u, b)
  PROVE  PushIInv'
<1>1. /\ pushAt = "idle" /\ owner' = [owner EXCEPT ![b] = IF owner[b] = u THEN Nil ELSE owner[b]]
      /\ pushAt' = "count" /\ who' = u /\ UNCHANGED <<prefs, pushEnt, pushTorn, today, Reminders!memory, told>>
  BY DEF Reminders!deleteSubscription
<1>2. owner' \in [Browser -> PushUser \cup {Nil}]
      /\ \A c \in Browser : owner'[c] = owner[c] \/ owner'[c] = Nil
  BY <1>1 DEF PushIInv, PushTypeOK
<1>3. PushTypeOK'
  BY <1>1, <1>2 DEF PushIInv, PushTypeOK
<1>4. PushOptingIn'
  BY <1>1, <1>2 DEF PushIInv, PushOptingIn
<1> QED
  BY <1>1, <1>3, <1>4, PushQuietPreserves

LEMMA PushReturnPreserves ==
  ASSUME PushIInv, Reminders!Return, prefs' \in [PushUser -> PushPreference], UNCHANGED <<owner, pushTorn, today, Reminders!memory, told>>,
         ~pushTorn => \A b \in Browser : owner[b] # Nil => prefs'[owner[b]].in
  PROVE  PushIInv'
<1>1. pushAt' = "idle" /\ pushEnt' = Reminders!Unset
  BY DEF Reminders!Return
<1>2. Reminders!Unset \in PushPreference
  BY DEF Reminders!Unset, PushPreference
<1>3. PushTypeOK'
  BY <1>1, <1>2 DEF PushIInv, PushTypeOK
<1>4. PushOptingIn'
  BY <1>1 DEF PushIInv, PushOptingIn
<1> QED
  BY <1>3, <1>4, PushQuietPreserves

LEMMA PushOptOutPreserves ==
  ASSUME PushIInv, Reminders!setOptedOut
  PROVE  PushIInv'
<1>1. pushAt = "count" /\ UNCHANGED <<owner, prefs, pushTorn, today, Reminders!memory, told>>
  BY DEF Reminders!setOptedOut
<1>2. CASE Reminders!Of(who) = {} /\ prefs[who].row
  <2>1. pushEnt' = [prefs[who] EXCEPT !.in = FALSE] /\ pushAt' = "save" /\ who' = who
    BY <1>2 DEF Reminders!setOptedOut
  <2>2. prefs[who] \in PushPreference
    BY <1>1 DEF PushIInv, PushTypeOK
  <2>3. pushEnt' \in PushPreference
    BY <2>1, <2>2 DEF PushPreference
  <2>4. PushTypeOK'
    BY <1>1, <2>1, <2>3 DEF PushIInv, PushTypeOK
  <2>5. Reminders!Of(who)' = {}
    BY <1>1, <1>2, <2>1 DEF Reminders!Of
  <2>6. PushOptingIn'
    BY <1>1, <2>1, <2>5 DEF PushIInv, PushOptingIn
  <2> QED
    BY <1>1, <2>4, <2>6, PushQuietPreserves
<1>3. CASE ~(Reminders!Of(who) = {} /\ prefs[who].row)
  <2>1. Reminders!Return
    BY <1>3 DEF Reminders!setOptedOut
  <2> QED
    BY <1>1, <2>1, PushReturnPreserves DEF PushIInv, PushTypeOK, PushOptingIn
<1> QED
  BY <1>2, <1>3

LEMMA PushUpdatePreserves ==
  ASSUME PushIInv, NEW u \in PushUser, NEW optedIn \in {"in", "out", "keep"}, NEW due \in BOOLEAN,
         Reminders!updatePreferences(u, optedIn, due)
  PROVE  PushIInv'
<1> DEFINE on == IF optedIn = "keep" THEN prefs[u].in ELSE optedIn = "in"
<1>1. /\ pushAt = "idle" /\ pushEnt' = [row |-> TRUE, in |-> on, due |-> due]
      /\ pushAt' = IF optedIn = "out" THEN "clear" ELSE "save"
      /\ who' = u /\ UNCHANGED <<owner, prefs, pushTorn, today, Reminders!memory, told>>
  BY DEF Reminders!updatePreferences
<1>2. prefs[u] \in PushPreference
  BY DEF PushIInv, PushTypeOK
<1>3. on \in BOOLEAN
  BY <1>2 DEF PushPreference
<1>4. pushAt' = "save" /\ ~on => ~prefs[u].in
  BY <1>1
<1> HIDE DEF on
<1>5. pushEnt' \in PushPreference /\ pushEnt'.in = on
  BY <1>1, <1>3 DEF PushPreference
<1>6. PushTypeOK'
  BY <1>1, <1>5 DEF PushIInv, PushTypeOK
<1>7. ASSUME ~pushTorn
      PROVE  \A b \in Browser : owner[b] # Nil => prefs[owner[b]].in
  BY <1>1, <1>7 DEF PushIInv, PushOptingIn
<1>8. ASSUME ~pushTorn, pushAt' = "save", ~on
      PROVE  Reminders!Of(who)' = {}
  BY <1>1, <1>4, <1>7, <1>8, PushAssumption DEF Reminders!Of
<1>9. PushOptingIn'
  BY <1>1, <1>5, <1>7, <1>8 DEF PushOptingIn
<1> QED
  BY <1>1, <1>6, <1>9, PushQuietPreserves

LEMMA PushClearPreserves ==
  ASSUME PushIInv, Reminders!ClearSubscriptions
  PROVE  PushIInv'
<1>1. /\ pushAt = "clear" /\ owner' = [b \in Browser |-> IF owner[b] = who THEN Nil ELSE owner[b]]
      /\ pushAt' = "save" /\ UNCHANGED <<prefs, who, pushEnt, pushTorn, today, Reminders!memory, told>>
  BY DEF Reminders!ClearSubscriptions
<1>2. /\ owner' \in [Browser -> PushUser \cup {Nil}] /\ who \in PushUser
      /\ \A b \in Browser : owner'[b] # who /\ (owner'[b] = owner[b] \/ owner'[b] = Nil)
  BY <1>1, PushAssumption DEF PushIInv, PushTypeOK
<1>3. PushTypeOK'
  BY <1>1, <1>2 DEF PushIInv, PushTypeOK
<1>4. Reminders!Of(who)' = {}
  BY <1>1, <1>2 DEF Reminders!Of
<1>5. PushOptingIn'
  BY <1>1, <1>2, <1>4 DEF PushIInv, PushOptingIn
<1> QED
  BY <1>1, <1>3, <1>5, PushQuietPreserves

LEMMA PushSavePreserves ==
  ASSUME PushIInv, Reminders!SavePreferences
  PROVE  PushIInv'
<1>1. /\ pushAt = "save" /\ prefs' = [prefs EXCEPT ![who] = pushEnt] /\ Reminders!Return
      /\ UNCHANGED <<owner, pushTorn, today, Reminders!memory, told>>
  BY DEF Reminders!SavePreferences
<1>2. who \in PushUser /\ pushEnt \in PushPreference /\ prefs \in [PushUser -> PushPreference]
  BY <1>1 DEF PushIInv, PushTypeOK
<1>3. /\ prefs' \in [PushUser -> PushPreference] /\ prefs'[who] = pushEnt
      /\ \A u \in PushUser \ {who} : prefs'[u] = prefs[u]
  BY <1>1, <1>2
<1>4. ASSUME ~pushTorn, NEW b \in Browser, owner[b] # Nil
      PROVE  prefs'[owner[b]].in
  <2>1. owner[b] \in PushUser
    BY <1>4 DEF PushIInv, PushTypeOK
  <2>2. CASE owner[b] = who
    BY <1>1, <1>3, <1>4, <2>2 DEF PushIInv, PushOptingIn, Reminders!Of
  <2>3. CASE owner[b] # who
    BY <1>3, <1>4, <2>1, <2>3 DEF PushIInv, PushOptingIn
  <2> QED
    BY <2>2, <2>3
<1> QED
  BY <1>1, <1>3, <1>4, PushReturnPreserves

-----------------------------------------------------------------------------
(* The scheduler, and the days                                             *)

\* Subscriptions may go while the requests rest.
LEMMA PushFewerPreserves ==
  ASSUME PushTypeOK, PushOptingIn, owner' \in [Browser -> PushUser \cup {Nil}],
         \A b \in Browser : owner'[b] = owner[b] \/ owner'[b] = Nil,
         told' \in [PushUser -> Nat], UNCHANGED <<prefs, Reminders!request, pushTorn>>
  PROVE  PushTypeOK' /\ PushOptingIn'
<1>1. UNCHANGED <<pushAt, who, pushEnt>>
  BY DEF Reminders!request
<1>2. PushTypeOK'
  BY <1>1 DEF PushTypeOK
<1>3. ASSUME Reminders!Of(who) = {}, pushAt = "save"
      PROVE  Reminders!Of(who)' = {}
  BY <1>1, <1>3, PushAssumption DEF PushTypeOK, Reminders!Of
<1>4. PushOptingIn'
  BY <1>1, <1>3 DEF PushOptingIn
<1> QED
  BY <1>2, <1>4

LEMMA PushTickPreserves ==
  ASSUME PushIInv, Reminders!Tick
  PROVE  PushIInv'
<1>1. /\ dayKey' = today /\ lastDayKey' = today
      /\ sentToday' = IF today # lastDayKey THEN {} ELSE sentToday
      /\ UNCHANGED <<owner, prefs, Reminders!request, pushTorn, today, told>>
  BY DEF Reminders!Tick
<1>2. PushTypeOK' /\ PushOptingIn'
  BY <1>1, PushFewerPreserves DEF PushIInv, PushTypeOK
<1>3. PushNoted'
  BY <1>1 DEF PushIInv, PushNoted
<1> QED
  BY <1>2, <1>3 DEF PushIInv

LEMMA PushNextUserPreserves ==
  ASSUME PushIInv, NEW u \in PushUser, Reminders!NextUser(u)
  PROVE  PushIInv'
<1>1. tick = "next" /\ UNCHANGED <<prefs, Reminders!request, pushTorn, today, lastDayKey, tick, dayKey, started>>
  BY DEF Reminders!NextUser
<1>2. CASE UNCHANGED <<owner, sentToday, told>>
  <2>1. PushTypeOK' /\ PushOptingIn'
    BY <1>1, <1>2, PushFewerPreserves DEF PushIInv, PushTypeOK
  <2>2. PushNoted'
    BY <1>1, <1>2 DEF PushIInv, PushNoted
  <2> QED
    BY <2>1, <2>2 DEF PushIInv
<1>3. CASE u \notin sentToday /\ sentToday' = sentToday \cup {u} /\ Reminders!notifyUser(u)
  <2>1. /\ owner' \in [Browser -> PushUser \cup {Nil}]
        /\ \A b \in Browser : owner'[b] = owner[b] \/ owner'[b] = Nil
    BY <1>3 DEF Reminders!notifyUser, Reminders!sendToSubscription, PushIInv, PushTypeOK
  <2>2. told' = told \/ (dayKey = today /\ told' = [told EXCEPT ![u] = told[u] + 1])
    BY <1>3 DEF Reminders!notifyUser
  <2>3. told[u] = 0
    BY <1>3 DEF PushIInv, PushTypeOK, PushNoted
  <2>4. /\ told' \in [PushUser -> Nat]
        /\ told'[u] \in {0, 1} /\ \A w \in PushUser \ {u} : told'[w] = told[w]
        /\ told'[u] # 0 => dayKey = today
    BY <2>2, <2>3 DEF PushIInv, PushTypeOK
  <2>5. PushTypeOK' /\ PushOptingIn'
    BY <1>1, <2>1, <2>4, PushFewerPreserves DEF PushIInv
  <2>6. PushNoted'
    BY <1>1, <1>3, <2>4 DEF PushIInv, PushNoted
  <2> QED
    BY <2>5, <2>6 DEF PushIInv
<1> QED
  BY <1>2, <1>3 DEF Reminders!NextUser

LEMMA PushMidnightPreserves ==
  ASSUME PushIInv, Reminders!Midnight
  PROVE  PushIInv'
<1>1. told' = [u \in PushUser |-> 0] /\ UNCHANGED <<owner, prefs, Reminders!request, pushTorn, Reminders!memory>>
  BY DEF Reminders!Midnight
<1>2. PushTypeOK' /\ PushOptingIn'
  BY <1>1, PushFewerPreserves DEF PushIInv, PushTypeOK
<1>3. PushNoted'
  BY <1>1 DEF PushIInv, PushNoted, Reminders!memory
<1> QED
  BY <1>2, <1>3 DEF PushIInv

LEMMA PushRestartPreserves ==
  ASSUME PushIInv, Reminders!Restart
  PROVE  PushIInv'
<1>1. /\ pushAt' = "idle" /\ pushEnt' = Reminders!Unset /\ pushTorn' = (pushTorn \/ pushAt # "idle")
      /\ tick' = "start" /\ told' = [u \in PushUser |-> 0] /\ UNCHANGED <<owner, prefs, today>>
  BY DEF Reminders!Restart, Reminders!Return
<1>2. Reminders!Unset \in PushPreference
  BY DEF Reminders!Unset, PushPreference
<1>3. PushTypeOK'
  BY <1>1, <1>2 DEF PushIInv, PushTypeOK
<1>4. PushOptingIn'
  BY <1>1 DEF PushIInv, PushOptingIn
<1>5. PushNoted'
  BY <1>1 DEF PushIInv, PushNoted
<1> QED
  BY <1>3, <1>4, <1>5 DEF PushIInv

LEMMA PushNextIInv ==
  ASSUME PushIInv, [Reminders!Next]_pushVars
  PROVE  PushIInv'
<1>1. ASSUME Reminders!listOptedInUserIdsForDueToday \/ Reminders!EndTick
      PROVE  PushIInv'
  <2>1. /\ UNCHANGED <<owner, prefs, Reminders!request, pushTorn, today, lastDayKey, sentToday, told>>
        /\ tick # "start" /\ (dayKey' = dayKey \/ tick' = "start")
    BY <1>1 DEF Reminders!listOptedInUserIdsForDueToday, Reminders!EndTick
  <2>2. PushTypeOK' /\ PushOptingIn'
    BY <2>1, PushFewerPreserves DEF PushIInv, PushTypeOK
  <2>3. PushNoted'
    BY <2>1 DEF PushIInv, PushNoted
  <2> QED
    BY <2>2, <2>3 DEF PushIInv
<1>2. CASE UNCHANGED pushVars
  <2>1. UNCHANGED <<owner, prefs, Reminders!request, pushTorn, today, Reminders!memory, told>>
    BY <1>2 DEF pushVars, Reminders!request, Reminders!memory
  <2>2. PushTypeOK' /\ PushOptingIn'
    BY <2>1, PushFewerPreserves DEF PushIInv, PushTypeOK
  <2>3. PushNoted'
    BY <2>1 DEF PushIInv, PushNoted, Reminders!memory
  <2> QED
    BY <2>2, <2>3 DEF PushIInv
<1>3. CASE Reminders!Next
  BY <1>1, <1>3, PushUpsertPreserves, PushDeletePreserves, PushUpdatePreserves,
     PushOptInPreserves, PushOptOutPreserves,
     PushClearPreserves, PushSavePreserves, PushTickPreserves, PushNextUserPreserves, PushMidnightPreserves,
     PushRestartPreserves
  DEF Reminders!Next
<1> QED
  BY <1>2, <1>3

-----------------------------------------------------------------------------
(* What follows                                                            *)

\* Whoever has a subscription is opted in when no request is under way.
LEMMA PushAreOptedIn == PushIInv => Reminders!SubscribedIsOptedIn
  BY DEF PushIInv, PushOptingIn, Reminders!SubscribedIsOptedIn

\* Nobody is told twice on a day.
LEMMA PushAreToldOnce == PushIInv => Reminders!ToldOnceADay
  BY DEF PushIInv, PushNoted, Reminders!ToldOnceADay

PushInFocus == focus = "push" => PushIInv

\* The invariant holds while reminders are sent.
LEMMA PushMoves == MachinesSpec => []PushInFocus
<1>1. MachinesInit => PushInFocus
  BY PushInitIInv, PushAssumption DEF MachinesInit, PushInFocus
<1>2. PushInFocus /\ [MachinesNext]_machineVars => PushInFocus'
  BY PushNextIInv, OneMoves, PushAssumption DEF PushInFocus
<1> QED
  BY <1>1, <1>2, PTL DEF MachinesSpec

\* Whoever has a subscription when no request is under way has opted in, unless a
\* request has died half way; and as long as the process is not started again on a
\* day, nobody is told twice of its tasks.
THEOREM PushHoldsCorrect == MachinesSpec => []PushHolds
<1>1. PushInFocus => PushHolds
  BY PushAreOptedIn, PushAreToldOnce, PushAssumption DEF PushInFocus, PushHolds
<1> QED
  BY <1>1, PushMoves, PTL

-----------------------------------------------------------------------------
(***************************************************************************)
(* Rights and projects.  Calls that may take rights are about one user, or *)
(* another administrator is there; and of two calls that assign projects   *)
(* to one user, one is between its two statements at a time.               *)
(***************************************************************************)

AccessEntity == [admin : BOOLEAN, mail : Mail \cup {Nil}]

AccessRecord ==
  [pc : {"find", "mail", "save", "projects", "delete", "assign", "remove"},
   op : {"create", "update", "remove"}, who : Account, dto : Bodies, ent : AccessEntity]

AccessTypeOK ==
  /\ admin \subseteq accessThere /\ accessThere \subseteq ever /\ ever \subseteq Account
  /\ adminSso \in Mail \cup {Nil}
  /\ mail \in [Account -> Mail \cup {Nil}]
  /\ projects \subseteq AccessProject /\ member \subseteq Account \X AccessProject
  /\ wanted \in [Account -> SUBSET AccessProject]
  /\ DOMAIN accessCall = Admin
  /\ \A c \in Admin : accessCall[c] = Rights!Nobody \/ accessCall[c] \in AccessRecord

\* What a call says of its place: a removal has one statement, and an entity has
\* the rights that were sent.
AccessInPlace(k) ==
  /\ k.pc = "remove" <=> k.op = "remove" /\ k.pc # "find"
  /\ k.pc \in {"projects", "delete", "assign"} => k.dto.projects # << >>
  /\ k.dto.admin = <<TRUE>> /\ k.op = "update" /\ k.pc # "find" => k.ent.admin

AccessPlaced == \A c \in Rights!UnderWay : AccessInPlace(accessCall[c])

AccessTakers == { c \in Rights!UnderWay : Rights!MayTake(accessCall[c].op, accessCall[c].dto) }

\* A call that leaves the rights of its user as they are, who has some.
AccessHarmless(k) ==
  /\ k.op = "update" /\ k.dto.admin = << >>
  /\ k.who \in admin
  /\ k.pc # "find" => k.ent.admin

\* Calls that may take rights are about one user, and another administrator is
\* there, or none of them takes any.
AccessAnotherRemains ==
  accessUp /\ ~clash =>
    /\ admin # {}
    /\ \A c, d \in AccessTakers : accessCall[c].who = accessCall[d].who
    /\ \A c \in AccessTakers : admin \ {accessCall[c].who} # {} \/ \A d \in AccessTakers : AccessHarmless(accessCall[d])

AccessAssigning(u) == { c \in Rights!UnderWay : accessCall[c].pc = "assign" /\ accessCall[c].who = u }

\* Of the projects that are still there.
AccessAssigned ==
  \A u \in Account \ accessTorn :
    /\ \A c, d \in AccessAssigning(u) : c = d
    /\ AccessAssigning(u) = {} => Rights!Of(u) = wanted[u]
    /\ \A c \in AccessAssigning(u) :
         LET P == accessCall[c].dto.projects[1]
         IN  Rights!Of(u) = {} /\ wanted[u] \subseteq P /\ P \cap projects \subseteq wanted[u]

AccessIInv == AccessTypeOK /\ AccessPlaced /\ AccessAnotherRemains /\ AccessAssigned

-----------------------------------------------------------------------------
(* The call                                                                *)

\* What a body gives, where it gives something.
LEMMA AccessBodyIs ==
  ASSUME NEW r \in Bodies
  PROVE  /\ r.admin \in {<< >>, <<TRUE>>, <<FALSE>>}
         /\ r.admin # << >> => r.admin[1] \in BOOLEAN
         /\ r.admin = <<TRUE>> => r.admin # << >> /\ r.admin[1]
         /\ r.mail # << >> => r.mail[1] \in Mail \cup {Nil}
         /\ r.projects # << >> => r.projects[1] \in SUBSET AccessProject
<1>1. r.admin \in {<< >>, <<TRUE>>, <<FALSE>>}
  BY AccessAssumption
<1>2. <<TRUE>>[1] = TRUE /\ <<FALSE>>[1] = FALSE /\ <<TRUE>> # << >>
  OBVIOUS
<1>3. r.admin # << >> => r.admin[1] \in BOOLEAN
  <2>1. CASE r.admin = <<TRUE>>
    <3>1. r.admin[1] = TRUE
      BY <1>2, <2>1
    <3> QED
      BY <3>1
  <2>2. CASE r.admin = <<FALSE>>
    <3>1. r.admin[1] = FALSE
      BY <1>2, <2>2
    <3> QED
      BY <3>1
  <2> QED
    BY <1>1, <2>1, <2>2
<1>4. r.admin = <<TRUE>> => r.admin # << >> /\ r.admin[1]
  BY <1>2
<1>5. ASSUME r.mail # << >>
      PROVE  r.mail[1] \in Mail \cup {Nil}
  <2>1. r.mail \in { <<m>> : m \in Mail \cup {Nil} }
    BY <1>5, AccessAssumption
  <2> QED
    BY <2>1
<1>6. ASSUME r.projects # << >>
      PROVE  r.projects[1] \in SUBSET AccessProject
  <2>1. r.projects \in { <<P>> : P \in SUBSET AccessProject }
    BY <1>6, AccessAssumption
  <2> QED
    BY <2>1
<1> QED
  BY <1>1, <1>3, <1>4, <1>5, <1>6

LEMMA AccessTakeIs ==
  ASSUME AccessTypeOK, NEW c \in Admin, NEW r, Rights!Take(c, r)
  PROVE  DOMAIN accessCall' = Admin /\ accessCall'[c] = r /\ \A d \in Admin \ {c} : accessCall'[d] = accessCall[d]
BY DEF AccessTypeOK, Rights!Take

LEMMA AccessNobodyIs == Rights!Nobody.pc = "idle" /\ Rights!Nobody \notin AccessRecord
<1>1. Rights!Nobody.pc = "idle"
  BY DEF Rights!Nobody
<1>2. ASSUME Rights!Nobody \in AccessRecord
      PROVE  FALSE
  BY <1>1, <1>2 DEF AccessRecord
<1> QED
  BY <1>1, <1>2

LEMMA AccessDoneIs ==
  ASSUME AccessTypeOK, NEW c \in Admin, Rights!Done(c)
  PROVE  /\ DOMAIN accessCall' = Admin /\ accessCall'[c] = Rights!Nobody
         /\ \A d \in Admin \ {c} : accessCall'[d] = accessCall[d]
BY AccessTakeIs DEF Rights!Done

LEMMA AccessRecordIs ==
  ASSUME NEW k \in AccessRecord, NEW to \in {"find", "mail", "save", "projects", "delete", "assign", "remove"}
  PROVE  LET r == [k EXCEPT !.pc = to]
         IN  /\ r \in AccessRecord /\ r.pc = to
             /\ r.op = k.op /\ r.who = k.who /\ r.dto = k.dto /\ r.ent = k.ent
BY DEF AccessRecord

LEMMA AccessGotoIs ==
  ASSUME AccessTypeOK, NEW c \in Admin, accessCall[c] \in AccessRecord,
         NEW to \in {"find", "mail", "save", "projects", "delete", "assign", "remove"}, Rights!Goto(c, to)
  PROVE  /\ DOMAIN accessCall' = Admin /\ accessCall'[c] \in AccessRecord /\ accessCall'[c].pc = to
         /\ accessCall'[c].op = accessCall[c].op /\ accessCall'[c].who = accessCall[c].who
         /\ accessCall'[c].dto = accessCall[c].dto /\ accessCall'[c].ent = accessCall[c].ent
         /\ \A d \in Admin \ {c} : accessCall'[d] = accessCall[d]
<1>1. accessCall' = [accessCall EXCEPT ![c] = [accessCall[c] EXCEPT !.pc = to]]
  BY DEF Rights!Goto
<1>2. /\ DOMAIN accessCall' = Admin /\ accessCall'[c] = [accessCall[c] EXCEPT !.pc = to]
      /\ \A d \in Admin \ {c} : accessCall'[d] = accessCall[d]
  BY <1>1 DEF AccessTypeOK
<1> DEFINE r == [accessCall[c] EXCEPT !.pc = to]
<1>3. /\ r \in AccessRecord /\ r.pc = to
      /\ r.op = accessCall[c].op /\ r.who = accessCall[c].who /\ r.dto = accessCall[c].dto /\ r.ent = accessCall[c].ent
  BY AccessRecordIs
<1> HIDE DEF r
<1> QED
  BY <1>2, <1>3 DEF r

\* A call that is somewhere has a record.
LEMMA AccessUnderWayIs ==
  ASSUME AccessTypeOK
  PROVE  \A c \in Admin : accessCall[c].pc # "idle" <=> accessCall[c] \in AccessRecord
BY AccessNobodyIs DEF AccessTypeOK, AccessRecord

-----------------------------------------------------------------------------
(* The parts of the invariant                                              *)

\* Call c moves on or ends.
AccessMayMove(c) ==
  /\ DOMAIN accessCall' = Admin /\ \A d \in Admin \ {c} : accessCall'[d] = accessCall[d]
  /\ \/ accessCall'[c] = Rights!Nobody
     \/ /\ accessCall'[c] \in AccessRecord /\ AccessInPlace(accessCall'[c])
        /\ accessCall'[c].op = accessCall[c].op /\ accessCall'[c].who = accessCall[c].who /\ accessCall'[c].dto = accessCall[c].dto

LEMMA AccessMovesPlaced ==
  ASSUME AccessTypeOK, AccessPlaced, NEW c \in Admin, accessCall[c] \in AccessRecord, AccessMayMove(c)
  PROVE  /\ AccessPlaced' /\ \A d \in Admin : accessCall'[d] = Rights!Nobody \/ accessCall'[d] \in AccessRecord
         /\ AccessTakers' \subseteq AccessTakers
         /\ \A d \in AccessTakers' : accessCall'[d].who = accessCall[d].who
<1>1. Rights!UnderWay' \subseteq Rights!UnderWay
  BY AccessUnderWayIs, AccessNobodyIs DEF AccessMayMove, Rights!UnderWay
<1>2. AccessPlaced'
  BY <1>1, AccessNobodyIs DEF AccessMayMove, AccessPlaced, Rights!UnderWay
<1>3. AccessTakers' \subseteq AccessTakers /\ \A d \in AccessTakers' : accessCall'[d].who = accessCall[d].who
  BY <1>1, AccessNobodyIs DEF AccessMayMove, AccessTakers, Rights!UnderWay
<1> QED
  BY <1>2, <1>3 DEF AccessMayMove, AccessTypeOK

\* Administrators are added only, and who was harmless is.
LEMMA AccessMoreRemain ==
  ASSUME AccessAnotherRemains, admin \subseteq admin', UNCHANGED <<accessUp, clash>>,
         AccessTakers' \subseteq AccessTakers, \A d \in AccessTakers' : accessCall'[d].who = accessCall[d].who,
         \A d \in AccessTakers' : AccessHarmless(accessCall[d]) => AccessHarmless(accessCall[d])'
  PROVE  AccessAnotherRemains'
BY DEF AccessAnotherRemains

\* A call that is not harmless takes the rights of its user.
LEMMA AccessOneTakes ==
  ASSUME AccessAnotherRemains, NEW c \in AccessTakers, ~AccessHarmless(accessCall[c]), admin' = admin \ {accessCall[c].who},
         UNCHANGED <<accessUp, clash>>, AccessTakers' \subseteq AccessTakers,
         \A d \in AccessTakers' : accessCall'[d].who = accessCall[d].who
  PROVE  AccessAnotherRemains'
BY DEF AccessAnotherRemains

\* The calls between their two statements, projects and assignments stay.
LEMMA AccessAssignedStays ==
  ASSUME AccessAssigned, UNCHANGED <<projects, member, wanted, accessTorn>>,
         \A u \in Account : AccessAssigning(u)' = AccessAssigning(u),
         \A u \in Account : \A c \in AccessAssigning(u) : accessCall'[c].dto = accessCall[c].dto
  PROVE  AccessAssigned'
BY DEF AccessAssigned, Rights!Of

\* A call that is not between its two statements, and does not get there.
LEMMA AccessAssigningStays ==
  ASSUME AccessTypeOK, NEW c \in Admin, accessCall[c].pc # "assign", accessCall'[c].pc # "assign",
         \A d \in Admin \ {c} : accessCall'[d] = accessCall[d]
  PROVE  /\ \A u \in Account : AccessAssigning(u)' = AccessAssigning(u)
         /\ \A u \in Account : \A d \in AccessAssigning(u) : accessCall'[d] = accessCall[d]
BY DEF AccessAssigning, Rights!UnderWay

-----------------------------------------------------------------------------
(* Steps that change no row                                                *)

LEMMA AccessMovePreserves ==
  ASSUME AccessIInv, NEW c \in Admin, accessCall[c] \in AccessRecord, AccessMayMove(c),
         accessCall[c].pc # "assign", accessCall'[c].pc # "assign",
         accessCall'[c] # Rights!Nobody => (AccessHarmless(accessCall[c]) => AccessHarmless(accessCall[c])'),
         UNCHANGED <<adminSso, accessUp, accessThere, admin, mail, projects, member, ever, wanted, accessTorn, clash>>
  PROVE  AccessIInv'
<1>1. AccessTypeOK /\ AccessPlaced /\ AccessAnotherRemains /\ AccessAssigned
  BY DEF AccessIInv
<1>2. /\ AccessPlaced' /\ \A d \in Admin : accessCall'[d] = Rights!Nobody \/ accessCall'[d] \in AccessRecord
      /\ AccessTakers' \subseteq AccessTakers
      /\ \A d \in AccessTakers' : accessCall'[d].who = accessCall[d].who
  BY <1>1, AccessMovesPlaced
<1>3. AccessTypeOK'
  BY <1>1, <1>2 DEF AccessTypeOK, AccessMayMove
<1>4. \A d \in AccessTakers' : d \in Admin /\ accessCall'[d] # Rights!Nobody
  BY AccessNobodyIs DEF AccessTakers, Rights!UnderWay
<1>5. \A d \in AccessTakers' : AccessHarmless(accessCall[d]) => AccessHarmless(accessCall[d])'
  BY <1>4 DEF AccessMayMove, AccessHarmless
<1>6. AccessAnotherRemains'
  BY <1>1, <1>2, <1>5, AccessMoreRemain
<1>7. AccessAssigned'
  BY <1>1, AccessAssigningStays, AccessAssignedStays DEF AccessMayMove
<1> QED
  BY <1>2, <1>3, <1>6, <1>7 DEF AccessIInv

LEMMA AccessFindPreserves ==
  ASSUME AccessIInv, NEW c \in Admin, Rights!FindUser(c)
  PROVE  AccessIInv'
<1> DEFINE k == accessCall[c]
<1>1. /\ k.pc = "find"
      /\ UNCHANGED <<adminSso, accessUp, accessThere, admin, mail, projects, member, ever, wanted, accessTorn, clash>>
  BY DEF Rights!FindUser
<1>2. AccessTypeOK /\ k \in AccessRecord
  BY <1>1, AccessUnderWayIs DEF AccessIInv
<1>3. k.op \in {"create", "update", "remove"} /\ k.dto \in Bodies /\ k.who \in Account
      /\ k.ent \in AccessEntity
  BY <1>2 DEF AccessRecord
<1>4. CASE k.op = "create" /\ k.who \notin accessThere
  <2>1. Rights!Goto(c, "mail")
    BY <1>1, <1>4 DEF Rights!FindUser
  <2>2. /\ DOMAIN accessCall' = Admin /\ accessCall'[c] \in AccessRecord /\ accessCall'[c].pc = "mail"
        /\ accessCall'[c].op = accessCall[c].op /\ accessCall'[c].who = accessCall[c].who
        /\ accessCall'[c].dto = accessCall[c].dto /\ accessCall'[c].ent = accessCall[c].ent
        /\ \A d \in Admin \ {c} : accessCall'[d] = accessCall[d]
    BY <1>2, <2>1, AccessGotoIs
  <2>3. AccessMayMove(c)
    BY <1>4, <2>2 DEF AccessMayMove, AccessInPlace
  <2> QED
    BY <1>1, <1>2, <1>4, <2>2, <2>3, AccessMovePreserves DEF AccessHarmless
<1>5. CASE k.op = "update" /\ k.who \in accessThere
  <2> DEFINE e == [admin |-> IF k.dto.admin = << >> THEN k.who \in admin ELSE k.dto.admin[1],
                   mail |-> mail[k.who]]
             r == [k EXCEPT !.pc = "mail", !.ent = e]
  <2>1. Rights!Take(c, r)
    BY <1>1, <1>5 DEF Rights!FindUser
  <2>2. /\ DOMAIN accessCall' = Admin /\ accessCall'[c] = r /\ \A d \in Admin \ {c} : accessCall'[d] = accessCall[d]
    BY <1>2, <2>1, AccessTakeIs
  <2>3. /\ k.dto.admin # << >> => k.dto.admin[1] \in BOOLEAN
        /\ k.dto.admin = <<TRUE>> => k.dto.admin # << >> /\ k.dto.admin[1]
    BY <1>3, AccessBodyIs
  <2>4. e \in AccessEntity
    <3>1. mail[k.who] \in Mail \cup {Nil}
      BY <1>2, <1>3 DEF AccessTypeOK
    <3>2. (IF k.dto.admin = << >> THEN k.who \in admin ELSE k.dto.admin[1]) \in BOOLEAN
      <4>1. CASE k.dto.admin = << >>
        BY <4>1
      <4>2. CASE k.dto.admin # << >>
        BY <2>3, <4>2
      <4> QED
        BY <4>1, <4>2
    <3> QED
      BY <3>1, <3>2 DEF AccessEntity
  <2>5. /\ k.dto.admin = << >> /\ k.who \in admin => e.admin
        /\ k.dto.admin = <<TRUE>> => e.admin
    <3>1. k.dto.admin = << >> => e.admin = (k.who \in admin)
      OBVIOUS
    <3>2. k.dto.admin # << >> => e.admin = k.dto.admin[1]
      OBVIOUS
    <3> HIDE DEF e, k
    <3> QED
      BY <2>3, <3>1, <3>2
  <2> HIDE DEF e
  <2>6. /\ r \in AccessRecord /\ r.pc = "mail" /\ r.ent = e
        /\ r.op = k.op /\ r.who = k.who /\ r.dto = k.dto
    BY <1>2, <2>4 DEF AccessRecord
  <2> HIDE DEF r, k
  <2>7. AccessMayMove(c)
    BY <1>5, <2>2, <2>5, <2>6 DEF AccessMayMove, AccessInPlace, k
  <2>8. AccessHarmless(accessCall[c]) => AccessHarmless(accessCall[c])'
    BY <1>1, <2>2, <2>5, <2>6 DEF AccessHarmless, k
  <2> QED
    BY <1>1, <1>2, <2>2, <2>6, <2>7, <2>8, AccessMovePreserves DEF k
<1>6. CASE k.op = "remove" /\ k.who \in accessThere
  <2>1. Rights!Goto(c, "remove")
    BY <1>1, <1>6 DEF Rights!FindUser
  <2>2. /\ DOMAIN accessCall' = Admin /\ accessCall'[c] \in AccessRecord /\ accessCall'[c].pc = "remove"
        /\ accessCall'[c].op = accessCall[c].op /\ accessCall'[c].who = accessCall[c].who
        /\ accessCall'[c].dto = accessCall[c].dto /\ accessCall'[c].ent = accessCall[c].ent
        /\ \A d \in Admin \ {c} : accessCall'[d] = accessCall[d]
    BY <1>2, <2>1, AccessGotoIs
  <2>3. AccessMayMove(c)
    BY <1>6, <2>2 DEF AccessMayMove, AccessInPlace
  <2> QED
    BY <1>1, <1>2, <1>6, <2>2, <2>3, AccessMovePreserves DEF AccessHarmless
<1>7. CASE Rights!Done(c)
  <2>1. /\ DOMAIN accessCall' = Admin /\ accessCall'[c] = Rights!Nobody /\ accessCall'[c].pc = "idle"
        /\ \A d \in Admin \ {c} : accessCall'[d] = accessCall[d]
    BY <1>2, <1>7, AccessDoneIs, AccessNobodyIs
  <2> QED
    BY <1>1, <1>2, <2>1, AccessMovePreserves DEF AccessMayMove
<1>8. \/ k.op = "create" /\ k.who \notin accessThere
      \/ k.op = "update" /\ k.who \in accessThere
      \/ k.op = "remove" /\ k.who \in accessThere
      \/ Rights!Done(c)
  BY DEF Rights!FindUser
<1> QED
  BY <1>4, <1>5, <1>6, <1>7, <1>8

LEMMA AccessCheckMailPreserves ==
  ASSUME AccessIInv, NEW c \in Admin, Rights!CheckMail(c)
  PROVE  AccessIInv'
<1> DEFINE k == accessCall[c]
<1>1. /\ k.pc = "mail"
      /\ UNCHANGED <<adminSso, accessUp, accessThere, admin, mail, projects, member, ever, wanted, accessTorn, clash>>
  BY DEF Rights!CheckMail
<1>2. AccessTypeOK /\ k \in AccessRecord /\ AccessInPlace(k)
  BY <1>1, AccessUnderWayIs DEF AccessIInv, AccessPlaced, Rights!UnderWay
<1>3. k.dto \in Bodies /\ k.ent \in AccessEntity
  BY <1>2 DEF AccessRecord
<1>4. CASE Rights!Goto(c, "save")
  <2>1. /\ DOMAIN accessCall' = Admin /\ accessCall'[c] \in AccessRecord /\ accessCall'[c].pc = "save"
        /\ accessCall'[c].op = accessCall[c].op /\ accessCall'[c].who = accessCall[c].who
        /\ accessCall'[c].dto = accessCall[c].dto /\ accessCall'[c].ent = accessCall[c].ent
        /\ \A d \in Admin \ {c} : accessCall'[d] = accessCall[d]
    BY <1>2, <1>4, AccessGotoIs
  <2>2. AccessMayMove(c)
    BY <1>1, <1>2, <2>1 DEF AccessMayMove, AccessInPlace
  <2> QED
    BY <1>1, <1>2, <2>1, <2>2, AccessMovePreserves DEF AccessHarmless
<1>5. CASE Rights!Done(c)
  <2>1. /\ DOMAIN accessCall' = Admin /\ accessCall'[c] = Rights!Nobody /\ accessCall'[c].pc = "idle"
        /\ \A d \in Admin \ {c} : accessCall'[d] = accessCall[d]
    BY <1>2, <1>5, AccessDoneIs, AccessNobodyIs
  <2> QED
    BY <1>1, <1>2, <2>1, AccessMovePreserves DEF AccessMayMove
<1>6. CASE k.dto.mail # << >> /\ Rights!Take(c, [k EXCEPT !.pc = "save", !.ent.mail = k.dto.mail[1]])
  <2> DEFINE m == k.dto.mail[1]
             r == [k EXCEPT !.pc = "save", !.ent.mail = m]
  <2>1. DOMAIN accessCall' = Admin /\ accessCall'[c] = r /\ \A d \in Admin \ {c} : accessCall'[d] = accessCall[d]
    BY <1>2, <1>6, AccessTakeIs
  <2>2. m \in Mail \cup {Nil}
    BY <1>3, <1>6, AccessBodyIs
  <2> HIDE DEF m
  <2>3. [k.ent EXCEPT !.mail = m] \in AccessEntity /\ [k.ent EXCEPT !.mail = m].admin = k.ent.admin
    BY <1>3, <2>2 DEF AccessEntity
  <2>4. /\ r \in AccessRecord /\ r.pc = "save" /\ r.ent.admin = k.ent.admin
        /\ r.op = k.op /\ r.who = k.who /\ r.dto = k.dto
    BY <1>2, <2>3 DEF AccessRecord
  <2> HIDE DEF r, k
  <2>5. AccessMayMove(c)
    BY <1>1, <1>2, <2>1, <2>4 DEF AccessMayMove, AccessInPlace, k
  <2>6. AccessHarmless(accessCall[c]) => AccessHarmless(accessCall[c])'
    BY <1>1, <2>1, <2>4 DEF AccessHarmless, k
  <2> QED
    BY <1>1, <1>2, <2>1, <2>4, <2>5, <2>6, AccessMovePreserves DEF k
<1> QED
  BY <1>4, <1>5, <1>6 DEF Rights!CheckMail

LEMMA AccessFindProjectsPreserves ==
  ASSUME AccessIInv, NEW c \in Admin, Rights!FindProjects(c)
  PROVE  AccessIInv'
<1>1. /\ accessCall[c].pc = "projects"
      /\ Rights!Goto(c, "delete") \/ Rights!Done(c)
      /\ UNCHANGED <<adminSso, accessUp, accessThere, admin, mail, projects, member, ever, wanted, accessTorn, clash>>
  BY DEF Rights!FindProjects
<1>2. AccessTypeOK /\ accessCall[c] \in AccessRecord /\ AccessInPlace(accessCall[c])
  BY <1>1, AccessUnderWayIs DEF AccessIInv, AccessPlaced, Rights!UnderWay
<1>3. CASE Rights!Goto(c, "delete")
  <2>1. /\ DOMAIN accessCall' = Admin /\ accessCall'[c] \in AccessRecord /\ accessCall'[c].pc = "delete"
        /\ accessCall'[c].op = accessCall[c].op /\ accessCall'[c].who = accessCall[c].who
        /\ accessCall'[c].dto = accessCall[c].dto /\ accessCall'[c].ent = accessCall[c].ent
        /\ \A d \in Admin \ {c} : accessCall'[d] = accessCall[d]
    BY <1>2, <1>3, AccessGotoIs
  <2>2. AccessMayMove(c)
    BY <1>1, <1>2, <2>1 DEF AccessMayMove, AccessInPlace
  <2> QED
    BY <1>1, <1>2, <2>1, <2>2, AccessMovePreserves DEF AccessHarmless
<1>4. CASE Rights!Done(c)
  <2>1. /\ DOMAIN accessCall' = Admin /\ accessCall'[c] = Rights!Nobody /\ accessCall'[c].pc = "idle"
        /\ \A d \in Admin \ {c} : accessCall'[d] = accessCall[d]
    BY <1>2, <1>4, AccessDoneIs, AccessNobodyIs
  <2> QED
    BY <1>1, <1>2, <2>1, AccessMovePreserves DEF AccessMayMove
<1> QED
  BY <1>1, <1>3, <1>4

-----------------------------------------------------------------------------
(* A call begins                                                           *)

\* Whoever sends it is an administrator, and is another than its user or gives
\* them no rights to lose.
LEMMA AccessStartPreserves ==
  ASSUME AccessIInv, NEW c \in Admin, Rights!StartCall(c)
  PROVE  AccessIInv'
<1>1. /\ accessUp /\ accessCall[c].pc = "idle"
      /\ UNCHANGED <<adminSso, accessUp, accessThere, admin, mail, projects, member, ever, wanted, accessTorn>>
  BY DEF Rights!StartCall
<1>2. PICK by \in admin, u \in Account, what \in {"create", "update", "remove"}, body \in Bodies :
        /\ ~Rights!TakesOwnRights(by, u, what, body)
        /\ Rights!Take(c, [pc |-> "find", op |-> what, who |-> u, dto |-> body,
                    ent |-> [admin |-> body.admin = <<TRUE>>, mail |-> Nil]])
        /\ clash' = (clash \/ (Rights!MayTake(what, body) /\ \E d \in Rights!UnderWay :
                       accessCall[d].who # u /\ Rights!MayTake(accessCall[d].op, accessCall[d].dto)))
  BY DEF Rights!StartCall
<1> DEFINE e == [admin |-> body.admin = <<TRUE>>, mail |-> Nil]
           k == [pc |-> "find", op |-> what, who |-> u, dto |-> body, ent |-> e]
<1>3. AccessTypeOK /\ AccessPlaced /\ AccessAnotherRemains /\ AccessAssigned
  BY DEF AccessIInv
<1>4. /\ DOMAIN accessCall' = Admin /\ accessCall'[c] = k /\ \A d \in Admin \ {c} : accessCall'[d] = accessCall[d]
  BY <1>2, <1>3, AccessTakeIs
<1>5. e \in AccessEntity
  <2>1. (body.admin = <<TRUE>>) \in BOOLEAN
    OBVIOUS
  <2> QED
    BY <2>1 DEF AccessEntity
<1> HIDE DEF e
<1>6. /\ k \in AccessRecord /\ k.pc = "find" /\ k.op = what /\ k.who = u /\ k.dto = body
  BY <1>5 DEF AccessRecord
<1> HIDE DEF k
<1>7. AccessTypeOK'
  BY <1>1, <1>3, <1>4, <1>6 DEF AccessTypeOK
<1>8. Rights!UnderWay' = Rights!UnderWay \cup {c} /\ c \notin Rights!UnderWay
  BY <1>1, <1>4, <1>6 DEF Rights!UnderWay
<1>9. AccessPlaced'
  <2>1. AccessInPlace(k)
    BY <1>6 DEF AccessInPlace
  <2>2. \A d \in Rights!UnderWay : d # c /\ accessCall'[d] = accessCall[d]
    BY <1>4, <1>8 DEF Rights!UnderWay
  <2> QED
    BY <1>3, <1>4, <1>8, <2>1, <2>2 DEF AccessPlaced
<1>10. AccessAssigned'
  BY <1>1, <1>3, <1>4, <1>6, AccessAssigningStays, AccessAssignedStays
<1>11. /\ \A d \in AccessTakers' : d = c \/ d \in AccessTakers
       /\ c \in AccessTakers' => Rights!MayTake(what, body)
       /\ \A d \in AccessTakers : d \in Rights!UnderWay /\ d # c /\ accessCall'[d] = accessCall[d]
  BY <1>4, <1>6, <1>8 DEF AccessTakers, Rights!UnderWay
<1>12. AccessAnotherRemains'
  <2>1. CASE ~clash /\ ~clash'
    <3>1. /\ admin # {}
          /\ \A d, f \in AccessTakers : accessCall[d].who = accessCall[f].who
          /\ \A d \in AccessTakers : admin \ {accessCall[d].who} # {} \/ \A f \in AccessTakers : AccessHarmless(accessCall[f])
      BY <1>1, <1>3, <2>1 DEF AccessAnotherRemains
    <3>2. \A d \in AccessTakers : AccessHarmless(accessCall[d])' <=> AccessHarmless(accessCall[d])
      BY <1>1, <1>11 DEF AccessHarmless
    <3>3. CASE c \notin AccessTakers'
      <4>1. \A d \in AccessTakers' : d \in AccessTakers /\ accessCall'[d] = accessCall[d]
        BY <1>11, <3>3
      <4> QED
        BY <1>1, <3>1, <3>2, <4>1 DEF AccessAnotherRemains
    <3>4. CASE c \in AccessTakers'
      <4>1. \A d \in AccessTakers : accessCall[d].who = u
        BY <1>2, <1>11, <2>1, <3>4 DEF AccessTakers
      <4>2. \A d \in AccessTakers' : accessCall'[d].who = u
        BY <1>4, <1>6, <1>11, <4>1
      <4>3. CASE by # u
        <5>1. admin' \ {u} # {} /\ admin' # {}
          BY <1>1, <4>3
        <5> QED
          BY <4>2, <5>1 DEF AccessAnotherRemains
      <4>4. CASE by = u
        <5>1. what = "update" /\ body.admin = << >>
          BY <1>2, <1>11, <3>4, <4>4, AccessBodyIs DEF Rights!TakesOwnRights, Rights!MayTake
        <5>2. AccessHarmless(accessCall[c])'
          BY <1>1, <1>4, <1>6, <4>4, <5>1 DEF AccessHarmless
        <5>3. admin \ {u} # {} \/ \A d \in AccessTakers' : AccessHarmless(accessCall[d])'
          BY <1>11, <3>1, <3>2, <4>1, <5>2
        <5> QED
          BY <1>1, <3>1, <4>2, <5>3 DEF AccessAnotherRemains
      <4> QED
        BY <4>3, <4>4
    <3> QED
      BY <3>3, <3>4
  <2> QED
    BY <1>2, <2>1 DEF AccessAnotherRemains
<1> QED
  BY <1>7, <1>9, <1>10, <1>12 DEF AccessIInv

-----------------------------------------------------------------------------
(* Steps on the rows of users                                              *)

\* A new user has no rights to lose; of another they are taken by a call that
\* may take them.
LEMMA AccessSavePreserves ==
  ASSUME AccessIInv, NEW c \in Admin, Rights!SaveUser(c)
  PROVE  AccessIInv'
<1> DEFINE k == accessCall[c]
<1>1. /\ k.pc = "save"
      /\ UNCHANGED <<adminSso, accessUp, orgs, projects, member, accessCalls, wanted, accessTorn, clash>>
  BY DEF Rights!SaveUser
<1>2. AccessTypeOK /\ AccessPlaced /\ AccessAnotherRemains /\ AccessAssigned
  BY DEF AccessIInv
<1>3. k \in AccessRecord /\ AccessInPlace(k) /\ c \in Rights!UnderWay
  BY <1>1, <1>2, AccessUnderWayIs DEF AccessPlaced, Rights!UnderWay
<1>4. k.who \in Account /\ k.dto \in Bodies /\ k.ent \in AccessEntity /\ k.op \in {"create", "update", "remove"}
  BY <1>3 DEF AccessRecord
<1>5. CASE Rights!Done(c) /\ UNCHANGED <<accessThere, admin, mail, ever>>
  <2>1. /\ DOMAIN accessCall' = Admin /\ accessCall'[c] = Rights!Nobody /\ accessCall'[c].pc = "idle"
        /\ \A d \in Admin \ {c} : accessCall'[d] = accessCall[d]
    BY <1>2, <1>5, AccessDoneIs, AccessNobodyIs
  <2> QED
    BY <1>1, <1>3, <1>5, <2>1, AccessMovePreserves DEF AccessMayMove
<1>6. CASE /\ ~(k.op = "create" /\ k.who \in ever)
           /\ accessThere' = accessThere \cup {k.who}
           /\ ever' = ever \cup {k.who}
           /\ admin' = IF k.ent.admin THEN admin \cup {k.who} ELSE admin \ {k.who}
           /\ mail' = [mail EXCEPT ![k.who] = k.ent.mail]
           /\ \/ Rights!Done(c)
              \/ k.dto.projects # << >> /\ Rights!Goto(c, "projects")
  <2>1. /\ AccessMayMove(c)
        /\ accessCall'[c].pc \notin {"assign", "find"}
        /\ accessCall'[c] # Rights!Nobody => accessCall'[c].ent = k.ent /\ accessCall'[c].op = k.op
    <3>1. CASE Rights!Done(c)
      BY <1>2, <3>1, AccessDoneIs, AccessNobodyIs DEF AccessMayMove
    <3>2. CASE k.dto.projects # << >> /\ Rights!Goto(c, "projects")
      <4>1. /\ DOMAIN accessCall' = Admin /\ accessCall'[c] \in AccessRecord /\ accessCall'[c].pc = "projects"
            /\ accessCall'[c].op = accessCall[c].op /\ accessCall'[c].who = accessCall[c].who
            /\ accessCall'[c].dto = accessCall[c].dto /\ accessCall'[c].ent = accessCall[c].ent
            /\ \A d \in Admin \ {c} : accessCall'[d] = accessCall[d]
        BY <1>2, <1>3, <3>2, AccessGotoIs
      <4>2. AccessMayMove(c)
        BY <1>1, <1>3, <3>2, <4>1 DEF AccessMayMove, AccessInPlace
      <4> QED
        BY <4>1, <4>2
    <3> QED
      BY <1>6, <3>1, <3>2
  <2>2. /\ AccessPlaced' /\ \A d \in Admin : accessCall'[d] = Rights!Nobody \/ accessCall'[d] \in AccessRecord
        /\ AccessTakers' \subseteq AccessTakers /\ \A d \in AccessTakers' : accessCall'[d].who = accessCall[d].who
    BY <1>2, <1>3, <2>1, AccessMovesPlaced
  <2>3. mail' \in [Account -> Mail \cup {Nil}]
    <3>1. k.ent.mail \in Mail \cup {Nil}
      BY <1>4 DEF AccessEntity
    <3> QED
      BY <1>2, <1>4, <1>6, <3>1 DEF AccessTypeOK
  <2>4. AccessTypeOK'
    <3>1. admin' \subseteq accessThere' /\ accessThere' \subseteq ever' /\ ever' \subseteq Account
      BY <1>2, <1>4, <1>6 DEF AccessTypeOK
    <3> QED
      BY <1>1, <1>2, <2>1, <2>2, <2>3, <3>1 DEF AccessTypeOK, AccessMayMove
  <2>5. AccessAssigned'
    BY <1>1, <1>2, <2>1, AccessAssigningStays, AccessAssignedStays DEF AccessMayMove
  <2>6. CASE k.ent.admin
    <3>1. admin' = admin \cup {k.who}
      BY <1>6, <2>6
    <3>2. \A d \in AccessTakers' : d \in Admin /\ accessCall'[d] # Rights!Nobody
      BY AccessNobodyIs DEF AccessTakers, Rights!UnderWay
    <3>3. \A d \in AccessTakers' : AccessHarmless(accessCall[d]) => AccessHarmless(accessCall[d])'
      BY <2>1, <2>6, <3>1, <3>2 DEF AccessMayMove, AccessHarmless
    <3> QED
      BY <1>1, <1>2, <2>2, <2>4, <2>5, <3>1, <3>3, AccessMoreRemain DEF AccessIInv
  <2>7. CASE ~k.ent.admin /\ k.op = "create"
    <3>1. admin' = admin
      BY <1>2, <1>6, <2>7 DEF AccessTypeOK
    <3>2. \A d \in AccessTakers' : d \in Admin /\ accessCall'[d] # Rights!Nobody /\ (d = c => k.op = "update" \/ k.op = "remove")
      BY <2>1, AccessNobodyIs DEF AccessTakers, Rights!UnderWay, Rights!MayTake
    <3>3. \A d \in AccessTakers' : AccessHarmless(accessCall[d]) => AccessHarmless(accessCall[d])'
      BY <2>1, <2>7, <3>1, <3>2 DEF AccessMayMove, AccessHarmless
    <3> QED
      BY <1>1, <1>2, <2>2, <2>4, <2>5, <3>1, <3>3, AccessMoreRemain DEF AccessIInv
  <2>8. CASE ~k.ent.admin /\ k.op # "create"
    <3>1. k.op = "update" /\ k.dto.admin # <<TRUE>>
      BY <1>1, <1>3, <1>4, <2>8 DEF AccessInPlace
    <3>2. c \in AccessTakers /\ ~AccessHarmless(k)
      BY <1>1, <1>3, <2>8, <3>1 DEF AccessTakers, Rights!MayTake, AccessHarmless
    <3>3. admin' = admin \ {k.who}
      BY <1>6, <2>8
    <3>4. AccessAnotherRemains'
      BY <1>1, <1>2, <2>2, <3>2, <3>3, AccessOneTakes
    <3> QED
      BY <2>2, <2>4, <2>5, <3>4 DEF AccessIInv
  <2> QED
    BY <2>6, <2>7, <2>8
<1>7. \/ Rights!Done(c) /\ UNCHANGED <<accessThere, admin, mail, ever>>
      \/ /\ ~(k.op = "create" /\ k.who \in ever)
         /\ accessThere' = accessThere \cup {k.who}
         /\ ever' = ever \cup {k.who}
         /\ admin' = IF k.ent.admin THEN admin \cup {k.who} ELSE admin \ {k.who}
         /\ mail' = [mail EXCEPT ![k.who] = k.ent.mail]
         /\ \/ Rights!Done(c)
            \/ k.dto.projects # << >> /\ Rights!Goto(c, "projects")
  BY DEF Rights!SaveUser
<1> QED
  BY <1>5, <1>6, <1>7

LEMMA AccessRemoveUserPreserves ==
  ASSUME AccessIInv, NEW c \in Admin, Rights!RemoveUser(c)
  PROVE  AccessIInv'
<1> DEFINE k == accessCall[c]
<1>1. /\ k.pc = "remove" /\ accessThere' = accessThere \ {k.who} /\ admin' = admin \ {k.who}
      /\ mail' = [mail EXCEPT ![k.who] = Nil]
      /\ member' = member \ ({k.who} \X AccessProject)
      /\ wanted' = [wanted EXCEPT ![k.who] = {}]
      /\ accessTorn' = IF Rights!AssignsToo(c, k.who) THEN accessTorn \cup {k.who} ELSE accessTorn
      /\ Rights!Done(c)
      /\ UNCHANGED <<adminSso, accessUp, projects, ever, clash>>
  BY DEF Rights!RemoveUser
<1>2. AccessTypeOK /\ AccessPlaced /\ AccessAnotherRemains /\ AccessAssigned
  BY DEF AccessIInv
<1>3. k \in AccessRecord /\ AccessInPlace(k) /\ c \in Rights!UnderWay /\ k.who \in Account
  BY <1>1, <1>2, AccessUnderWayIs DEF AccessPlaced, Rights!UnderWay, AccessRecord
<1>4. /\ DOMAIN accessCall' = Admin /\ accessCall'[c] = Rights!Nobody /\ accessCall'[c].pc = "idle"
      /\ \A d \in Admin \ {c} : accessCall'[d] = accessCall[d]
  BY <1>1, <1>2, AccessDoneIs, AccessNobodyIs
<1>5. /\ AccessPlaced' /\ \A d \in Admin : accessCall'[d] = Rights!Nobody \/ accessCall'[d] \in AccessRecord
      /\ AccessTakers' \subseteq AccessTakers /\ \A d \in AccessTakers' : accessCall'[d].who = accessCall[d].who
  BY <1>2, <1>3, <1>4, AccessMovesPlaced DEF AccessMayMove
<1>6. AccessTypeOK'
  <2>1. mail' \in [Account -> Mail \cup {Nil}] /\ wanted' \in [Account -> SUBSET AccessProject]
    BY <1>1, <1>2, <1>3 DEF AccessTypeOK
  <2> QED
    BY <1>1, <1>2, <1>4, <1>5, <2>1 DEF AccessTypeOK
<1>7. c \in AccessTakers /\ ~AccessHarmless(k)
  BY <1>1, <1>3 DEF AccessTakers, Rights!MayTake, AccessInPlace, AccessHarmless
<1>8. AccessAnotherRemains'
  BY <1>1, <1>2, <1>5, <1>7, AccessOneTakes
<1>9. /\ \A u \in Account : AccessAssigning(u)' = AccessAssigning(u)
      /\ \A u \in Account : \A d \in AccessAssigning(u) : accessCall'[d] = accessCall[d]
  BY <1>1, <1>2, <1>4, AccessAssigningStays
<1>10. AccessAssigned'
  <2> SUFFICES ASSUME NEW u \in Account \ accessTorn'
               PROVE  /\ \A d, f \in AccessAssigning(u)' : d = f
                      /\ AccessAssigning(u)' = {} => Rights!Of(u)' = wanted'[u]
                      /\ \A d \in AccessAssigning(u)' :
                           LET P == accessCall'[d].dto.projects[1]
                           IN  /\ Rights!Of(u)' = {} /\ wanted'[u] \subseteq P
                               /\ P \cap projects' \subseteq wanted'[u]
    BY DEF AccessAssigned
  <2>1. u \in Account \ accessTorn
    BY <1>1
  <2>2. CASE u = k.who
    <3>1. AccessAssigning(u) = {}
      <4>1. ~Rights!AssignsToo(c, k.who)
        BY <1>1, <2>2
      <4> QED
        BY <1>1, <2>2, <4>1 DEF Rights!AssignsToo, AccessAssigning
    <3>2. Rights!Of(u)' = {} /\ wanted'[u] = {}
      BY <1>1, <1>2, <2>2 DEF Rights!Of, AccessTypeOK
    <3> QED
      BY <1>9, <3>1, <3>2
  <2>3. CASE u # k.who
    <3>1. Rights!Of(u)' = Rights!Of(u) /\ wanted'[u] = wanted[u]
      BY <1>1, <1>2, <2>3 DEF Rights!Of, AccessTypeOK
    <3> QED
      BY <1>1, <1>2, <1>9, <2>1, <3>1 DEF AccessAssigned
  <2> QED
    BY <2>2, <2>3
<1> QED
  BY <1>5, <1>6, <1>8, <1>10 DEF AccessIInv

-----------------------------------------------------------------------------
(* Steps on the projects of users                                          *)

LEMMA AccessDeletePreserves ==
  ASSUME AccessIInv, NEW c \in Admin, Rights!DeleteMembers(c)
  PROVE  AccessIInv'
<1> DEFINE k == accessCall[c]
           P == k.dto.projects[1]
<1>1. /\ k.pc = "delete"
      /\ member' = member \ ({k.who} \X AccessProject)
      /\ wanted' = [wanted EXCEPT ![k.who] = P]
      /\ accessTorn' = IF Rights!AssignsToo(c, k.who) THEN accessTorn \cup {k.who} ELSE accessTorn \ {k.who}
      /\ \/ P = {} /\ Rights!Done(c)
         \/ Rights!Goto(c, "assign")
      /\ UNCHANGED <<adminSso, accessUp, accessThere, admin, mail, projects, ever, clash>>
  BY DEF Rights!DeleteMembers
<1>2. AccessTypeOK /\ AccessPlaced /\ AccessAnotherRemains /\ AccessAssigned
  BY DEF AccessIInv
<1>3. k \in AccessRecord /\ AccessInPlace(k) /\ c \in Rights!UnderWay /\ k.who \in Account /\ k.dto \in Bodies
  BY <1>1, <1>2, AccessUnderWayIs DEF AccessPlaced, Rights!UnderWay, AccessRecord
<1>4. P \in SUBSET AccessProject
  BY <1>1, <1>3, AccessBodyIs DEF AccessInPlace
<1>5. /\ DOMAIN accessCall' = Admin /\ \A d \in Admin \ {c} : accessCall'[d] = accessCall[d]
      /\ \/ P = {} /\ accessCall'[c] = Rights!Nobody /\ accessCall'[c].pc = "idle"
         \/ /\ accessCall'[c] \in AccessRecord /\ accessCall'[c].pc = "assign"
            /\ accessCall'[c].op = k.op /\ accessCall'[c].who = k.who
            /\ accessCall'[c].dto = k.dto /\ accessCall'[c].ent = k.ent
  <2>1. CASE P = {} /\ Rights!Done(c)
    BY <1>2, <2>1, AccessDoneIs, AccessNobodyIs
  <2>2. CASE Rights!Goto(c, "assign")
    BY <1>2, <1>3, <2>2, AccessGotoIs
  <2> QED
    BY <1>1, <2>1, <2>2
<1>6. AccessMayMove(c)
  BY <1>1, <1>3, <1>5 DEF AccessMayMove, AccessInPlace
<1>7. /\ AccessPlaced' /\ \A d \in Admin : accessCall'[d] = Rights!Nobody \/ accessCall'[d] \in AccessRecord
      /\ AccessTakers' \subseteq AccessTakers /\ \A d \in AccessTakers' : accessCall'[d].who = accessCall[d].who
  BY <1>2, <1>3, <1>6, AccessMovesPlaced
<1> HIDE DEF P
<1>8. AccessTypeOK'
  <2>1. wanted' \in [Account -> SUBSET AccessProject]
    BY <1>1, <1>2, <1>3, <1>4 DEF AccessTypeOK
  <2> QED
    BY <1>1, <1>2, <1>5, <1>7, <2>1 DEF AccessTypeOK
<1>9. AccessAnotherRemains'
  <2>1. \A d \in AccessTakers' : d \in Admin /\ accessCall'[d].pc # "idle"
    BY DEF AccessTakers, Rights!UnderWay
  <2>2. \A d \in AccessTakers' : AccessHarmless(accessCall[d]) => AccessHarmless(accessCall[d])'
    BY <1>1, <1>5, <2>1 DEF AccessHarmless
  <2> QED
    BY <1>1, <1>2, <1>7, <2>2, AccessMoreRemain
<1>10. AccessAssigned'
  <2> SUFFICES ASSUME NEW u \in Account \ accessTorn'
               PROVE  /\ \A d, f \in AccessAssigning(u)' : d = f
                      /\ AccessAssigning(u)' = {} => Rights!Of(u)' = wanted'[u]
                      /\ \A d \in AccessAssigning(u)' :
                           LET Q == accessCall'[d].dto.projects[1]
                           IN  /\ Rights!Of(u)' = {} /\ wanted'[u] \subseteq Q
                               /\ Q \cap projects' \subseteq wanted'[u]
    BY DEF AccessAssigned
  <2>1. CASE u = k.who
    <3>1. AccessAssigning(u) = {}
      <4>1. ~Rights!AssignsToo(c, k.who)
        BY <1>1, <2>1
      <4> QED
        BY <1>1, <2>1, <4>1 DEF Rights!AssignsToo, AccessAssigning
    <3>2. Rights!Of(u)' = {} /\ wanted'[u] = P
      BY <1>1, <1>2, <1>3, <2>1 DEF Rights!Of, AccessTypeOK
    <3>3. CASE P = {} /\ accessCall'[c].pc = "idle"
      <4>1. AccessAssigning(u)' = {}
        BY <1>5, <3>1, <3>3 DEF AccessAssigning, Rights!UnderWay
      <4> QED
        BY <3>2, <3>3, <4>1
    <3>4. CASE accessCall'[c].pc = "assign" /\ accessCall'[c].who = k.who /\ accessCall'[c].dto = k.dto
      <4>1. AccessAssigning(u)' = {c}
        BY <1>5, <2>1, <3>1, <3>4 DEF AccessAssigning, Rights!UnderWay
      <4> QED
        BY <3>2, <3>4, <4>1 DEF P
    <3> QED
      BY <1>5, <3>3, <3>4
  <2>2. CASE u # k.who
    <3>1. u \in Account \ accessTorn /\ Rights!Of(u)' = Rights!Of(u) /\ wanted'[u] = wanted[u]
      BY <1>1, <1>2, <2>2 DEF Rights!Of, AccessTypeOK
    <3>2. AccessAssigning(u)' = AccessAssigning(u) /\ \A d \in AccessAssigning(u) : accessCall'[d] = accessCall[d]
      BY <1>1, <1>5, <2>2 DEF AccessAssigning, Rights!UnderWay
    <3> QED
      BY <1>1, <1>2, <3>1, <3>2 DEF AccessAssigned
  <2> QED
    BY <2>1, <2>2
<1> QED
  BY <1>7, <1>8, <1>9, <1>10 DEF AccessIInv

LEMMA AccessSaveMembersPreserves ==
  ASSUME AccessIInv, NEW c \in Admin, Rights!SaveMembers(c)
  PROVE  AccessIInv'
<1> DEFINE k == accessCall[c]
           P == k.dto.projects[1]
           new == {k.who} \X P
<1>1. /\ k.pc = "assign" /\ Rights!Done(c)
      /\ \/ P \subseteq projects /\ member' = member \cup new /\ accessTorn' = accessTorn
         \/ accessTorn' = accessTorn \cup {k.who} /\ member' = member
      /\ UNCHANGED <<adminSso, accessUp, accessThere, admin, mail, projects, ever, wanted, clash>>
  BY DEF Rights!SaveMembers
<1>2. AccessTypeOK /\ AccessPlaced /\ AccessAnotherRemains /\ AccessAssigned
  BY DEF AccessIInv
<1>3. k \in AccessRecord /\ AccessInPlace(k) /\ c \in Rights!UnderWay /\ k.who \in Account /\ k.dto \in Bodies
  BY <1>1, <1>2, AccessUnderWayIs DEF AccessPlaced, Rights!UnderWay, AccessRecord
<1>4. P \in SUBSET AccessProject
  BY <1>1, <1>3, AccessBodyIs DEF AccessInPlace
<1>5. /\ DOMAIN accessCall' = Admin /\ accessCall'[c] = Rights!Nobody /\ accessCall'[c].pc = "idle"
      /\ \A d \in Admin \ {c} : accessCall'[d] = accessCall[d]
  BY <1>1, <1>2, AccessDoneIs, AccessNobodyIs
<1>6. /\ AccessPlaced' /\ \A d \in Admin : accessCall'[d] = Rights!Nobody \/ accessCall'[d] \in AccessRecord
      /\ AccessTakers' \subseteq AccessTakers /\ \A d \in AccessTakers' : accessCall'[d].who = accessCall[d].who
  BY <1>2, <1>3, <1>5, AccessMovesPlaced DEF AccessMayMove
<1> HIDE DEF P
<1>7. AccessTypeOK'
  BY <1>1, <1>2, <1>3, <1>4, <1>5, <1>6 DEF AccessTypeOK
<1>8. AccessAnotherRemains'
  <2>1. \A d \in AccessTakers' : d # c /\ d \in Admin
    BY <1>5 DEF AccessTakers, Rights!UnderWay
  <2>2. \A d \in AccessTakers' : AccessHarmless(accessCall[d]) => AccessHarmless(accessCall[d])'
    BY <1>1, <1>5, <2>1 DEF AccessHarmless
  <2> QED
    BY <1>1, <1>2, <1>6, <2>2, AccessMoreRemain
<1>9. c \in AccessAssigning(k.who)
  BY <1>1, <1>3 DEF AccessAssigning
<1>10. \A u \in Account : AccessAssigning(u)' = AccessAssigning(u) \ {c}
  BY <1>5 DEF AccessAssigning, Rights!UnderWay
<1>11. AccessAssigned'
  <2> SUFFICES ASSUME NEW u \in Account \ accessTorn'
               PROVE  /\ \A d, f \in AccessAssigning(u)' : d = f
                      /\ AccessAssigning(u)' = {} => Rights!Of(u)' = wanted'[u]
                      /\ \A d \in AccessAssigning(u)' :
                           LET Q == accessCall'[d].dto.projects[1]
                           IN  /\ Rights!Of(u)' = {} /\ wanted'[u] \subseteq Q
                               /\ Q \cap projects' \subseteq wanted'[u]
    BY DEF AccessAssigned
  <2>1. u \in Account \ accessTorn
    BY <1>1
  <2>2. CASE u = k.who
    <3>1. P \subseteq projects /\ member' = member \cup new
      BY <1>1, <2>2
    <3>2. \A d, f \in AccessAssigning(u) : d = f
      BY <1>2, <2>1 DEF AccessAssigned
    <3>3. AccessAssigning(u)' = {}
      BY <1>9, <1>10, <2>2, <3>2
    <3>4. Rights!Of(u) = {} /\ wanted[u] \subseteq P /\ P \cap projects \subseteq wanted[u]
      BY <1>2, <1>9, <2>1, <2>2 DEF AccessAssigned, P
    <3>5. Rights!Of(u)' = P
      BY <1>4, <2>2, <3>1, <3>4 DEF Rights!Of
    <3> QED
      BY <1>1, <3>1, <3>3, <3>4, <3>5
  <2>3. CASE u # k.who
    <3>1. Rights!Of(u)' = Rights!Of(u)
      BY <1>1, <2>3 DEF Rights!Of
    <3>2. c \notin AccessAssigning(u)
      BY <2>3 DEF AccessAssigning
    <3>3. AccessAssigning(u)' = AccessAssigning(u) /\ \A d \in AccessAssigning(u) : accessCall'[d] = accessCall[d]
      BY <1>5, <1>10, <3>2 DEF AccessAssigning, Rights!UnderWay
    <3> QED
      BY <1>1, <1>2, <2>1, <3>1, <3>3 DEF AccessAssigned
  <2> QED
    BY <2>2, <2>3
<1> QED
  BY <1>6, <1>7, <1>8, <1>11 DEF AccessIInv

LEMMA AccessRemoveProjectsPreserves ==
  ASSUME AccessIInv, NEW lost \in SUBSET AccessProject, Rights!RemoveProjects(lost)
  PROVE  AccessIInv'
<1>1. /\ projects' = projects \ lost
      /\ member' = member \ (Account \X lost)
      /\ wanted' = [u \in Account |-> wanted[u] \ lost]
      /\ UNCHANGED <<adminSso, accessUp, accessThere, admin, mail, accessCall, ever, accessTorn, clash>>
  BY DEF Rights!RemoveProjects
<1>2. AccessTypeOK /\ AccessPlaced /\ AccessAnotherRemains /\ AccessAssigned
  BY DEF AccessIInv
<1>3. Rights!UnderWay' = Rights!UnderWay /\ AccessTakers' = AccessTakers
  BY <1>1 DEF Rights!UnderWay, AccessTakers
<1>4. AccessTypeOK' /\ AccessPlaced'
  BY <1>1, <1>2, <1>3 DEF AccessTypeOK, AccessPlaced
<1>5. AccessAnotherRemains'
  BY <1>1, <1>2, <1>3 DEF AccessAnotherRemains, AccessHarmless
<1>6. \A u \in Account : Rights!Of(u)' = Rights!Of(u) \ lost /\ AccessAssigning(u)' = AccessAssigning(u)
  BY <1>1, <1>3 DEF Rights!Of, AccessAssigning
<1>7. AccessAssigned'
  <2> SUFFICES ASSUME NEW u \in Account \ accessTorn
               PROVE  /\ \A d, f \in AccessAssigning(u) : d = f
                      /\ AccessAssigning(u) = {} => Rights!Of(u)' = wanted'[u]
                      /\ \A d \in AccessAssigning(u) :
                           LET Q == accessCall[d].dto.projects[1]
                           IN  /\ Rights!Of(u)' = {} /\ wanted'[u] \subseteq Q
                               /\ Q \cap projects' \subseteq wanted'[u]
    BY <1>1, <1>6 DEF AccessAssigned
  <2>1. Rights!Of(u)' = Rights!Of(u) \ lost /\ wanted'[u] = wanted[u] \ lost
    BY <1>1, <1>6
  <2>2. \A d, f \in AccessAssigning(u) : d = f
    BY <1>2 DEF AccessAssigned
  <2>3. AccessAssigning(u) = {} => Rights!Of(u) = wanted[u]
    BY <1>2 DEF AccessAssigned
  <2>4. ASSUME NEW d \in AccessAssigning(u)
        PROVE  LET Q == accessCall[d].dto.projects[1]
               IN  Rights!Of(u)' = {} /\ wanted'[u] \subseteq Q /\ Q \cap projects' \subseteq wanted'[u]
    <3> DEFINE Q == accessCall[d].dto.projects[1]
    <3>1. Rights!Of(u) = {} /\ wanted[u] \subseteq Q /\ Q \cap projects \subseteq wanted[u]
      BY <1>2 DEF AccessAssigned
    <3> HIDE DEF Q
    <3>2. Rights!Of(u)' = {} /\ wanted'[u] \subseteq Q /\ Q \cap projects' \subseteq wanted'[u]
      BY <1>1, <2>1, <3>1
    <3> QED
      BY <3>2 DEF Q
  <2> QED
    BY <2>1, <2>2, <2>3, <2>4
<1> QED
  BY <1>4, <1>5, <1>7 DEF AccessIInv

-----------------------------------------------------------------------------
(* Starting again                                                          *)

\* A start that succeeds leaves an administrator behind.
LEMMA AccessSeedIs ==
  ASSUME AccessTypeOK, Rights!seedAdminUser
  PROVE  /\ accessUp' => admin' # {}
         /\ admin' \subseteq accessThere' /\ accessThere' \subseteq Account
         /\ mail' \in [Account -> Mail \cup {Nil}]
<1>1. admin \subseteq accessThere /\ accessThere \subseteq Account /\ mail \in [Account -> Mail \cup {Nil}]
      /\ adminSso \in Mail \cup {Nil} /\ Seed \in Account
  BY AccessAssumption DEF AccessTypeOK
<1>2. Rights!HoldsMail(adminSso) \subseteq accessThere
  BY DEF Rights!HoldsMail
<1>3. CASE Seed \in accessThere
  BY <1>1, <1>3 DEF Rights!seedAdminUser
<1>4. CASE Seed \notin accessThere
  BY <1>1, <1>2, <1>4 DEF Rights!seedAdminUser
<1> QED
  BY <1>3, <1>4

LEMMA AccessRestartPreserves ==
  ASSUME AccessIInv, Rights!Restart
  PROVE  AccessIInv'
<1>1. AccessTypeOK /\ AccessPlaced /\ AccessAnotherRemains /\ AccessAssigned
  BY DEF AccessIInv
<1>2. /\ accessTorn' = accessTorn \cup { accessCall[c].who : c \in { d \in Rights!UnderWay : accessCall[d].pc = "assign" } }
      /\ accessCall' = [c \in Admin |-> Rights!Nobody]
      /\ ever' = ever \cup accessThere'
      /\ UNCHANGED <<adminSso, projects, member, wanted>>
  BY DEF Rights!Restart
<1>3. /\ accessUp' => admin' # {}
      /\ admin' \subseteq accessThere' /\ accessThere' \subseteq Account
      /\ mail' \in [Account -> Mail \cup {Nil}]
  BY <1>1, AccessSeedIs DEF Rights!Restart
<1>4. Rights!UnderWay' = {} /\ AccessTakers' = {}
  BY <1>2, AccessNobodyIs DEF Rights!UnderWay, AccessTakers
<1>5. AccessTypeOK' /\ AccessPlaced' /\ AccessAnotherRemains'
  BY <1>1, <1>2, <1>3, <1>4 DEF AccessTypeOK, AccessPlaced, AccessAnotherRemains
<1>6. AccessAssigned'
  <2> SUFFICES ASSUME NEW u \in Account \ accessTorn'
               PROVE  AccessAssigning(u)' = {} /\ Rights!Of(u)' = wanted'[u]
    BY DEF AccessAssigned
  <2>1. AccessAssigning(u)' = {}
    BY <1>4 DEF AccessAssigning
  <2>2. AccessAssigning(u) = {} /\ u \in Account \ accessTorn
    BY <1>2 DEF AccessAssigning
  <2> QED
    BY <1>1, <1>2, <2>1, <2>2 DEF AccessAssigned, Rights!Of
<1> QED
  BY <1>5, <1>6 DEF AccessIInv

-----------------------------------------------------------------------------
(* The invariant                                                           *)

LEMMA AccessInitIInv == Rights!Init => AccessIInv
<1> SUFFICES ASSUME Rights!Init
             PROVE  AccessIInv
  OBVIOUS
<1>1. /\ adminSso \in Mail \cup {Nil} /\ mail = [u \in Account |-> IF u = Seed THEN adminSso ELSE Nil]
      /\ projects = AccessProject /\ member = {} /\ accessCall = [c \in Admin |-> Rights!Nobody]
      /\ ever = accessThere /\ wanted = [u \in Account |-> {}] /\ accessTorn = {}
      /\ \E others \in SUBSET (Account \ {Seed}) : accessThere = {Seed} \cup others /\ admin = accessThere
  BY DEF Rights!Init
<1>2. admin = accessThere /\ accessThere \subseteq Account /\ admin # {}
  BY <1>1, AccessAssumption
<1>3. Rights!UnderWay = {} /\ AccessTakers = {}
  BY <1>1, AccessNobodyIs DEF Rights!UnderWay, AccessTakers
<1>4. AccessTypeOK
  BY <1>1, <1>2 DEF AccessTypeOK
<1>5. AccessPlaced /\ AccessAnotherRemains
  BY <1>2, <1>3 DEF AccessPlaced, AccessAnotherRemains
<1>6. AccessAssigned
  BY <1>1, <1>3 DEF AccessAssigned, AccessAssigning, Rights!Of
<1> QED
  BY <1>4, <1>5, <1>6 DEF AccessIInv

LEMMA AccessNextIInv ==
  ASSUME AccessIInv, [Rights!Next]_accessVars
  PROVE  AccessIInv'
<1>1. ASSUME NEW c \in Admin,
             Rights!StartCall(c) \/ Rights!FindUser(c) \/ Rights!CheckMail(c) \/ Rights!SaveUser(c) \/ Rights!FindProjects(c)
               \/ Rights!DeleteMembers(c) \/ Rights!SaveMembers(c) \/ Rights!RemoveUser(c)
      PROVE  AccessIInv'
  BY <1>1, AccessStartPreserves, AccessFindPreserves, AccessCheckMailPreserves,
     AccessSavePreserves,
     AccessFindProjectsPreserves, AccessDeletePreserves, AccessSaveMembersPreserves, AccessRemoveUserPreserves
<1>2. ASSUME NEW p \in AccessProject, Rights!RemoveProject(p)
      PROVE  AccessIInv'
  BY <1>2, AccessRemoveProjectsPreserves DEF Rights!RemoveProject
<1>3. ASSUME NEW o \in Org, Rights!RemoveOrganization(o)
      PROVE  AccessIInv'
  <2>1. { p \in AccessProject : OrgOf[p] = o } \in SUBSET AccessProject
    OBVIOUS
  <2> QED
    BY <1>3, <2>1, AccessRemoveProjectsPreserves DEF Rights!RemoveOrganization
<1>4. CASE UNCHANGED accessVars
  <2>1. AccessTypeOK' /\ AccessAssigned'
    BY <1>4
    DEF accessVars, AccessIInv, AccessTypeOK, AccessAssigned, AccessAssigning, Rights!Of,
       Rights!UnderWay
  <2>2. AccessPlaced'
    BY <1>4 DEF accessVars, AccessIInv, AccessPlaced, AccessInPlace, Rights!UnderWay
  <2>3. AccessAnotherRemains'
    BY <1>4
    DEF accessVars, AccessIInv, AccessAnotherRemains, AccessTakers, AccessHarmless,
       Rights!UnderWay
  <2> QED
    BY <2>1, <2>2, <2>3 DEF AccessIInv
<1> QED
  BY <1>1, <1>2, <1>3, <1>4, AccessRestartPreserves DEF Rights!Next

LEMMA AccessAdminsRemain == AccessIInv => Rights!AdminRemains
BY DEF AccessIInv, AccessAnotherRemains, Rights!AdminRemains

LEMMA AccessAreAssigned == AccessIInv => Rights!AssignedAsWanted
<1> SUFFICES ASSUME AccessIInv, NEW u \in accessThere \ accessTorn, \A c \in Rights!UnderWay : accessCall[c].who # u
             PROVE  Rights!Of(u) = wanted[u]
  BY DEF Rights!AssignedAsWanted
<1>1. u \in Account \ accessTorn
  BY DEF AccessIInv, AccessTypeOK
<1>2. AccessAssigning(u) = {}
  BY DEF AccessAssigning
<1> QED
  BY <1>1, <1>2 DEF AccessIInv, AccessAssigned

LEMMA AccessChecksAgree == AccessIInv => Rights!AccessAgrees
<1> SUFFICES ASSUME AccessIInv
             PROVE  Rights!AccessAgrees
  OBVIOUS
<1>1. admin \subseteq accessThere /\ projects \subseteq AccessProject
  BY DEF AccessIInv, AccessTypeOK
<1>2. \A u \in accessThere, p \in projects :
        /\ Rights!assertProjectAccess(u, p) <=> p \in Rights!listAccessibleProjects(u)
        /\ Rights!assertProjectAccess(u, p) <=> u \in Rights!listAssignableUsers(p)
        /\ Rights!assertProjectAccess(u, p) <=> Rights!assertUserAssignableToProject(p, u)
  BY <1>1
  DEF Rights!assertProjectAccess, Rights!listAccessibleProjects, Rights!listAssignableUsers,
              Rights!assertUserAssignableToProject, Rights!Of
<1>3. \A u \in accessThere, o \in orgs : Rights!assertOrgAccess(u, o) <=> o \in Rights!listAccessibleOrganizations(u)
  BY DEF Rights!assertOrgAccess, Rights!listAccessibleOrganizations,
     Rights!listAccessibleProjects, Rights!Of
<1> QED
  BY <1>1, <1>2, <1>3 DEF Rights!AccessAgrees

AccessInFocus == focus = "access" => AccessIInv

\* The invariant holds while calls on users and projects come.
LEMMA AccessMoves == MachinesSpec => []AccessInFocus
<1>1. MachinesInit => AccessInFocus
  BY AccessInitIInv, AccessAssumption DEF MachinesInit, AccessInFocus
<1>2. AccessInFocus /\ [MachinesNext]_machineVars => AccessInFocus'
  BY AccessNextIInv, OneMoves, AccessAssumption DEF AccessInFocus
<1> QED
  BY <1>1, <1>2, PTL DEF MachinesSpec

\* An administrator remains unless two calls took rights from two users at once; a
\* user has the projects given last, unless two calls gave some at once or one failed
\* between its statements; and the checks agree with the lists.
THEOREM RightsHoldCorrect == MachinesSpec => []RightsHold
<1>1. AccessInFocus => RightsHold
  BY AccessAdminsRemain, AccessAreAssigned, AccessChecksAgree, AccessAssumption
  DEF AccessInFocus, RightsHold
<1> QED
  BY <1>1, AccessMoves, PTL

-----------------------------------------------------------------------------
(***************************************************************************)
(* Tools.  Rows are added only, and a process has a row for every tool up  *)
(* to the place that it has come to.                                       *)
(***************************************************************************)

\* The tools up to place n have a row.
ToolRowsUpTo(n) == \A i \in 1 .. n : Tools!MCP_TOOL_REGISTRY[i] \in DOMAIN toolRows

\* What a process that has come to a place has left behind it.
ToolCame(p) ==
  /\ toolPc[p] \in {"down", "seed", "save", "write", "up"}
  /\ toolAt[p] \in 0 .. Len(Tools!MCP_TOOL_REGISTRY)
  /\ before[p] \subseteq DOMAIN toolRows
  /\ toolPc[p] = "seed" => ToolRowsUpTo(toolAt[p])
  /\ toolPc[p] \in {"save", "write"} =>
       /\ toolAt[p] # 0
       /\ ToolRowsUpTo(toolAt[p] - 1)
       /\ Tools!MCP_TOOL_REGISTRY[toolAt[p]] \notin before[p]
  /\ toolPc[p] = "up" => Tools!Keys \subseteq DOMAIN toolRows

ToolIInv ==
  /\ DOMAIN toolRows \subseteq Tools!Keys
  /\ DOMAIN toolPc = McpProcess /\ DOMAIN toolAt = McpProcess /\ DOMAIN before = McpProcess
  /\ \A p \in McpProcess : ToolCame(p)

-----------------------------------------------------------------------------
(* The catalogue                                                           *)

LEMMA ToolToolsOf ==
  ASSUME NEW s, NEW t, s \in Seq(Tools!ToSet(s)), t \in Seq(Tools!ToSet(t))
  PROVE  s \o t \in Seq(Tools!ToSet(s \o t)) /\ Tools!ToSet(s \o t) = Tools!ToSet(s) \cup Tools!ToSet(t)
<1> DEFINE S == Tools!ToSet(s) \cup Tools!ToSet(t)
<1>0. s \in Seq(S) /\ t \in Seq(S)
  <2> DEFINE A == Tools!ToSet(s)
             B == Tools!ToSet(t)
  <2>1. s \in Seq(A) /\ t \in Seq(B)
    OBVIOUS
  <2> HIDE DEF A, B
  <2> QED
    BY <2>1 DEF S
<1> HIDE DEF S
<1>1. /\ s \o t \in Seq(S)
      /\ Len(s \o t) = Len(s) + Len(t)
      /\ \A i \in 1 .. Len(s) + Len(t) : (s \o t)[i] = IF i <= Len(s) THEN s[i] ELSE t[i - Len(s)]
  BY <1>0, ConcatProperties
<1>2. Len(s) \in Nat /\ Len(t) \in Nat
  BY <1>0
<1>3. DOMAIN s = 1 .. Len(s) /\ DOMAIN t = 1 .. Len(t) /\ DOMAIN (s \o t) = 1 .. Len(s) + Len(t)
  BY <1>0, <1>1, <1>2
<1> DEFINE u == s \o t
<1> HIDE DEF u
<1>4. \A i \in 1 .. Len(s) : u[i] = s[i] /\ i \in 1 .. Len(s) + Len(t)
  BY <1>1, <1>2 DEF u
<1>5. \A i \in 1 .. Len(t) : u[i + Len(s)] = t[i] /\ i + Len(s) \in 1 .. Len(s) + Len(t)
  BY <1>1, <1>2 DEF u
<1>6. \A i \in 1 .. Len(s) + Len(t) :
        \/ i \in 1 .. Len(s) /\ u[i] = s[i]
        \/ i - Len(s) \in 1 .. Len(t) /\ u[i] = t[i - Len(s)]
  BY <1>1, <1>2 DEF u
<1>7. DOMAIN u = 1 .. Len(s) + Len(t)
  BY <1>3 DEF u
<1>8. \A x \in Tools!ToSet(u) : x \in Tools!ToSet(s) \/ x \in Tools!ToSet(t)
  <2> SUFFICES ASSUME NEW i \in 1 .. Len(s) + Len(t)
               PROVE  u[i] \in Tools!ToSet(s) \/ u[i] \in Tools!ToSet(t)
    BY <1>7 DEF Tools!ToSet
  <2> QED
    BY <1>3, <1>6 DEF Tools!ToSet
<1>9. \A x \in Tools!ToSet(s) : x \in Tools!ToSet(u)
  <2> SUFFICES ASSUME NEW i \in 1 .. Len(s)
               PROVE  s[i] \in Tools!ToSet(u)
    BY <1>3 DEF Tools!ToSet
  <2> QED
    BY <1>4, <1>7 DEF Tools!ToSet
<1>10. \A x \in Tools!ToSet(t) : x \in Tools!ToSet(u)
  <2> SUFFICES ASSUME NEW i \in 1 .. Len(t)
               PROVE  t[i] \in Tools!ToSet(u)
    BY <1>3 DEF Tools!ToSet
  <2> QED
    BY <1>5, <1>7 DEF Tools!ToSet
<1> QED
  BY <1>1, <1>8, <1>9, <1>10 DEF u, S

\* Every group but one leaves the tool out that the settings page forgets.
LEMMA ToolGroupsAre ==
  /\ Tools!SystemTools \in Seq(Tools!ToSet(Tools!SystemTools)) /\ "list_organization_activity" \notin Tools!ToSet(Tools!SystemTools)
  /\ Tools!ContextTools \in Seq(Tools!ToSet(Tools!ContextTools)) /\ "list_organization_activity" \notin Tools!ToSet(Tools!ContextTools)
  /\ Tools!TaskTools \in Seq(Tools!ToSet(Tools!TaskTools)) /\ "list_organization_activity" \notin Tools!ToSet(Tools!TaskTools)
  /\ Tools!DiagramTools \in Seq(Tools!ToSet(Tools!DiagramTools)) /\ "list_organization_activity" \notin Tools!ToSet(Tools!DiagramTools)
  /\ Tools!WireframeTools \in Seq(Tools!ToSet(Tools!WireframeTools)) /\ "list_organization_activity" \notin Tools!ToSet(Tools!WireframeTools)
  /\ Tools!NameTools \in Seq(Tools!ToSet(Tools!NameTools)) /\ "list_organization_activity" \notin Tools!ToSet(Tools!NameTools)
  /\ Tools!QaTools \in Seq(Tools!ToSet(Tools!QaTools)) /\ "list_organization_activity" \notin Tools!ToSet(Tools!QaTools)
  /\ Tools!SeoTools \in Seq(Tools!ToSet(Tools!SeoTools)) /\ "list_organization_activity" \notin Tools!ToSet(Tools!SeoTools)
  /\ Tools!CloudServerTools \in Seq(Tools!ToSet(Tools!CloudServerTools)) /\ "list_organization_activity" \notin Tools!ToSet(Tools!CloudServerTools)
  /\ Tools!CloudAppTools \in Seq(Tools!ToSet(Tools!CloudAppTools)) /\ "list_organization_activity" \notin Tools!ToSet(Tools!CloudAppTools)
  /\ Tools!CloudImportTools \in Seq(Tools!ToSet(Tools!CloudImportTools)) /\ "list_organization_activity" \notin Tools!ToSet(Tools!CloudImportTools)
  /\ Tools!ObserverTools \in Seq(Tools!ToSet(Tools!ObserverTools)) /\ "list_organization_activity" \notin Tools!ToSet(Tools!ObserverTools)
  /\ Tools!MetricsTools \in Seq(Tools!ToSet(Tools!MetricsTools)) /\ "list_organization_activity" \notin Tools!ToSet(Tools!MetricsTools)
  /\ Tools!HubTools \in Seq(Tools!ToSet(Tools!HubTools)) /\ "list_organization_activity" \notin Tools!ToSet(Tools!HubTools)
<1>1. Tools!SystemTools \in Seq(Tools!ToSet(Tools!SystemTools)) /\ "list_organization_activity" \notin Tools!ToSet(Tools!SystemTools)
  BY DEF Tools!SystemTools, Tools!ToSet
<1>2. Tools!ContextTools \in Seq(Tools!ToSet(Tools!ContextTools)) /\ "list_organization_activity" \notin Tools!ToSet(Tools!ContextTools)
  BY DEF Tools!ContextTools, Tools!ToSet
<1>3. Tools!TaskTools \in Seq(Tools!ToSet(Tools!TaskTools)) /\ "list_organization_activity" \notin Tools!ToSet(Tools!TaskTools)
  BY DEF Tools!TaskTools, Tools!ToSet
<1>4. Tools!DiagramTools \in Seq(Tools!ToSet(Tools!DiagramTools)) /\ "list_organization_activity" \notin Tools!ToSet(Tools!DiagramTools)
  BY DEF Tools!DiagramTools, Tools!ToSet
<1>5. Tools!WireframeTools \in Seq(Tools!ToSet(Tools!WireframeTools)) /\ "list_organization_activity" \notin Tools!ToSet(Tools!WireframeTools)
  BY DEF Tools!WireframeTools, Tools!ToSet
<1>6. Tools!NameTools \in Seq(Tools!ToSet(Tools!NameTools)) /\ "list_organization_activity" \notin Tools!ToSet(Tools!NameTools)
  BY DEF Tools!NameTools, Tools!ToSet
<1>7. Tools!QaTools \in Seq(Tools!ToSet(Tools!QaTools)) /\ "list_organization_activity" \notin Tools!ToSet(Tools!QaTools)
  BY DEF Tools!QaTools, Tools!ToSet
<1>8. Tools!SeoTools \in Seq(Tools!ToSet(Tools!SeoTools)) /\ "list_organization_activity" \notin Tools!ToSet(Tools!SeoTools)
  BY DEF Tools!SeoTools, Tools!ToSet
<1>9. Tools!CloudServerTools \in Seq(Tools!ToSet(Tools!CloudServerTools)) /\ "list_organization_activity" \notin Tools!ToSet(Tools!CloudServerTools)
  BY DEF Tools!CloudServerTools, Tools!ToSet
<1>10. Tools!CloudAppTools \in Seq(Tools!ToSet(Tools!CloudAppTools)) /\ "list_organization_activity" \notin Tools!ToSet(Tools!CloudAppTools)
  BY DEF Tools!CloudAppTools, Tools!ToSet
<1>11. Tools!CloudImportTools \in Seq(Tools!ToSet(Tools!CloudImportTools)) /\ "list_organization_activity" \notin Tools!ToSet(Tools!CloudImportTools)
  BY DEF Tools!CloudImportTools, Tools!ToSet
<1>12. Tools!ObserverTools \in Seq(Tools!ToSet(Tools!ObserverTools)) /\ "list_organization_activity" \notin Tools!ToSet(Tools!ObserverTools)
  BY DEF Tools!ObserverTools, Tools!ToSet
<1>13. Tools!MetricsTools \in Seq(Tools!ToSet(Tools!MetricsTools)) /\ "list_organization_activity" \notin Tools!ToSet(Tools!MetricsTools)
  BY DEF Tools!MetricsTools, Tools!ToSet
<1>14. Tools!HubTools \in Seq(Tools!ToSet(Tools!HubTools)) /\ "list_organization_activity" \notin Tools!ToSet(Tools!HubTools)
  BY DEF Tools!HubTools, Tools!ToSet
<1> QED
  BY <1>1, <1>2, <1>3, <1>4, <1>5, <1>6, <1>7, <1>8, <1>9, <1>10, <1>11, <1>12, <1>13, <1>14

LEMMA ToolActivityIs == Tools!ActivityTools \in Seq(Tools!ToSet(Tools!ActivityTools)) /\ Tools!ToSet(Tools!ActivityTools) = {"list_organization_activity"}
BY DEF Tools!ActivityTools, Tools!ToSet

\* A tool is in the catalogue when it is in a group of it.
LEMMA ToolCatalogueIs ==
  /\ Tools!MCP_TOOL_REGISTRY \in Seq(Tools!Keys)
  /\ Tools!Keys = UNION { Tools!ToSet(g) : g \in {Tools!SystemTools, Tools!ContextTools, Tools!TaskTools, Tools!ActivityTools,
                                    Tools!DiagramTools, Tools!WireframeTools, Tools!NameTools, Tools!QaTools,
                                    Tools!SeoTools, Tools!CloudServerTools, Tools!CloudAppTools,
                                    Tools!CloudImportTools, Tools!ObserverTools, Tools!MetricsTools, Tools!HubTools} }
<1> DEFINE c1 == Tools!SystemTools
           c2 == c1 \o Tools!ContextTools
           c3 == c2 \o Tools!TaskTools
           c4 == c3 \o Tools!ActivityTools
           c5 == c4 \o Tools!DiagramTools
           c6 == c5 \o Tools!WireframeTools
           c7 == c6 \o Tools!NameTools
           c8 == c7 \o Tools!QaTools
           c9 == c8 \o Tools!SeoTools
           c10 == c9 \o Tools!CloudServerTools
           c11 == c10 \o Tools!CloudAppTools
           c12 == c11 \o Tools!CloudImportTools
           c13 == c12 \o Tools!ObserverTools
           c14 == c13 \o Tools!MetricsTools
           c15 == c14 \o Tools!HubTools
<1> HIDE DEF c1, c2, c3, c4, c5, c6, c7, c8, c9, c10, c11, c12, c13, c14, c15
<1>1. c1 \in Seq(Tools!ToSet(c1)) /\ Tools!ToSet(c1) = Tools!ToSet(Tools!SystemTools)
  BY ToolGroupsAre DEF c1
<1>2. c2 \in Seq(Tools!ToSet(c2)) /\ Tools!ToSet(c2) = Tools!ToSet(c1) \cup Tools!ToSet(Tools!ContextTools)
  BY <1>1, ToolGroupsAre, ToolActivityIs, ToolToolsOf DEF c2
<1>3. c3 \in Seq(Tools!ToSet(c3)) /\ Tools!ToSet(c3) = Tools!ToSet(c2) \cup Tools!ToSet(Tools!TaskTools)
  BY <1>2, ToolGroupsAre, ToolActivityIs, ToolToolsOf DEF c3
<1>4. c4 \in Seq(Tools!ToSet(c4)) /\ Tools!ToSet(c4) = Tools!ToSet(c3) \cup Tools!ToSet(Tools!ActivityTools)
  BY <1>3, ToolGroupsAre, ToolActivityIs, ToolToolsOf DEF c4
<1>5. c5 \in Seq(Tools!ToSet(c5)) /\ Tools!ToSet(c5) = Tools!ToSet(c4) \cup Tools!ToSet(Tools!DiagramTools)
  BY <1>4, ToolGroupsAre, ToolActivityIs, ToolToolsOf DEF c5
<1>6. c6 \in Seq(Tools!ToSet(c6)) /\ Tools!ToSet(c6) = Tools!ToSet(c5) \cup Tools!ToSet(Tools!WireframeTools)
  BY <1>5, ToolGroupsAre, ToolActivityIs, ToolToolsOf DEF c6
<1>7. c7 \in Seq(Tools!ToSet(c7)) /\ Tools!ToSet(c7) = Tools!ToSet(c6) \cup Tools!ToSet(Tools!NameTools)
  BY <1>6, ToolGroupsAre, ToolActivityIs, ToolToolsOf DEF c7
<1>8. c8 \in Seq(Tools!ToSet(c8)) /\ Tools!ToSet(c8) = Tools!ToSet(c7) \cup Tools!ToSet(Tools!QaTools)
  BY <1>7, ToolGroupsAre, ToolActivityIs, ToolToolsOf DEF c8
<1>9. c9 \in Seq(Tools!ToSet(c9)) /\ Tools!ToSet(c9) = Tools!ToSet(c8) \cup Tools!ToSet(Tools!SeoTools)
  BY <1>8, ToolGroupsAre, ToolActivityIs, ToolToolsOf DEF c9
<1>10. c10 \in Seq(Tools!ToSet(c10)) /\ Tools!ToSet(c10) = Tools!ToSet(c9) \cup Tools!ToSet(Tools!CloudServerTools)
  BY <1>9, ToolGroupsAre, ToolActivityIs, ToolToolsOf DEF c10
<1>11. c11 \in Seq(Tools!ToSet(c11)) /\ Tools!ToSet(c11) = Tools!ToSet(c10) \cup Tools!ToSet(Tools!CloudAppTools)
  BY <1>10, ToolGroupsAre, ToolActivityIs, ToolToolsOf DEF c11
<1>12. c12 \in Seq(Tools!ToSet(c12)) /\ Tools!ToSet(c12) = Tools!ToSet(c11) \cup Tools!ToSet(Tools!CloudImportTools)
  BY <1>11, ToolGroupsAre, ToolActivityIs, ToolToolsOf DEF c12
<1>13. c13 \in Seq(Tools!ToSet(c13)) /\ Tools!ToSet(c13) = Tools!ToSet(c12) \cup Tools!ToSet(Tools!ObserverTools)
  BY <1>12, ToolGroupsAre, ToolActivityIs, ToolToolsOf DEF c13
<1>14. c14 \in Seq(Tools!ToSet(c14)) /\ Tools!ToSet(c14) = Tools!ToSet(c13) \cup Tools!ToSet(Tools!MetricsTools)
  BY <1>13, ToolGroupsAre, ToolActivityIs, ToolToolsOf DEF c14
<1>15. c15 \in Seq(Tools!ToSet(c15)) /\ Tools!ToSet(c15) = Tools!ToSet(c14) \cup Tools!ToSet(Tools!HubTools)
  BY <1>14, ToolGroupsAre, ToolActivityIs, ToolToolsOf DEF c15
<1>16. Tools!MCP_TOOL_REGISTRY = c15
  BY DEF Tools!MCP_TOOL_REGISTRY, c1, c2, c3, c4, c5, c6, c7, c8, c9, c10, c11, c12, c13, c14, c15
<1>17. Tools!Keys = Tools!ToSet(Tools!SystemTools) \cup Tools!ToSet(Tools!ContextTools) \cup Tools!ToSet(Tools!TaskTools) \cup
              Tools!ToSet(Tools!ActivityTools) \cup Tools!ToSet(Tools!DiagramTools) \cup Tools!ToSet(Tools!WireframeTools) \cup
              Tools!ToSet(Tools!NameTools) \cup Tools!ToSet(Tools!QaTools) \cup Tools!ToSet(Tools!SeoTools) \cup
              Tools!ToSet(Tools!CloudServerTools) \cup Tools!ToSet(Tools!CloudAppTools) \cup
              Tools!ToSet(Tools!CloudImportTools) \cup Tools!ToSet(Tools!ObserverTools) \cup
              Tools!ToSet(Tools!MetricsTools) \cup Tools!ToSet(Tools!HubTools)
  BY <1>1, <1>2, <1>3, <1>4, <1>5, <1>6, <1>7, <1>8, <1>9, <1>10, <1>11, <1>12, <1>13, <1>14,
     <1>15, <1>16
  DEF Tools!Keys
<1> QED
  BY <1>15, <1>16, <1>17 DEF Tools!Keys

LEMMA ToolPageIs == UNION { Tools!ToSet(g) : g \in Tools!ToSet(Tools!MCP_TOOL_GROUPS) } = Tools!Keys \ {"list_organization_activity"}
<1>1. Tools!ToSet(Tools!MCP_TOOL_GROUPS) = {Tools!SystemTools, Tools!ContextTools, Tools!TaskTools, Tools!DiagramTools,
                                Tools!WireframeTools, Tools!NameTools, Tools!QaTools, Tools!SeoTools,
                                Tools!CloudServerTools \o Tools!CloudAppTools \o Tools!CloudImportTools,
                                Tools!ObserverTools, Tools!MetricsTools, Tools!HubTools}
  <2>1. DOMAIN Tools!MCP_TOOL_GROUPS = 1 .. 12
    BY DEF Tools!MCP_TOOL_GROUPS
  <2>2. /\ Tools!MCP_TOOL_GROUPS[1] = Tools!SystemTools
        /\ Tools!MCP_TOOL_GROUPS[2] = Tools!ContextTools
        /\ Tools!MCP_TOOL_GROUPS[3] = Tools!TaskTools
        /\ Tools!MCP_TOOL_GROUPS[4] = Tools!DiagramTools
        /\ Tools!MCP_TOOL_GROUPS[5] = Tools!WireframeTools
        /\ Tools!MCP_TOOL_GROUPS[6] = Tools!NameTools
        /\ Tools!MCP_TOOL_GROUPS[7] = Tools!QaTools
        /\ Tools!MCP_TOOL_GROUPS[8] = Tools!SeoTools
        /\ Tools!MCP_TOOL_GROUPS[9] = Tools!CloudServerTools \o Tools!CloudAppTools \o Tools!CloudImportTools
        /\ Tools!MCP_TOOL_GROUPS[10] = Tools!ObserverTools
        /\ Tools!MCP_TOOL_GROUPS[11] = Tools!MetricsTools
        /\ Tools!MCP_TOOL_GROUPS[12] = Tools!HubTools
    BY DEF Tools!MCP_TOOL_GROUPS
  <2>3. Tools!ToSet(Tools!MCP_TOOL_GROUPS) = {Tools!MCP_TOOL_GROUPS[1], Tools!MCP_TOOL_GROUPS[2],
                                  Tools!MCP_TOOL_GROUPS[3], Tools!MCP_TOOL_GROUPS[4],
                                  Tools!MCP_TOOL_GROUPS[5], Tools!MCP_TOOL_GROUPS[6],
                                  Tools!MCP_TOOL_GROUPS[7], Tools!MCP_TOOL_GROUPS[8],
                                  Tools!MCP_TOOL_GROUPS[9], Tools!MCP_TOOL_GROUPS[10],
                                  Tools!MCP_TOOL_GROUPS[11], Tools!MCP_TOOL_GROUPS[12]}
    <3>1. \A i \in 1 .. 12 : i = 1 \/ i = 2 \/ i = 3 \/ i = 4 \/ i = 5 \/ i = 6 \/ i = 7 \/ i = 8 \/ i = 9 \/ i = 10 \/ i = 11 \/ i = 12
      OBVIOUS
    <3> QED
      BY <2>1, <3>1 DEF Tools!ToSet
  <2> QED
    BY <2>2, <2>3
<1>2. Tools!ToSet(Tools!CloudServerTools \o Tools!CloudAppTools \o Tools!CloudImportTools) =
        Tools!ToSet(Tools!CloudServerTools) \cup Tools!ToSet(Tools!CloudAppTools) \cup Tools!ToSet(Tools!CloudImportTools)
  <2> DEFINE s == Tools!CloudServerTools \o Tools!CloudAppTools
  <2>1. s \in Seq(Tools!ToSet(s)) /\ Tools!ToSet(s) = Tools!ToSet(Tools!CloudServerTools) \cup Tools!ToSet(Tools!CloudAppTools)
    BY ToolGroupsAre, ToolToolsOf
  <2> HIDE DEF s
  <2>2. Tools!ToSet(s \o Tools!CloudImportTools) = Tools!ToSet(s) \cup Tools!ToSet(Tools!CloudImportTools)
    BY <2>1, ToolGroupsAre, ToolToolsOf
  <2> QED
    BY <2>1, <2>2 DEF s
<1>3. Tools!Keys = Tools!ToSet(Tools!SystemTools) \cup Tools!ToSet(Tools!ContextTools) \cup Tools!ToSet(Tools!TaskTools) \cup
              Tools!ToSet(Tools!ActivityTools) \cup Tools!ToSet(Tools!DiagramTools) \cup Tools!ToSet(Tools!WireframeTools) \cup
              Tools!ToSet(Tools!NameTools) \cup Tools!ToSet(Tools!QaTools) \cup Tools!ToSet(Tools!SeoTools) \cup
              Tools!ToSet(Tools!CloudServerTools) \cup Tools!ToSet(Tools!CloudAppTools) \cup
              Tools!ToSet(Tools!CloudImportTools) \cup Tools!ToSet(Tools!ObserverTools) \cup
              Tools!ToSet(Tools!MetricsTools) \cup Tools!ToSet(Tools!HubTools)
  BY ToolCatalogueIs
<1>4. UNION { Tools!ToSet(g) : g \in Tools!ToSet(Tools!MCP_TOOL_GROUPS) } =
        Tools!ToSet(Tools!SystemTools) \cup Tools!ToSet(Tools!ContextTools) \cup Tools!ToSet(Tools!TaskTools) \cup
        Tools!ToSet(Tools!DiagramTools) \cup Tools!ToSet(Tools!WireframeTools) \cup Tools!ToSet(Tools!NameTools) \cup
        Tools!ToSet(Tools!QaTools) \cup Tools!ToSet(Tools!SeoTools) \cup Tools!ToSet(Tools!CloudServerTools) \cup
        Tools!ToSet(Tools!CloudAppTools) \cup Tools!ToSet(Tools!CloudImportTools) \cup Tools!ToSet(Tools!ObserverTools) \cup
        Tools!ToSet(Tools!MetricsTools) \cup Tools!ToSet(Tools!HubTools)
  BY <1>1, <1>2
<1> QED
  BY <1>3, <1>4, ToolGroupsAre, ToolActivityIs

LEMMA ToolKeysAre ==
  /\ Len(Tools!MCP_TOOL_REGISTRY) \in Nat
  /\ Tools!Keys = { Tools!MCP_TOOL_REGISTRY[i] : i \in 1 .. Len(Tools!MCP_TOOL_REGISTRY) }
BY ToolCatalogueIs DEF Tools!Keys, Tools!ToSet

-----------------------------------------------------------------------------
(* The seeding                                                             *)

\* Rows are added only: what a process left behind it stays.
LEMMA ToolCameStays ==
  ASSUME ToolIInv, DOMAIN toolRows \subseteq DOMAIN toolRows', NEW p \in McpProcess,
         toolPc'[p] = toolPc[p], toolAt'[p] = toolAt[p], before'[p] = before[p]
  PROVE  ToolCame(p)'
BY DEF ToolIInv, ToolCame, ToolRowsUpTo

\* One process moves.
LEMMA ToolOneMoves ==
  ASSUME ToolIInv, NEW p \in McpProcess, DOMAIN toolRows \subseteq DOMAIN toolRows', DOMAIN toolRows' \subseteq Tools!Keys,
         DOMAIN toolPc' = McpProcess, DOMAIN toolAt' = McpProcess, DOMAIN before' = McpProcess,
         \A q \in McpProcess \ {p} : toolPc'[q] = toolPc[q] /\ toolAt'[q] = toolAt[q] /\ before'[q] = before[q],
         ToolCame(p)'
  PROVE  ToolIInv'
BY ToolCameStays DEF ToolIInv

LEMMA ToolStartPreserves ==
  ASSUME ToolIInv, NEW p \in McpProcess, Tools!Start(p)
  PROVE  ToolIInv'
<1>1. /\ toolPc' = [toolPc EXCEPT ![p] = "seed"] /\ toolAt' = [toolAt EXCEPT ![p] = 0]
      /\ before' = [before EXCEPT ![p] = DOMAIN toolRows] /\ toolRows' = toolRows
  BY DEF Tools!Start
<1>2. DOMAIN toolPc = McpProcess /\ DOMAIN toolAt = McpProcess /\ DOMAIN before = McpProcess /\ DOMAIN toolRows \subseteq Tools!Keys
  BY DEF ToolIInv
<1>3. toolPc'[p] = "seed" /\ toolAt'[p] = 0 /\ before'[p] = DOMAIN toolRows
  BY <1>1, <1>2
<1>4. ToolCame(p)'
  BY <1>1, <1>3, ToolKeysAre DEF ToolCame, ToolRowsUpTo
<1> QED
  BY <1>1, <1>2, <1>4, ToolOneMoves

LEMMA ToolLookPreserves ==
  ASSUME ToolIInv, NEW p \in McpProcess, Tools!Look(p)
  PROVE  ToolIInv'
<1> DEFINE last == Len(Tools!MCP_TOOL_REGISTRY)
<1>1. toolPc[p] = "seed" /\ UNCHANGED <<toolRows, before>>
  BY DEF Tools!Look
<1>2. /\ DOMAIN toolPc = McpProcess /\ DOMAIN toolAt = McpProcess /\ DOMAIN before = McpProcess
      /\ DOMAIN toolRows \subseteq Tools!Keys /\ ToolCame(p)
  BY DEF ToolIInv
<1>3. toolAt[p] \in 0 .. last /\ ToolRowsUpTo(toolAt[p]) /\ before[p] \subseteq DOMAIN toolRows /\ last \in Nat
  BY <1>1, <1>2, ToolKeysAre DEF ToolCame
<1>4. CASE /\ \A i \in toolAt[p] + 1 .. last : Tools!MCP_TOOL_REGISTRY[i] \in DOMAIN toolRows
           /\ toolPc' = [toolPc EXCEPT ![p] = "up"] /\ toolAt' = toolAt
  <2>1. toolPc'[p] = "up" /\ toolAt'[p] = toolAt[p] /\ before'[p] = before[p]
    BY <1>1, <1>2, <1>4
  <2>2. \A i \in 1 .. last : i \in 1 .. toolAt[p] \/ i \in toolAt[p] + 1 .. last
    BY <1>3
  <2>3. \A i \in 1 .. last : Tools!MCP_TOOL_REGISTRY[i] \in DOMAIN toolRows
    BY <1>3, <1>4, <2>2 DEF ToolRowsUpTo
  <2>4. Tools!Keys \subseteq DOMAIN toolRows
    BY <2>3, ToolKeysAre
  <2>5. ToolCame(p)'
    BY <1>1, <1>3, <2>1, <2>4 DEF ToolCame
  <2> QED
    BY <1>1, <1>2, <1>4, <2>5, ToolOneMoves
<1>5. ASSUME NEW i \in toolAt[p] + 1 .. last, Tools!MCP_TOOL_REGISTRY[i] \notin DOMAIN toolRows,
             \A j \in toolAt[p] + 1 .. i - 1 : Tools!MCP_TOOL_REGISTRY[j] \in DOMAIN toolRows,
             toolAt' = [toolAt EXCEPT ![p] = i], toolPc' = [toolPc EXCEPT ![p] = "save"]
      PROVE  ToolIInv'
  <2>1. toolPc'[p] = "save" /\ toolAt'[p] = i /\ before'[p] = before[p]
    BY <1>1, <1>2, <1>5
  <2>2. i \in 1 .. last /\ \A j \in 1 .. i - 1 : j \in 1 .. toolAt[p] \/ j \in toolAt[p] + 1 .. i - 1
    BY <1>3
  <2>3. ToolRowsUpTo(i - 1)
    BY <1>3, <1>5, <2>2 DEF ToolRowsUpTo
  <2>4. ToolRowsUpTo(i - 1)'
    BY <1>1, <2>3 DEF ToolRowsUpTo
  <2>5. i \in 0 .. last /\ i # 0
    BY <1>3, <2>2
  <2>6. ToolCame(p)'
    BY <1>1, <1>3, <1>5, <2>1, <2>4, <2>5 DEF ToolCame
  <2> QED
    BY <1>1, <1>2, <1>5, <2>6, ToolOneMoves
<1> QED
  BY <1>4, <1>5 DEF Tools!Look, Tools!Skipped

LEMMA ToolSaveLooksPreserves ==
  ASSUME ToolIInv, NEW p \in McpProcess, Tools!SaveLooks(p)
  PROVE  ToolIInv'
<1>1. toolPc[p] = "save" /\ toolPc' = [toolPc EXCEPT ![p] = "write"] /\ UNCHANGED <<toolRows, toolAt, before>>
  BY DEF Tools!SaveLooks
<1>2. /\ DOMAIN toolPc = McpProcess /\ DOMAIN toolAt = McpProcess /\ DOMAIN before = McpProcess
      /\ DOMAIN toolRows \subseteq Tools!Keys /\ ToolCame(p)
  BY DEF ToolIInv
<1>3. ToolCame(p)'
  BY <1>1, <1>2 DEF ToolCame, ToolRowsUpTo
<1> QED
  BY <1>1, <1>2, <1>3, ToolOneMoves

LEMMA ToolSaveWritesPreserves ==
  ASSUME ToolIInv, NEW p \in McpProcess, Tools!SaveWrites(p)
  PROVE  ToolIInv' /\ \A k \in before[p] : toolRows'[k] = toolRows[k]
<1> DEFINE k == Tools!MCP_TOOL_REGISTRY[toolAt[p]]
<1>1. toolPc[p] = "write" /\ UNCHANGED <<toolAt, before>>
  BY DEF Tools!SaveWrites
<1>2. /\ DOMAIN toolPc = McpProcess /\ DOMAIN toolAt = McpProcess /\ DOMAIN before = McpProcess
      /\ DOMAIN toolRows \subseteq Tools!Keys /\ ToolCame(p)
  BY DEF ToolIInv
<1>3. /\ toolAt[p] \in 0 .. Len(Tools!MCP_TOOL_REGISTRY) /\ toolAt[p] # 0
      /\ ToolRowsUpTo(toolAt[p] - 1) /\ k \notin before[p] /\ before[p] \subseteq DOMAIN toolRows
  BY <1>1, <1>2 DEF ToolCame
<1>4. k \in Tools!Keys
  BY <1>3, ToolKeysAre
<1>5. CASE toolPc' = [toolPc EXCEPT ![p] = "down"] /\ toolRows' = toolRows
  <2>1. ToolCame(p)'
    BY <1>1, <1>2, <1>5 DEF ToolCame
  <2> QED
    BY <1>1, <1>2, <1>5, <2>1, ToolOneMoves
<1>6. CASE /\ toolRows' = [j \in DOMAIN toolRows \cup {k} |-> IF j = k THEN Tools!defaultEnabled(k) ELSE toolRows[j]]
           /\ toolPc' = [toolPc EXCEPT ![p] = "seed"]
  <2> HIDE DEF k
  <2>1. DOMAIN toolRows' = DOMAIN toolRows \cup {k}
    BY <1>6
  <2>2. ToolRowsUpTo(toolAt[p])'
    <3>1. \A i \in 1 .. toolAt[p] : i \in 1 .. toolAt[p] - 1 \/ i = toolAt[p]
      BY <1>3, ToolKeysAre
    <3> QED
      BY <1>1, <1>3, <2>1, <3>1 DEF ToolRowsUpTo, k
  <2>3. ToolCame(p)'
    BY <1>1, <1>2, <1>3, <1>6, <2>1, <2>2 DEF ToolCame
  <2>4. ToolIInv'
    BY <1>1, <1>2, <1>4, <1>6, <2>1, <2>3, ToolOneMoves
  <2>5. \A j \in before[p] : toolRows'[j] = toolRows[j]
    BY <1>3, <1>6
  <2> QED
    BY <2>4, <2>5
<1> QED
  BY <1>5, <1>6 DEF Tools!SaveWrites

LEMMA ToolStopPreserves ==
  ASSUME ToolIInv, NEW p \in McpProcess, Tools!Stop(p)
  PROVE  ToolIInv'
<1>1. toolPc' = [toolPc EXCEPT ![p] = "down"] /\ UNCHANGED <<toolRows, toolAt, before>>
  BY DEF Tools!Stop
<1>2. /\ DOMAIN toolPc = McpProcess /\ DOMAIN toolAt = McpProcess /\ DOMAIN before = McpProcess
      /\ DOMAIN toolRows \subseteq Tools!Keys /\ ToolCame(p)
  BY DEF ToolIInv
<1>3. ToolCame(p)'
  BY <1>1, <1>2 DEF ToolCame
<1> QED
  BY <1>1, <1>2, <1>3, ToolOneMoves

\* The calls of administrators add no row.
LEMMA ToolCallPreserves ==
  ASSUME ToolIInv, DOMAIN toolRows' = DOMAIN toolRows, UNCHANGED <<toolPc, toolAt, before>>
  PROVE  ToolIInv'
BY ToolCameStays DEF ToolIInv

LEMMA ToolSaveItemIs ==
  ASSUME Tools!SaveItem
  PROVE  DOMAIN toolRows' = DOMAIN toolRows /\ UNCHANGED <<toolPc, toolAt, before>>
BY DEF Tools!SaveItem

-----------------------------------------------------------------------------
(* The invariant and the property                                          *)

LEMMA ToolInitIInv == Tools!Init => ToolIInv
<1> SUFFICES ASSUME Tools!Init
             PROVE  ToolIInv
  OBVIOUS
<1>1. /\ \E missing \in Missing : toolRows = [k \in Tools!Keys \ missing |-> Tools!defaultEnabled(k)]
      /\ toolPc = [p \in McpProcess |-> "down"] /\ toolAt = [p \in McpProcess |-> 0]
      /\ before = [p \in McpProcess |-> {}]
  BY DEF Tools!Init
<1>2. DOMAIN toolRows \subseteq Tools!Keys
  BY <1>1
<1>3. \A p \in McpProcess : ToolCame(p)
  BY <1>1, ToolKeysAre DEF ToolCame
<1> QED
  BY <1>1, <1>2, <1>3 DEF ToolIInv

LEMMA ToolNextIInv ==
  ASSUME ToolIInv, [Tools!Next]_toolVars
  PROVE  ToolIInv'
<1>1. ASSUME NEW p \in McpProcess, Tools!Start(p) \/ Tools!Look(p) \/ Tools!SaveLooks(p) \/ Tools!SaveWrites(p) \/ Tools!Stop(p)
      PROVE  ToolIInv'
  BY <1>1, ToolStartPreserves, ToolLookPreserves, ToolSaveLooksPreserves, ToolSaveWritesPreserves,
     ToolStopPreserves
<1>2. ASSUME NEW items \in ToolRequests, Tools!update(items)
      PROVE  ToolIInv'
  BY <1>2, ToolCallPreserves DEF Tools!update
<1>3. CASE Tools!SaveItem
  BY <1>3, ToolSaveItemIs, ToolCallPreserves
<1>4. CASE UNCHANGED toolVars
  BY <1>4, ToolCallPreserves DEF toolVars
<1> QED
  BY <1>1, <1>2, <1>3, <1>4 DEF Tools!Next

\* A process that writes leaves what had a row when it started; who else moves
\* meanwhile leaves it where it is.
LEMMA ToolWriteIs ==
  ASSUME ToolIInv, [Tools!Next]_toolVars, NEW p \in McpProcess, toolPc[p] = "write", toolPc'[p] # "write"
  PROVE  \A k \in before[p] : toolRows'[k] = toolRows[k]
<1>1. DOMAIN toolPc = McpProcess
  BY DEF ToolIInv
<1>2. ASSUME NEW q \in McpProcess, Tools!Start(q) \/ Tools!Look(q) \/ Tools!SaveLooks(q)
      PROVE  FALSE
  <2>1. toolPc[q] # "write" /\ \E s : toolPc' = [toolPc EXCEPT ![q] = s]
    BY <1>2 DEF Tools!Start, Tools!Look, Tools!SaveLooks
  <2> QED
    BY <1>1, <2>1
<1>3. ASSUME NEW q \in McpProcess, Tools!SaveWrites(q)
      PROVE  q = p
  <2>1. \E s : toolPc' = [toolPc EXCEPT ![q] = s]
    BY <1>3 DEF Tools!SaveWrites
  <2> QED
    BY <1>1, <2>1
<1>4. ASSUME NEW q \in McpProcess, Tools!Stop(q)
      PROVE  toolRows' = toolRows
  BY <1>4 DEF Tools!Stop
<1>5. (\E items \in ToolRequests : Tools!update(items)) \/ Tools!SaveItem => UNCHANGED toolPc
  BY DEF Tools!update, Tools!SaveItem
<1>6. UNCHANGED toolVars => UNCHANGED toolPc
  BY DEF toolVars
<1> QED
  BY <1>2, <1>3, <1>4, <1>5, <1>6, ToolSaveWritesPreserves DEF Tools!Next

LEMMA ToolStepKeeps ==
  ASSUME ToolIInv, [Tools!Next]_toolVars
  PROVE  Tools!ToolsKept
<1> SUFFICES ASSUME NEW p \in McpProcess
             PROVE  /\ toolPc[p] = "write" /\ toolPc'[p] # "write" => \A k \in before[p] : toolRows'[k] = toolRows[k]
                    /\ toolPc'[p] = "up" =>
                         /\ Tools!Keys \subseteq DOMAIN toolRows'
                         /\ Tools!enabledToolCount' =
                              Tools!Cardinality(Tools!findEnabledKeys' \ {"list_organization_activity"})
  BY DEF Tools!ToolsKept
<1>1. ToolIInv'
  BY ToolNextIInv
<1>2. toolPc'[p] = "up" => Tools!Keys \subseteq DOMAIN toolRows'
  BY <1>1 DEF ToolIInv, ToolCame
<1>3. Tools!findEnabledKeys' \subseteq Tools!Keys /\ Tools!findEnabledKeys' \subseteq DOMAIN toolRows'
  BY <1>1 DEF ToolIInv, Tools!findEnabledKeys
<1>4. Tools!findAllGrouped' = DOMAIN toolRows' \cap (Tools!Keys \ {"list_organization_activity"})
  BY ToolPageIs DEF Tools!findAllGrouped
<1>5. Tools!findEnabledKeys' \cap Tools!findAllGrouped' = Tools!findEnabledKeys' \ {"list_organization_activity"}
  BY <1>3, <1>4
<1>6. Tools!enabledToolCount' = Tools!Cardinality(Tools!findEnabledKeys' \cap Tools!findAllGrouped')
  BY DEF Tools!enabledToolCount
<1> QED
  BY <1>2, <1>5, <1>6, ToolWriteIs

ToolInFocus == focus = "tools" => ToolIInv

\* The invariant holds while processes start and switches are set.
LEMMA ToolMoves == MachinesSpec => []ToolInFocus
<1>1. MachinesInit => ToolInFocus
  BY ToolInitIInv DEF MachinesInit, ToolInFocus
<1>2. ToolInFocus /\ [MachinesNext]_machineVars => ToolInFocus'
  BY ToolNextIInv, OneMoves DEF ToolInFocus
<1> QED
  BY <1>1, <1>2, PTL DEF MachinesSpec

\* A start leaves the switches of tools alone that had a row, a process that is up
\* has a row for every tool, and the page counts the tools that clients get.
THEOREM SwitchesSurviveCorrect == MachinesSpec => SwitchesSurvive
<1>1. ToolInFocus /\ [MachinesNext]_machineVars
      => [focus = "tools" => Tools!ToolsKept]_machineVars
  BY ToolStepKeeps, OneMoves DEF ToolInFocus
<1> QED
  BY <1>1, ToolMoves, PTL DEF MachinesSpec, SwitchesSurvive
=============================================================================
