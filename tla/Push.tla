--------------------------------- MODULE Push ---------------------------------
(***************************************************************************)
(* Web push (src/push): the subscriptions and the preferences of users,    *)
(* changed by requests that come one after another but may die half way,   *)
(* and the hourly tick that reminds users of the tasks that are due.       *)
(*                                                                         *)
(* The tick goes on while requests change what it reads, while midnight    *)
(* passes, and is lost in a restart; it takes less than an hour, so that   *)
(* there is one at a time.                                                 *)
(***************************************************************************)
EXTENDS Naturals, FiniteSets

CONSTANTS
  User,
  Browser, \* endpoints
  Nobody,
  MaxDay   \* bound: days that pass

VARIABLES
  owner,   \* push_subscriptions: the user of an endpoint
  prefs,   \* push_preferences: is there a row, opted in, notify_due_today
  at, who, ent, \* the request: where it is, its user, its entity
  torn,    \* a request has died half way
  today,
  lastDayKey, sentToday, \* what the scheduler has in memory
  tick,    \* where its tick is,
  dayKey,  \* the day on which it began,
  left,    \* the users it goes through
  started, \* for the property: the process has started on this day,
  told     \* how often a user was told on such a day by ticks of the day

request == <<at, who, ent>>
memory  == <<lastDayKey, sentToday, tick, dayKey, left>>
vars    == <<owner, prefs, request, torn, today, memory, started, told>>

Unset   == [row |-> FALSE, in |-> FALSE, due |-> TRUE]
Of(u)   == { b \in Browser : owner[b] = u }

Return == at' = "idle" /\ who' = Nobody /\ ent' = Unset

Init ==
  /\ owner = [b \in Browser |-> Nobody]
  /\ prefs = [u \in User |-> Unset]
  /\ at = "idle" /\ who = Nobody /\ ent = Unset
  /\ torn = FALSE
  /\ today = 1
  /\ lastDayKey = 0 /\ sentToday = {}
  /\ tick = "start" /\ dayKey = 0 /\ left = {}
  /\ started = TRUE
  /\ told = [u \in User |-> 0]

-----------------------------------------------------------------------------
(* Requests                                                                *)

\* Found by its endpoint a subscription changes hands, otherwise it is new.
upsertSubscription(u, b) ==
  /\ at = "idle"
  /\ owner' = [owner EXCEPT ![b] = u]
  /\ at' = "optIn" /\ who' = u
  /\ UNCHANGED <<prefs, ent, torn, today, memory, started, told>>

ensureOptedIn ==
  /\ at = "optIn"
  /\ ent' = [prefs[who] EXCEPT !.row = TRUE, !.in = TRUE]
  /\ at' = "save"
  /\ UNCHANGED <<owner, prefs, who, torn, today, memory, started, told>>

deleteSubscription(u, b) ==
  /\ at = "idle"
  /\ owner' = [owner EXCEPT ![b] = IF @ = u THEN Nobody ELSE @]
  /\ at' = "count" /\ who' = u
  /\ UNCHANGED <<prefs, ent, torn, today, memory, started, told>>

\* Mutant: the user is opted out whatever remains.
OptOutAtOnce ==
  /\ at = "count"
  /\ IF prefs[who].row
     THEN ent' = [prefs[who] EXCEPT !.in = FALSE] /\ at' = "save" /\ UNCHANGED who
     ELSE Return
  /\ UNCHANGED <<owner, prefs, torn, today, memory, started, told>>

setOptedOut ==
  /\ at = "count"
  /\ IF Of(who) = {} /\ prefs[who].row
     THEN ent' = [prefs[who] EXCEPT !.in = FALSE] /\ at' = "save" /\ UNCHANGED who
     ELSE Return
  /\ UNCHANGED <<owner, prefs, torn, today, memory, started, told>>

updatePreferences(u, optedIn, due) ==
  /\ at = "idle"
  /\ ent' = [row |-> TRUE, in |-> IF optedIn = "keep" THEN prefs[u].in ELSE optedIn = "in", due |-> due]
  /\ at' = IF optedIn = "out" THEN "clear" ELSE "save"
  /\ who' = u
  /\ UNCHANGED <<owner, prefs, torn, today, memory, started, told>>

\* Whoever opts out keeps no subscription.
ClearSubscriptions ==
  /\ at = "clear"
  /\ owner' = [b \in Browser |-> IF owner[b] = who THEN Nobody ELSE owner[b]]
  /\ at' = "save"
  /\ UNCHANGED <<prefs, who, ent, torn, today, memory, started, told>>

SavePreferences ==
  /\ at = "save"
  /\ prefs' = [prefs EXCEPT ![who] = ent]
  /\ Return
  /\ UNCHANGED <<owner, torn, today, memory, started, told>>

-----------------------------------------------------------------------------
(* The tick                                                                *)

\* On start, and when an hour has passed.
Tick ==
  /\ tick = "start"
  /\ dayKey' = today
  /\ lastDayKey' = today
  /\ sentToday' = IF today # lastDayKey THEN {} ELSE sentToday
  /\ tick' = "list"
  /\ UNCHANGED <<owner, prefs, request, torn, today, left, started, told>>

listOptedInUserIdsForDueToday ==
  /\ tick = "list"
  /\ left' = { u \in User : prefs[u].in /\ prefs[u].due }
  /\ tick' = "next"
  /\ UNCHANGED <<owner, prefs, request, torn, today, lastDayKey, sentToday, dayKey, started, told>>

\* An endpoint that is gone is pruned, any other failure is ignored.
sendToSubscription(b, gone) == IF gone THEN Nobody ELSE owner[b]

\* A user is notified if the preferences still say so.
notifyUser(u) ==
  IF prefs[u].in /\ prefs[u].due /\ Of(u) # {}
  THEN /\ \E gone \in SUBSET Of(u) : owner' = [b \in Browser |-> sendToSubscription(b, b \in gone)]
       /\ told' = IF dayKey = today /\ ~started THEN [told EXCEPT ![u] = @ + 1] ELSE told
  ELSE UNCHANGED <<owner, told>>

\* A user with tasks that are due is notified, and noted as told in any case.
\* A user with none is passed over.
NextUser(u) ==
  /\ tick = "next"
  /\ u \in left
  /\ left' = left \ {u}
  /\ \/ UNCHANGED <<owner, sentToday, told>>
     \/ /\ u \notin sentToday
        /\ sentToday' = sentToday \cup {u}
        /\ notifyUser(u)
  /\ UNCHANGED <<prefs, request, torn, today, lastDayKey, tick, dayKey, started>>

\* The users are done, or a query has failed.
EndTick ==
  /\ tick \in {"list", "next"}
  /\ tick' = "start" /\ dayKey' = 0 /\ left' = {}
  /\ UNCHANGED <<owner, prefs, request, torn, today, lastDayKey, sentToday, started, told>>

Midnight ==
  /\ today < MaxDay
  /\ today' = today + 1
  /\ started' = FALSE
  /\ told' = [u \in User |-> 0]
  /\ UNCHANGED <<owner, prefs, request, torn, memory>>

Restart ==
  /\ Return
  /\ torn' = (torn \/ at # "idle")
  /\ lastDayKey' = 0 /\ sentToday' = {}
  /\ tick' = "start" /\ dayKey' = 0 /\ left' = {}
  /\ started' = TRUE
  /\ told' = [u \in User |-> 0]
  /\ UNCHANGED <<owner, prefs, today>>

Next ==
  \/ \E u \in User, b \in Browser : upsertSubscription(u, b) \/ deleteSubscription(u, b)
  \/ \E u \in User, optedIn \in {"in", "out", "keep"}, due \in BOOLEAN :
       updatePreferences(u, optedIn, due)
  \/ ensureOptedIn \/ setOptedOut \/ ClearSubscriptions \/ SavePreferences
  \/ Tick \/ listOptedInUserIdsForDueToday \/ EndTick
  \/ \E u \in User : NextUser(u)
  \/ Midnight \/ Restart

Spec == Init /\ [][Next]_vars
-----------------------------------------------------------------------------
(* Properties                                                              *)

\* Whoever has a browser subscribed is opted in, whatever else they have
\* changed and wherever a subscription has gone, unless a request died.
SubscribedIsOptedIn ==
  at = "idle" /\ ~torn => \A b \in Browser : owner[b] # Nobody => prefs[owner[b]].in

\* "once per calendar day" (push-due-today.scheduler.ts:11): as long as the
\* process was not started on a day, its ticks tell nobody twice, although
\* preferences and subscriptions change between them.
ToldOnceADay == \A u \in User : told[u] <= 1
=============================================================================
