---------------------------- MODULE MatchRegistry ----------------------------
(***************************************************************************)
(* POST /matches and what it runs on the event loop: the creation cap of   *)
(* rate_limits.py, the sweep of registry.py and its eviction hook.  A      *)
(* match's driver is its start, its turns, its end and its return; each of *)
(* its turns reserves an action slot.                                      *)
(***************************************************************************)
EXTENDS SlidingWindows, FiniteSets, FiniteSetsExt

CONSTANTS
  Ids,            \* match ids
  Ips,            \* the addresses creation is bucketed by
  MaxMatches,     \* max_matches
  Retention, MaxAge, Unstarted,   \* the ages of MatchRegistry
  CreationCap, CreationSpan,      \* max_match_creations_per_ip_per_min
  ActionCap, ActionSpan,          \* max_actions_per_match_per_sec
  PruneThreshold, \* _PRUNE_THRESHOLD
  MaxClock,       \* bound: how far the clock goes
  MaxSlots,       \* bound: actions, of all the matches
  MaxPosts        \* bound: creation requests

ASSUME RegistryAssumption ==
  /\ IsFiniteSet(Ids) /\ IsFiniteSet(Ips)
  /\ MaxMatches \in Nat \ {0}
  /\ {Retention, MaxAge, Unstarted, CreationSpan, ActionSpan} \subseteq Nat \ {0}
  /\ {CreationCap, ActionCap, PruneThreshold} \subseteq Nat \ {0}
  /\ {MaxClock, MaxSlots, MaxPosts} \subseteq Nat

VARIABLES
  now,      \* the monotonic clock
  windows,  \* RateLimiter._creations: a window for each address tracked
  pruneAt,  \* _prune_at: the size that calls for a scan, and the last scan
  matches,  \* MatchRegistry._matches
  driving,  \* the matches whose driver_active is set, evicted or not
  actions,  \* RateLimiter._actions
  ids,      \* the ids not given yet
  posts,    \* requests so far
  allowed,  \* history: the creations allowed to each address
  slots,    \* history: the slots given to each match
  changed,  \* history: when each match last changed
  busiest   \* history: the most addresses with a creation in one span

limiter == <<windows, pruneAt, posts, allowed, busiest>>
vars == <<now, limiter, matches, driving, actions, ids, slots, changed>>

\* "finished" and "aborted" are treated alike.
Terminal == {"ended"}

Init ==
  /\ now = 0
  /\ windows = <<>> /\ pruneAt = [size |-> PruneThreshold, scan |-> 0]
  /\ matches = <<>> /\ driving = {} /\ actions = <<>> /\ ids = Ids /\ posts = 0
  /\ allowed = [ip \in Ips |-> <<>>]
  /\ slots = [m \in Ids |-> <<>>]
  /\ changed = [m \in Ids |-> 0]
  /\ busiest = 0

Tick ==
  /\ now < MaxClock
  /\ now' = now + 1
  /\ UNCHANGED <<limiter, matches, driving, actions, ids, slots, changed>>

----------------------------------------------------------------------------
(* RateLimiter._window and check_match_creation *)

Fresh(w) == w # <<>> /\ w[Len(w)] > now - CreationSpan

\* A scan is due when an address is new and the dict has reached the size.  It
\* drops the stale windows and is due again when the survivors have doubled.
ScanDue(ip) ==
  /\ ip \notin DOMAIN windows
  /\ \/ Cardinality(DOMAIN windows) >= pruneAt.size
     \/ /\ Cardinality(DOMAIN windows) >= PruneThreshold
        /\ now - pruneAt.scan >= CreationSpan
\* Mutant: a scan drops every window.
SurvivorsNone == {}
Survivors == {ip \in DOMAIN windows : Fresh(windows[ip])}

\* Mutant: nothing is ever dropped.
TrackedForEver(ip) == DOMAIN windows \union {ip}
Tracked(ip) == (IF ScanDue(ip) THEN Survivors ELSE DOMAIN windows) \union {ip}

Window(ip) ==
  IF ip \in DOMAIN windows THEN Pruned(windows[ip], now, CreationSpan) ELSE <<>>

Active == {ip \in Ips : Fresh(allowed'[ip])}

CountCreation(ip, granted) ==
  /\ windows' = [k \in Tracked(ip) |->
       IF k # ip THEN windows[k]
       ELSE IF granted THEN Append(Window(ip), now) ELSE Window(ip)]
  /\ pruneAt' = IF ScanDue(ip)
                  THEN [size |-> Max({PruneThreshold, 2 * Cardinality(Survivors)}),
                        scan |-> now]
                  ELSE pruneAt
  /\ allowed' = IF granted THEN [allowed EXCEPT ![ip] = Append(@, now)] ELSE allowed
  /\ busiest' = Max({busiest, Cardinality(Active)})
  /\ posts < MaxPosts /\ posts' = posts + 1

----------------------------------------------------------------------------
(* MatchRegistry.evict_expired, and the hook of app.py *)

\* A sweep sees what has changed since the last one: every age is a minimum.
Seen(m) ==
  LET r == matches[m]
      activity == <<r.lifecycle, r.turns>>
  IN IF m \in driving \/ r.activity = activity THEN r
     ELSE [r EXCEPT !.activity = activity, !.at = now]

Limit(lifecycle) ==
  IF lifecycle \in Terminal THEN Retention
  ELSE IF lifecycle = "created" THEN Unstarted ELSE MaxAge

\* Mutant: a match ages from the sweep before, whatever has changed.
TooOldUnseen == {m \in DOMAIN matches \ driving :
  now - matches[m].at >= Limit(matches[m].lifecycle)}

TooOld == {m \in DOMAIN matches \ driving :
  now - Seen(m).at >= Limit(matches[m].lifecycle)}

\* Mutant: a match makes room while its driver tells its end.
SheddableDriven(m) == matches[m].lifecycle \in Terminal \union {"created"}
Sheddable(m) ==
  m \notin driving /\ matches[m].lifecycle \in Terminal \union {"created"}

\* Ended matches go before matches that have not begun, the oldest first.
GoesFirst(m, k) ==
  LET Class(x) == IF matches[x].lifecycle \in Terminal THEN 0 ELSE 1
  IN \/ Class(m) < Class(k)
     \/ Class(m) = Class(k) /\ Seen(m).at <= Seen(k).at

\* The matches shed for one more to fit, among those that are left.
Shed(left) ==
  LET can == {m \in left : Sheddable(m)}
      over == Cardinality(left) - MaxMatches + 1
  IN {D \in SUBSET can :
        /\ Cardinality(D) = IF over <= 0 THEN 0 ELSE Min({over, Cardinality(can)})
        /\ \A d \in D, k \in can \ D : GoesFirst(d, k)}

\* What the sweep keeps, and what the hook forgets.
Kept(gone) == [m \in DOMAIN matches \ gone |-> Seen(m)]
\* Mutant: the hook leaves the windows.
ForgetNothing(gone) == actions' = actions
ForgetMatches(gone) == actions' = [m \in DOMAIN actions \ gone |-> actions[m]]

Created == [lifecycle |-> "created", turns |-> 0, activity |-> <<"created", 0>>,
            at |-> now]

----------------------------------------------------------------------------
(* create_match_handler *)

\* 429, before the body is read.
TooMany(ip) ==
  /\ Len(Window(ip)) >= CreationCap
  /\ CountCreation(ip, FALSE)
  /\ UNCHANGED <<now, matches, driving, actions, ids, slots, changed>>

\* 400 or 413: the creation counts all the same.
BadRequest(ip) ==
  /\ Len(Window(ip)) < CreationCap
  /\ CountCreation(ip, TRUE)
  /\ UNCHANGED <<now, matches, driving, actions, ids, slots, changed>>

\* The sweep, then 503 when it has not made room, else the match.
Create(ip, m) ==
  /\ Len(Window(ip)) < CreationCap
  /\ m \in ids
  /\ CountCreation(ip, TRUE)
  /\ \E shed \in Shed(DOMAIN matches \ TooOld) :
       LET kept == Kept(TooOld \union shed)
       IN IF Cardinality(DOMAIN kept) >= MaxMatches
            THEN /\ matches' = kept
                 /\ UNCHANGED <<ids, changed>>
            ELSE /\ matches' = [k \in DOMAIN kept \union {m} |->
                                  IF k = m THEN Created ELSE kept[k]]
                 /\ ids' = ids \ {m} /\ changed' = [changed EXCEPT ![m] = now]
  /\ ForgetMatches(DOMAIN matches \ DOMAIN matches')
  /\ UNCHANGED <<now, driving, slots>>

----------------------------------------------------------------------------
(* The driver of a match *)

Step(m, r) ==
  /\ matches' = [matches EXCEPT ![m] = r]
  /\ changed' = [changed EXCEPT ![m] = now]

Start(m) ==
  /\ m \in DOMAIN matches /\ matches[m].lifecycle = "created"
  /\ Step(m, [matches[m] EXCEPT !.lifecycle = "running"])
  /\ driving' = driving \union {m}
  /\ UNCHANGED <<now, limiter, actions, ids, slots>>

\* What RateLimiter._actions remembers of a match.
ActionsOf(m) == IF m \in DOMAIN actions THEN actions[m] ELSE <<>>

Remember(m, window) ==
  actions' = [k \in DOMAIN actions \union {m} |-> IF k = m THEN window ELSE actions[k]]

\* Mutant: the slot is the moment the action arrives.
ReserveAtOnce(m) ==
  /\ m \in driving
  /\ MapThenSumSet(LAMBDA k : Len(slots[k]), Ids) < MaxSlots
  /\ Remember(m, Append(ActionsOf(m), now))
  /\ slots' = [slots EXCEPT ![m] = Append(@, now)]
  /\ UNCHANGED <<now, limiter, matches, driving, ids, changed>>

\* The driver reads an action and reserves its slot; its turn is committed then.
\* Nothing here asks whether the match is still registered: setdefault would bring
\* back the window of one that is gone.
Reserve(m) ==
  LET w == Pruned(ActionsOf(m), now, ActionSpan)
      slot == Slot(w, now, ActionSpan, ActionCap)
  IN /\ m \in driving
     /\ MapThenSumSet(LAMBDA k : Len(slots[k]), Ids) < MaxSlots
     /\ Remember(m, Append(w, slot))
     /\ slots' = [slots EXCEPT ![m] = Append(@, slot)]
     /\ UNCHANGED <<now, limiter, matches, driving, ids, changed>>

Playing(m) == m \in driving /\ m \in DOMAIN matches /\ matches[m].lifecycle = "running"

Commit(m) ==
  /\ Playing(m)
  /\ matches[m].turns < Len(slots[m]) /\ slots[m][matches[m].turns + 1] <= now
  /\ Step(m, [matches[m] EXCEPT !.turns = @ + 1])
  /\ UNCHANGED <<now, limiter, driving, actions, ids, slots>>

End(m) ==
  /\ Playing(m)
  /\ Step(m, [matches[m] EXCEPT !.lifecycle = "ended"])
  /\ UNCHANGED <<now, limiter, driving, actions, ids, slots>>

\* The driver returns; a match it failed to abort stays "running".
Return(m) ==
  /\ m \in driving
  /\ driving' = driving \ {m}
  /\ UNCHANGED <<now, limiter, matches, actions, ids, slots, changed>>

Next ==
  \/ Tick
  \/ \E ip \in Ips : TooMany(ip) \/ BadRequest(ip) \/ \E m \in Ids : Create(ip, m)
  \/ \E m \in Ids : Start(m) \/ Reserve(m) \/ Commit(m) \/ End(m) \/ Return(m)

Spec == Init /\ [][Next]_vars

----------------------------------------------------------------------------
(* Properties *)

\* No address is allowed more than its cap of creations in any span, although the
\* windows of quiet addresses are dropped on the way.
CreationRate == \A ip \in Ips : KeepsRate(allowed[ip], CreationSpan, CreationCap)

\* The dicts of windows do not grow for the life of the process: that of addresses
\* holds the threshold, or twice the addresses that have been active at once, and
\* that of matches no match that is gone.
WindowsBounded ==
  /\ Cardinality(DOMAIN windows) <= Max({PruneThreshold, 2 * busiest})
  /\ DOMAIN actions \subseteq DOMAIN matches

\* A match someone plays, or whose end is being told, is never evicted.  Any other
\* goes when it has not changed for its limit, counted from the change itself and
\* not from the sweep that saw it, or to make room, and then it is not running.
LimitsAreMinima ==
  [][\A m \in DOMAIN matches \ DOMAIN matches' :
       /\ m \notin driving
       /\ \/ now - changed[m] >= Limit(matches[m].lifecycle)
          \/ Sheddable(m) /\ Cardinality(DOMAIN matches) >= MaxMatches]_vars

\* Each match's actions are ActionSlots', whatever the other matches do: an action is
\* given the first moment the cap allows, counted from every slot the match was ever
\* given and not only from those its window still holds, and never once it is evicted.
Slots(m) == INSTANCE ActionSlots WITH
  Cap <- ActionCap, Span <- ActionSpan,
  granted <- slots[m],
  over <- m \notin DOMAIN matches
ActionsKeepTheirSlots ==
  [][\A m \in Ids : [Slots(m)!Next]_(Slots(m)!vars)]_vars
=============================================================================
