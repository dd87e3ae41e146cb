---------------------------- MODULE BrowserLeases ----------------------------
(***************************************************************************)
(* Browser resource leases: a process holds the profile and the page of a  *)
(* worker slot through one durable row that expires.  The rows are those of*)
(* storage/runtime_control.py; the holders are the processes that run the  *)
(* slot, each with the broker of apply/durable_browser_broker.py and, while*)
(* it has a job, the bundle that apply/browser_authority.py keeps in it.   *)
(* All processes here run the same slot number, so the scope is one and a  *)
(* page is its attempt.  Page epochs are modelled in SemanticWrites.       *)
(***************************************************************************)
EXTENDS RuntimeBase, FiniteSets, FiniteSetsExt

CONSTANTS
  Leases,         \* lease ids; the code draws a fresh one per acquisition
  Runtimes,       \* runtime ids: the backend and browser of a turn
  Profiles,       \* browser profiles of the slot
  TurnTtl,        \* ticks that a turn leases: the application lease of the settings
  HandoffTtl,     \* ticks of a heartbeat while a person works, capped at an hour
  DefaultTtl      \* ticks of a page advance: the broker's own default

ASSUME LeaseAssumption ==
  /\ TurnTtl \in Nat \ {0} /\ HandoffTtl \in Nat \ {0} /\ DefaultTtl \in Nat \ {0}
  /\ None \notin Leases \cup Runtimes \cup Profiles

VARIABLES
  row,    \* row[l]: the lease row; "free" if it was never inserted
  known,  \* known[p]: the leases that the broker of p remembers
  seat    \* seat[p]: the job of p, its bundle, and an acquisition that is under way

leaseVars == <<row, known, seat>>

NoRow == [status |-> "free", holder |-> None, attempt |-> None, runtime |-> None,
          profile |-> None, epoch |-> 0, expires |-> 0]

Idle == [pc |-> "idle", attempt |-> None, bundle |-> None, runtime |-> None,
         profile |-> None, found |-> None, latest |-> 0, at |-> 0]

LeaseTypeOK ==
  /\ row \in [Leases -> [status : {"free", "active", "expired", "released"},
                         holder : Processes \cup {None}, attempt : Attempts \cup {None},
                         runtime : Runtimes \cup {None}, profile : Profiles \cup {None},
                         epoch : Nat, expires : Nat]]
  /\ known \in [Processes -> SUBSET Leases]
  /\ seat \in [Processes ->
       [pc : {"idle", "acquiring", "dead"}, attempt : Attempts \cup {None},
        bundle : Leases \cup {None}, runtime : Runtimes \cup {None},
        profile : Profiles \cup {None}, found : Leases \cup {None}, latest : Nat, at : Nat]]

LeaseInit ==
  /\ row = [l \in Leases |-> NoRow]
  /\ known = [p \in Processes |-> {}]
  /\ seat = [p \in Processes |-> Idle]

-----------------------------------------------------------------------------
(* The table *)

Active(rows) == {l \in Leases : rows[l].status = "active"}

\* The rows after those in S whose time is over have been marked.
Expired(S, instant) ==
  [l \in Leases |->
     IF l \in S /\ row[l].status = "active" /\ row[l].expires <= instant
     THEN [row[l] EXCEPT !.status = "expired"] ELSE row[l]]

\* Mutant of Contenders: the page is not looked at.
SameProfile(a, f) == {l \in Leases : row[l].profile = f}

\* The rows that contend for a profile or for the page of an attempt.
Contenders(a, f) == {l \in Leases : row[l].profile = f \/ row[l].attempt = a}

Latest(f) == Max({0} \cup {row[l].epoch : l \in {k \in Leases : row[k].profile = f}})

LiveRow(l) == row[l].status = "active" /\ row[l].expires > now

-----------------------------------------------------------------------------
(* Acquisition: inspect, then insert or renew, with one reading of the clock *)

\* inspect_browser_resource_lease_state.  Somebody else's live row ends the acquisition.
Inspect(p, a, r, f) ==
  LET rows == Expired(Contenders(a, f), now)
      live == Active(rows) \cap Contenders(a, f)
      exact(l) == rows[l].holder = p /\ rows[l].attempt = a
                  /\ rows[l].runtime = r /\ rows[l].profile = f
  IN /\ row' = rows
     /\ IF \A l \in live : exact(l)
        THEN \E found \in IF live = {} THEN {None} ELSE live :
               seat' = [seat EXCEPT ![p] =
                 [@ EXCEPT !.pc = "acquiring", !.attempt = a, !.runtime = r, !.profile = f,
                           !.found = found, !.latest = Latest(f), !.at = now]]
        ELSE seat' = [seat EXCEPT ![p] = IF @.bundle = None THEN Idle ELSE @]

\* The first turn of a job, which may be a job that another process began, or the turn
\* after a switch.
StartJob(p, a, r, f) ==
  /\ seat[p].pc = "idle"
  /\ seat[p].bundle = None
  /\ seat[p].attempt \in {a, None}
  /\ Inspect(p, a, r, f)
  /\ UNCHANGED known

\* reacquire_current: the identity is the one of the bundle.
Reacquire(p) ==
  /\ seat[p].pc = "idle"
  /\ seat[p].bundle # None
  /\ Inspect(p, seat[p].attempt, seat[p].runtime, seat[p].profile)
  /\ UNCHANGED known

InsertAllowed(p) ==
  /\ Latest(seat[p].profile) = seat[p].latest
  /\ Active(Expired(Contenders(seat[p].attempt, seat[p].profile), seat[p].at))
       \cap Contenders(seat[p].attempt, seat[p].profile) = {}

Remember(p, l) ==
  /\ known' = [known EXCEPT ![p] = @ \cup {l}]
  /\ seat' = [seat EXCEPT ![p] = [@ EXCEPT !.pc = "idle", !.bundle = l,
                                           !.found = None, !.latest = 0, !.at = 0]]

\* The turn fails; a job without a bundle is given up.
Fail(p) ==
  /\ seat' = [seat EXCEPT ![p] =
       IF @.bundle = None THEN Idle
       ELSE [@ EXCEPT !.pc = "idle", !.found = None, !.latest = 0, !.at = 0]]
  /\ UNCHANGED known

\* acquire_browser_resource_lease.  A refusal rolls its marks back.
Insert(p) ==
  /\ seat[p].pc = "acquiring"
  /\ seat[p].found = None
  /\ IF InsertAllowed(p)
     THEN \E l \in {k \in Leases : row[k].status = "free"} :
            /\ row' = [Expired(Contenders(seat[p].attempt, seat[p].profile), seat[p].at)
                 EXCEPT ![l] = [status |-> "active", holder |-> p, attempt |-> seat[p].attempt,
                                runtime |-> seat[p].runtime, profile |-> seat[p].profile,
                                epoch |-> seat[p].latest + 1,
                                expires |-> seat[p].at + TurnTtl]]
            /\ Remember(p, l)
     ELSE Fail(p) /\ UNCHANGED row

\* _renew_or_advance on a row of one's own.  An expiry never moves back; a row whose
\* time is over is marked, and that mark is committed although the call fails.
Renewable(l, instant, ttl) ==
  row[l].status = "active" /\ row[l].expires > instant /\ instant + ttl >= row[l].expires

Renewed(l, instant, ttl) ==
  IF Renewable(l, instant, ttl) THEN [row EXCEPT ![l].expires = instant + ttl]
  ELSE Expired({l}, instant)

RenewFound(p) ==
  /\ seat[p].pc = "acquiring"
  /\ seat[p].found # None
  /\ row' = Renewed(seat[p].found, seat[p].at, TurnTtl)
  /\ IF Renewable(seat[p].found, seat[p].at, TurnTtl) THEN Remember(p, seat[p].found) ELSE Fail(p)

-----------------------------------------------------------------------------
(* Keeping a bundle *)

Heartbeat(p, ttl) ==
  /\ seat[p].pc = "idle"
  /\ seat[p].bundle # None
  /\ row' = Renewed(seat[p].bundle, now, ttl)
  /\ UNCHANGED <<known, seat>>

\* Mutant of OperatorHandoff: the hour's cap on a wait is forgotten.
HandoffUncapped(p) == Heartbeat(p, TurnTtl + HandoffTtl)

OperatorHandoff(p) == Heartbeat(p, HandoffTtl)

AdvancePage(p) == Heartbeat(p, DefaultTtl)

\* The next turn of the same identity: continue_bundle renews.
ContinueSame(p) ==
  /\ seat[p].bundle \in known[p]
  /\ Heartbeat(p, TurnTtl)

-----------------------------------------------------------------------------
(* Release *)

\* Mutant of ScopeIs: whoever runs the slot may release it.
ScopeIsAnybodys(p, T, rows) == TRUE

\* The active rows of the scope are exactly T, and T is one authority of p.
ScopeIs(p, T, rows) ==
  /\ Active(rows) = T
  /\ \A l \in T : rows[l].holder = p
  /\ \A l, k \in T : rows[l].attempt = rows[k].attempt /\ rows[l].runtime = rows[k].runtime

Released(rows) ==
  [l \in Leases |-> IF l \in Active(rows) THEN [rows[l] EXCEPT !.status = "released"]
                                          ELSE rows[l]]

\* release_browser_resource_scope.  A scope that is not exactly T rolls back; tokens
\* that expired fail the call but keep the marks.  Only a success forgets the tokens.
ReleaseScope(p, T, rows) ==
  /\ rows = Expired(Leases, now)
  /\ row' = IF Active(rows) = {} THEN rows
            ELSE IF ScopeIs(p, T, rows) THEN Released(rows) ELSE row
  /\ known' = [known EXCEPT ![p] = IF \A l \in T : row'[l].status = "released" THEN @ \ T ELSE @]

OneAuthority(T) ==
  \A l, k \in T : row[l].attempt = row[k].attempt /\ row[l].runtime = row[k].runtime

\* The job is over; whether or not the release succeeds, the job is gone.
EndJob(p) ==
  /\ seat[p].pc = "idle"
  /\ seat[p].bundle # None
  /\ ReleaseScope(p, {seat[p].bundle}, Expired(Leases, now))
  /\ seat' = [seat EXCEPT ![p] = Idle]

\* The browser is closed or replaced: everything the broker remembers of the slot.
CleanupWorker(p) ==
  /\ seat[p].pc = "idle"
  /\ known[p] # {}
  /\ OneAuthority(known[p])
  /\ ReleaseScope(p, known[p], Expired(Leases, now))
  /\ UNCHANGED seat

\* The next turn has another identity: release everything, then acquire.  It may not
\* do so after Submit began or on an existing page, which changes nothing.  A bundle
\* that expired comes here too, and then the release fails.
Switch(p) ==
  /\ seat[p].pc = "idle"
  /\ seat[p].bundle \in known[p]
  /\ OneAuthority(known[p])
  /\ ReleaseScope(p, known[p], Expired(Leases, now))
  /\ seat' = [seat EXCEPT ![p].bundle = IF @ \in known'[p] THEN @ ELSE None]

\* The process dies and its broker with it; the rows stay until they expire.
LeaseCrash(p) ==
  /\ seat[p].pc # "dead"
  /\ seat' = [seat EXCEPT ![p] = [Idle EXCEPT !.pc = "dead"]]
  /\ known' = [known EXCEPT ![p] = {}]
  /\ UNCHANGED row

HolderStep(p) ==
  \/ \E a \in Attempts, r \in Runtimes, f \in Profiles : StartJob(p, a, r, f)
  \/ Reacquire(p) \/ Insert(p) \/ RenewFound(p)
  \/ OperatorHandoff(p) \/ AdvancePage(p) \/ ContinueSame(p)
  \/ EndJob(p) \/ CleanupWorker(p) \/ Switch(p)
  \/ LeaseCrash(p)

LeaseNext ==
  \/ (\E p \in Processes : HolderStep(p)) /\ UNCHANGED now
  \/ Tick /\ UNCHANGED leaseVars

LeaseSpec == now = 0 /\ LeaseInit /\ [][LeaseNext]_<<now, leaseVars>>

-----------------------------------------------------------------------------
(* Properties *)

\* Fencing: while its holder can still use a lease, it is the newest of its profile,
\* and no other row is active for its profile or for its page, although inspection
\* and insertion are two transactions and read the clock once.
HolderIsNewest ==
  \A l \in Leases : LiveRow(l) => \A k \in Leases \ {l} :
    /\ row[k].status = "active" =>
         row[k].profile # row[l].profile /\ row[k].attempt # row[l].attempt
    /\ row[k].profile = row[l].profile => row[k].epoch < row[l].epoch

\* A process that lives can name every row that it keeps active, so that closing the
\* browser, a retry or the next job finds and releases it: nothing is blocked longer
\* than an expiry.
ActiveIsKnown ==
  \A l \in Active(row) :
    LET p == row[l].holder IN seat[p].pc = "dead" \/ l \in known[p]

\* The page of a live bundle can always be advanced.  The expiry may not move back, so
\* this needs every lease to be at most as long as the one that an advance asks for.
BundleCanAdvance ==
  \A p \in Processes : seat[p].bundle # None /\ LiveRow(seat[p].bundle) =>
    Renewable(seat[p].bundle, now, DefaultTtl)

\* The registry and the brokers that use it agree on who has what, and the holder can go on.
LeasesAgree == HolderIsNewest /\ ActiveIsKnown /\ BundleCanAdvance

\* A live row ends only by its own holder, in a step in which its broker forgets it, or
\* by its expiry: another process on the same slot number never takes it away.
OnlyHolderEnds ==
  [][\A l \in Leases : row[l].status = "active" /\ row'[l].status # "active" =>
       \/ row[l].expires <= now /\ row'[l].status = "expired"
       \/ l \in known[row[l].holder] \ known'[row[l].holder]]_leaseVars

=============================================================================
