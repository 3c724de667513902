------------------------------ MODULE Heartbeat ------------------------------
(***************************************************************************)
(* Source liveness (harness/analysis/heartbeat.py): the observations of    *)
(* one log source are folded into one beat per host.  Pure operators over  *)
(* sets of observations; times and intervals are natural numbers of one    *)
(* unit, and grace counts half intervals, so that a grace below one and    *)
(* thresholds that fall between two instants are among the cases.          *)
(***************************************************************************)
EXTENDS Integers, FiniteSets, FiniteSetsExt

\* One event's contribution: who sent it, when, and (events being counted
\* singly) which line it was.
Observation(host, at, line) == [host |-> host, at |-> at, line |-> line]

NeverSeen == -1
BeatStates == {"alive", "late", "silent"}

From(observations, host) == {o \in observations : o.host = host}

Latest(observations, host) == Max({o.at : o \in From(observations, host)})

\* A clock ahead of ours is not a dead host: its age is zero.
Age(as_of, last_seen) == IF last_seen > as_of THEN 0 ELSE as_of - last_seen

\* Both limits are inclusive.
StateOf(age, interval, grace) ==
    IF age <= interval THEN "alive"
    ELSE IF 2 * age <= interval * grace THEN "late" ELSE "silent"

\* The inventory names the hosts no observation can name.
HostsOf(observations, expected) == {o.host : o \in observations} \cup expected

Beat(observations, host, as_of, interval, grace) ==
    IF From(observations, host) = {}
    THEN [last_seen |-> NeverSeen, events |-> 0, state |-> "silent"]
    ELSE LET last_seen == Latest(observations, host)
         IN  [last_seen |-> last_seen,
              events |-> Cardinality(From(observations, host)),
              state |-> StateOf(Age(as_of, last_seen), interval, grace)]

build_heartbeat(observations, as_of, interval, grace, expected) ==
    [host \in HostsOf(observations, expected) |->
        Beat(observations, host, as_of, interval, grace)]

In(report, state) == {host \in DOMAIN report : report[host].state = state}

\* Late is not unhealthy; silent is.
healthy(report) == In(report, "silent") = {}

\* As-of defaults to the newest observation of the source that is asked about.
DefaultAsOf(observations, now) ==
    IF observations = {} THEN now ELSE Max({o.at : o \in observations})

=============================================================================
