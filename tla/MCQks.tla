------------------------------- MODULE MCQks --------------------------------
(***************************************************************************)
(* Instances of QksProperties for TLC.  A workload is the set of events    *)
(* that callers may inject, in any order and at any time.                  *)
(***************************************************************************)
EXTENDS QksProperties

\* What the simulator injects in role A, and in role B.
RoleA == {<<"KEY_REFILL", "SLAVE">>, <<"DEVICE_AUTH", "MASTER">>,
          <<"CLOCK_SYNC", "MASTER">>}
RoleB == {<<"KEY_REFILL", "MASTER">>, <<"DEVICE_AUTH", "SLAVE">>,
          <<"CLOCK_SYNC", "SLAVE">>}

\* All of them: each worker's events in both directions.
BothRoles == RoleA \union RoleB

\* Events of both priority levels that can preempt, be preempted and wait,
\* and one that must not wait.
Preempting == {<<"KEY_REFILL", "MASTER">>, <<"DEVICE_AUTH", "MASTER">>,
               <<"CLOCK_SYNC", "SLAVE">>}

\* One of each direction, and the SLAVE event preempts the other.
OneEach == {<<"KEY_REFILL", "MASTER">>, <<"DEVICE_AUTH", "SLAVE">>}

=============================================================================
