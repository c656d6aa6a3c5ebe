--------------------------- MODULE MCJobController ---------------------------
(* Model-checking instance of JobController: a job on a connection that comes *)
(* and goes, while it is started or once it runs; a job restarted, closed and *)
(* pruned; two started for one block at once; and jobs that run when the      *)
(* server starts.                                                             *)
EXTENDS JobController, TLC

CONSTANTS j1, j2

Calm == [runs |-> {}, up |-> TRUE, jobs |-> {}, flaps |-> 0, deaths |-> 0,
         commands |-> 0, rounds |-> 0, ends |-> FALSE]

MCScenes ==
  { [Calm EXCEPT !.jobs = {j1}, !.flaps = 1, !.ends = TRUE],
    [Calm EXCEPT !.jobs = {j1}, !.flaps = 1, !.commands = 1],
    [Calm EXCEPT !.jobs = {j1}, !.commands = 1, !.rounds = 2],
    [Calm EXCEPT !.jobs = {j1, j2}],
    [Calm EXCEPT !.runs = {j1}, !.flaps = 2, !.ends = TRUE],
    [Calm EXCEPT !.runs = {j1}, !.flaps = 2, !.commands = 1],
    [Calm EXCEPT !.runs = {j1}, !.deaths = 1, !.commands = 2, !.ends = TRUE],
    [Calm EXCEPT !.runs = {j1}, !.jobs = {j2}, !.commands = 2],
    [Calm EXCEPT !.runs = {j1}, !.jobs = {j2}, !.commands = 1, !.rounds = 2],
    [Calm EXCEPT !.runs = {j1, j2}, !.up = FALSE, !.flaps = 1],
    [Calm EXCEPT !.runs = {j1}, !.up = FALSE, !.flaps = 1, !.commands = 1, !.ends = TRUE] }
=============================================================================
