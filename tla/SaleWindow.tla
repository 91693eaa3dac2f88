----------------------------- MODULE SaleWindow -----------------------------
(***************************************************************************)
(* The window of a sale (app/services/sales.py, app/routers/sales.py): it  *)
(* is typed as two wall-clock times and a zone, kept as two instants of    *)
(* UTC, and gives the sale its phase.  A zone is one whose offset changes  *)
(* once, at an instant of UTC: changes are months apart, so a window is    *)
(* never near two of them.  Instants, wall-clock times and offsets are     *)
(* integers of one unit.                                                   *)
(***************************************************************************)
EXTENDS Integers

Zones == [change : Int, before : Int, after : Int]

\* now.astimezone(ZoneInfo(tz))
ToLocal(u, z) == u + (IF u < z.change THEN z.before ELSE z.after)

\* Two instants share a wall-clock time after the clock is put back; a
\* wall-clock time is skipped when it is put forward.
Skipped(l, z) == z.change + z.before <= l /\ l < z.change + z.after

Later(a, b) == IF a < b THEN b ELSE a

\* to_utc, with fold=0: zoneinfo takes the offset from before the change up to
\* the later of the change's two wall-clock times.
ToUtc(l, z) ==
    l - (IF l < z.change + Later(z.before, z.after) THEN z.before ELSE z.after)

\* SaleCreateRequest._check_window compares what was typed, create_sale what
\* will be stored.
Accepts(starts, ends, z) == starts < ends /\ ToUtc(starts, z) < ToUtc(ends, z)

Window(starts, ends, z) == [starts |-> ToUtc(starts, z), ends |-> ToUtc(ends, z)]

Phase(w, now) ==
    IF now < w.starts THEN "upcoming" ELSE IF now < w.ends THEN "active" ELSE "ended"

Rank == [upcoming |-> 0, active |-> 1, ended |-> 2]

=============================================================================
