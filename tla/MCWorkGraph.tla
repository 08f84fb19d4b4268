----------------------------- MODULE MCWorkGraph -----------------------------
(* Two Plans.  Revisions: two Tasks in order, its successor by another     *)
(* task_id, one that uses a Task of another Plan's again, one with a cycle *)
(* and one whose parent is another Plan's.                                 *)
EXTENDS WorkGraph

CONSTANTS p1, p2, r1, r2, r3, t1, t2, t3

Def(r, p, parent, tasks, deps) ==
    [revision |-> r, plan |-> p, parent |-> parent, tasks |-> tasks, dependencies |-> deps]

MCDefinitions ==
    { Def(r1, p1, NoRevision, {t1, t2}, {<<t1, t2>>}),
      Def(r2, p1, r1, {t3}, {}),
      Def(r2, p1, NoRevision, {t2, t3}, {<<t2, t3>>, <<t3, t2>>}),
      Def(r3, p2, NoRevision, {t2}, {}),
      Def(r3, p2, r1, {t3}, {}) }
=============================================================================
