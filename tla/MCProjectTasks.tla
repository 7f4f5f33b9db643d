--------------------------- MODULE MCProjectTasks ---------------------------
EXTENDS ProjectTasks

CONSTANTS c1, c2, c3

Create(t, p) == [do |-> "create", task |-> t, priority |-> p]
Patch(t, p) == [do |-> "patch", task |-> t, priority |-> p]
Bulk(ts) == [do |-> "bulk", tasks |-> ts]
DeleteProject == [do |-> "delete_project"]

One == 1 :> 1
Two == (1 :> 1) @@ (2 :> 1)
Ranked == (1 :> 1) @@ (2 :> 2)

\* Three calls without a fault, and two with one.
Three(tasks, x, y, z) ==
  [tasks |-> tasks, cmd |-> (c1 :> x) @@ (c2 :> y) @@ (c3 :> z), faults |-> 0]
Faulty(tasks, x, y) ==
  [tasks |-> tasks, cmd |-> (c1 :> x) @@ (c2 :> y), faults |-> 1]

Chosen ==
  {Three(One, Create(2, 2), Create(3, 0), Create(2, 0)),
   Three(One, Create(2, 2), Create(2, 0), Bulk(<<2>>)),
   Faulty(Two, Patch(1, 0), DeleteProject),
   Three(Two, Bulk(<<1, 2>>), Bulk(<<2, 1>>), DeleteProject),
   Three(Two, Patch(1, 0), Patch(1, 2), Bulk(<<1, 2>>)),
   Faulty(One, Create(2, 2), Create(3, 0)),
   Faulty(Ranked, Create(3, 0), Bulk(<<1, 2>>)),
   Faulty(One, Create(2, 2), DeleteProject),
   Faulty(Two, Create(3, 0), Patch(1, 2)),
   Faulty(One, Create(2, 2), Create(2, 0)),
   Faulty(Two, Bulk(<<1, 2>>), DeleteProject),
   Faulty(Two, Bulk(<<1, 2>>), Bulk(<<2, 1>>))}
=============================================================================
