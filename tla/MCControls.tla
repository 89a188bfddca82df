----------------------------- MODULE MCControls -----------------------------
EXTENDS Controls

MCBeads == 1..3
MCFilters == {1..3, {2, 3}, {1}}
MCSnapshots ==
  {[beads |-> 1..3, dispatch |-> {1, 2}, review |-> {3}],
   [beads |-> {2, 3}, dispatch |-> {3}, review |-> {2}],
   [beads |-> {1, 3}, dispatch |-> {1, 3}, review |-> {}],
   [beads |-> {2}, dispatch |-> {}, review |-> {}]}
MCRoles == <<"implement", "review">>
=============================================================================
