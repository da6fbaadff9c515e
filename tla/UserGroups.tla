----------------------------- MODULE UserGroups -----------------------------
(***************************************************************************)
(* User groups: the level and the quotas of a user are those of the group  *)
(* assigned to it or, without one, of the group that is the default at     *)
(* that moment.  Every change runs in a transaction under one advisory     *)
(* lock, so a transaction is one step; its statements follow each other.   *)
(***************************************************************************)
EXTENDS Naturals, FiniteSets

CONSTANTS
  Groups,
  Members,  \* accounts
  NoGroup,  \* users.group_id is NULL
  Levels    \* levels a group may have

ASSUME GroupsAssumption == Groups # {} /\ NoGroup \notin Groups /\ 0 \in Levels

VARIABLES
  level,    \* of each group that exists
  default,  \* the groups with is_default
  assigned  \* users.group_id

groupVars == <<level, default, assigned>>

Existing == DOMAIN level

\* A request that makes a group the default clears the flag of every other.
WithDefault(g, isDefault) == IF isDefault THEN {g} ELSE default \ {g}

\* An update or a deletion may not take the last default away.
MayLoseDefault(g) == g \in default => \E other \in Existing \ {g} : other \in default

-----------------------------------------------------------------------------
\* The migration creates the default group, at level 0, before the first user.
GroupsInit ==
  /\ default = {CHOOSE g \in Groups : TRUE}
  /\ level = [g \in default |-> 0]
  /\ assigned = [m \in Members |-> NoGroup]

CreateGroup(g, l, isDefault) ==
  /\ g \notin Existing
  /\ level' = [x \in Existing \union {g} |-> IF x = g THEN l ELSE level[x]]
  /\ default' = IF isDefault THEN {g} ELSE default
  /\ UNCHANGED assigned

\* A patch names the level, the flag, or both; the row is read under its lock.
UpdateGroup(g, l, isDefault) ==
  /\ g \in Existing
  /\ isDefault = FALSE => MayLoseDefault(g)
  /\ level' = [level EXCEPT ![g] = l]
  /\ default' = WithDefault(g, isDefault)
  /\ UNCHANGED assigned

UpdateLevel(g, l) == g \in Existing /\ UpdateGroup(g, l, g \in default)

\* ON DELETE SET NULL: the members of a deleted group inherit the default.
DeleteGroup(g) ==
  /\ g \in Existing /\ MayLoseDefault(g)
  /\ level' = [x \in Existing \ {g} |-> level[x]]
  /\ default' = default \ {g}
  /\ assigned' = [m \in Members |-> IF assigned[m] = g THEN NoGroup ELSE assigned[m]]

\* The foreign key refuses a group that is gone.
SetGroup(m, g) ==
  /\ g \in Existing \union {NoGroup}
  /\ assigned' = [assigned EXCEPT ![m] = g]
  /\ UNCHANGED <<level, default>>

GroupsNext ==
  \/ \E g \in Groups, l \in Levels, isDefault \in BOOLEAN :
       CreateGroup(g, l, isDefault) \/ UpdateGroup(g, l, isDefault)
  \/ \E g \in Groups, l \in Levels : UpdateLevel(g, l)
  \/ \E g \in Groups : DeleteGroup(g)
  \/ \E m \in Members, g \in Groups \union {NoGroup} : SetGroup(m, g)

GroupsSpec == GroupsInit /\ [][GroupsNext]_groupVars

-----------------------------------------------------------------------------
\* The effective group of a member, as COALESCE of the two joins finds it.
Effective(m) == IF assigned[m] \in Existing THEN {assigned[m]} ELSE default \intersect Existing

\* Whatever administrators create, change, delete and assign, every account has
\* exactly one group whose level and quotas apply to it: never none, which the
\* code would read as "no limit", and never two.
EveryoneHasOneGroup == \A m \in Members : Cardinality(Effective(m)) = 1
=============================================================================
