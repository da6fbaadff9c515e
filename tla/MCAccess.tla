------------------------------ MODULE MCAccess ------------------------------
(* Accounts, the limiter of sign-ins, groups, avatars, the title of a session *)
(* and web tools share no state here, so a behaviour moves one of them.       *)
EXTENDS Accounts, AuthLimiter, UserGroups, Avatars, SessionTitles, WebTools, TLC

VARIABLE part
allVars == <<accountVars, limiterVars, groupVars, avatarVars, titleVars, webVars, part>>

AccessInit ==
  /\ AccountsInit /\ LimiterInit /\ GroupsInit /\ AvatarsInit /\ TitlesInit /\ WebInit
  /\ part \in {"accounts", "limiter", "groups", "avatars", "titles", "web"}
  /\ part # "titles" => ~cooling
  /\ part # "web" => refiner = 0 /\ cooldown = "no"
AccessNext ==
  /\ UNCHANGED part
  /\ \/ part = "accounts" /\ AccountsNext /\ UNCHANGED <<limiterVars, groupVars, avatarVars, titleVars, webVars>>
     \/ part = "limiter" /\ LimiterNext /\ UNCHANGED <<accountVars, groupVars, avatarVars, titleVars, webVars>>
     \/ part = "groups" /\ GroupsNext /\ UNCHANGED <<accountVars, limiterVars, avatarVars, titleVars, webVars>>
     \/ part = "avatars" /\ AvatarsNext /\ UNCHANGED <<accountVars, limiterVars, groupVars, titleVars, webVars>>
     \/ part = "titles" /\ TitlesNext /\ UNCHANGED <<accountVars, limiterVars, groupVars, avatarVars, webVars>>
     \/ part = "web" /\ WebNext /\ UNCHANGED <<accountVars, limiterVars, groupVars, avatarVars, titleVars>>
AccessSpec == AccessInit /\ [][AccessNext]_allVars

\* Two names that differ in case only, another one, and one of blanks.
Normalized == [n \in Names |-> CASE n \in {"ada", "Ada"} -> "ada" [] n = "  " -> "" [] OTHER -> n]

SearchOrder == <<"searxng", "brave">>
ReadOrder == <<"jina", "tavily">>

\* Whatever administrators and lost commits do, everybody has a group, and every
\* picture in use its file.
BelongingsAreKept == EveryoneHasOneGroup /\ AvatarsMatchFiles

Symmetric == Permutations(Passwords) \union Permutations(Slots) \union Permutations(Calls)
=============================================================================
