----------------------------- MODULE MCCatalog ------------------------------
(* What users and administrators arrange: skills, tools, settings, models,    *)
(* services, prompts and fonts.  The modules share no state, so a behaviour   *)
(* moves one of them.                                                         *)
EXTENDS SkillPackages, ToolConfigs, ConfigPolicy, ModelCatalog, ServiceOrder, Prompts, Fonts, TLC

CONSTANTS sz, sel, sw, on, off

VARIABLE part
allVars == <<packageVars, toolVars, policyVars, catalogVars, serviceVars, promptVars, fontVars, part>>

ArrangedInit ==
  /\ part \in {"packages", "tools", "policy", "models", "services", "prompts", "fonts"}
  /\ PackagesInit /\ (part # "packages" => db.row = [k \in Skills |-> NoSkill])
  /\ PolicyInit /\ Cardinality({k \in Keys : stored[k] # Missing}) <= (IF part = "policy" THEN 1 ELSE 0)
  /\ CatalogInit /\ (part # "models" => Offered(table) = {} /\ registry = [m \in Models |-> NoModel] /\ usable = {} /\ default = NoModel)
  /\ ToolsInit /\ OrderInit /\ PromptsInit /\ FontsInit
ArrangedNext ==
  /\ UNCHANGED part
  /\ \/ part = "packages" /\ PackagesNext /\ UNCHANGED <<toolVars, policyVars, catalogVars, serviceVars, promptVars, fontVars>>
     \/ part = "tools" /\ ToolsNext /\ UNCHANGED <<packageVars, policyVars, catalogVars, serviceVars, promptVars, fontVars>>
     \/ part = "policy" /\ PolicyNext /\ UNCHANGED <<packageVars, toolVars, catalogVars, serviceVars, promptVars, fontVars>>
     \/ part = "models" /\ ModelsNext /\ UNCHANGED <<packageVars, toolVars, policyVars, serviceVars, promptVars, fontVars>>
     \/ part = "services" /\ OrderNext /\ UNCHANGED <<packageVars, toolVars, policyVars, catalogVars, promptVars, fontVars>>
     \/ part = "prompts" /\ PromptsNext /\ UNCHANGED <<packageVars, toolVars, policyVars, catalogVars, serviceVars, fontVars>>
     \/ part = "fonts" /\ FontsNext /\ UNCHANGED <<packageVars, toolVars, policyVars, catalogVars, serviceVars, promptVars>>
ArrangedSpec == ArrangedInit /\ [][ArrangedNext]_allVars

Def == sz :> 1 @@ sel :> 1 @@ sw :> on
\* What the history of skills and of tools offers to take back is what was done.
HistoriesAreExact == HistoryIsExact /\ ToolHistoryIsExact

\* Services keep the order an administrator gave them, prompts the name of their
\* group, and what is selected as a font can be shown.
ArrangementIsKept == OrderIsDecided /\ PromptsFollowTheirGroup /\ SelectionIsUsable

Symmetric ==
  Permutations(Packages) \union Permutations(Clerks) \union Permutations(Labels)
=============================================================================
