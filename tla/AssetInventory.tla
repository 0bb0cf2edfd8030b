--------------------------- MODULE AssetInventory ---------------------------
(***************************************************************************)
(* The asset inventory (recon/assets.py) as operators.  An inventory is a  *)
(* function from merge keys to the facts that are merged: service and tech,*)
(* as in ToolResults.  in_scope is true wherever it is set.                *)
(***************************************************************************)
EXTENDS ToolResults

\* Asset.merge_key
MergeKey(a) ==
  [type |-> a.type, address |-> a.address, port |-> a.port, protocol |-> a.protocol]

Either(mine, yours) == IF mine # None THEN mine ELSE yours

\* _deep_merge of two values of one name.
MergeValue(mine, yours) ==
  CASE mine.values = {} -> yours
    [] mine.values # {} /\ mine.list /\ yours.list ->
         [list |-> TRUE, values |-> mine.values \cup yours.values]
    [] OTHER -> mine

MergeTech(mine, yours) ==
  [k \in DOMAIN mine \cup DOMAIN yours |->
     CASE k \notin DOMAIN mine -> yours[k]
       [] k \notin DOMAIN yours -> mine[k]
       [] OTHER -> MergeValue(mine[k], yours[k])]

Facts(a) == [service |-> a.service, tech |-> a.tech]

\* _merge_into: what is known stays, what is missing is taken over.
MergeAsset(mine, yours) ==
  [service |-> Either(mine.service, yours.service),
   tech |-> MergeTech(mine.tech, yours.tech)]

\* add
AddAsset(inventory, key, facts) ==
  [k \in DOMAIN inventory \cup {key} |->
     IF k # key THEN inventory[k]
     ELSE IF k \in DOMAIN inventory THEN MergeAsset(inventory[k], facts)
     ELSE facts]

\* add, of the assets of another inventory one by one: recon_node adds those of the
\* flow's inventory to the state's.
AddInventory(inventory, other) ==
  [k \in DOMAIN inventory \cup DOMAIN other |->
     CASE k \notin DOMAIN other -> inventory[k]
       [] k \notin DOMAIN inventory -> other[k]
       [] OTHER -> MergeAsset(inventory[k], other[k])]

\* by_type
OfType(inventory, type) == {k \in DOMAIN inventory : k.type = type}
=============================================================================
