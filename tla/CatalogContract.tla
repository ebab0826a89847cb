-------------------------- MODULE CatalogContract --------------------------
(***************************************************************************)
(* Catalogs as a client sees them that has no rival: GET lists every page  *)
(* once, from the moment it is added to the removal of the catalog, and a  *)
(* page is only added under an order and a name that are free there.  The  *)
(* order of the list may change.                                           *)
(***************************************************************************)
EXTENDS Naturals, Sequences, Functions

CONSTANTS Catalogs, Pages, Name

VARIABLES stage,            \* "absent", "live" or "deleted"
          shown             \* the list GET /api/catalogs/{id} shows

vars == <<stage, shown>>

Init ==
    /\ stage = [c \in Catalogs |-> "absent"]
    /\ shown = [c \in Catalogs |-> <<>>]

Turn(c, s)   == stage' = [stage EXCEPT ![c] = s]
ShowOnly(c)  == shown' = [shown EXCEPT ![c] = shown'[c]]
Listed(list) == list \in Seq(Pages) /\ IsInjective(list)

Publish(c) ==
    /\ stage[c] = "absent"
    /\ Turn(c, "live")
    /\ ShowOnly(c)
    /\ Listed(shown'[c])

Add(c) ==
    LET old == Range(shown[c])
    IN  /\ stage[c] = "live"
        /\ ShowOnly(c)
        /\ Listed(shown'[c])
        /\ \E p \in Range(shown'[c]) \ old :
              /\ Range(shown'[c]) = old \union {p}
              /\ \A q \in old : q.order # p.order /\ Name[q.file] # Name[p.file]
        /\ UNCHANGED stage

Rearrange(c) ==
    /\ ShowOnly(c)
    /\ Listed(shown'[c])
    /\ Range(shown'[c]) = Range(shown[c])
    /\ UNCHANGED stage

Remove(c) ==
    /\ stage[c] = "live"
    /\ Turn(c, "deleted")
    /\ shown' = [shown EXCEPT ![c] = <<>>]

Next == \E c \in Catalogs : Publish(c) \/ Add(c) \/ Rearrange(c) \/ Remove(c)

Spec == Init /\ [][Next]_vars
=============================================================================
