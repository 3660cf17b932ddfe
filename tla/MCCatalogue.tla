---------------------------- MODULE MCCatalogue ----------------------------
EXTENDS Catalogue, TLC

MCModels   == {"m", "genfity/m"}
MCPrefixed == "m" :> "genfity/m"

Item(st, r, p) == [status |-> st, route |-> r, price |-> p]

\* Both models, one of them without a price; only the prefixed one, on another
\* route; the bare one retired by the payload itself and without its route.
MCPayloads ==
  { "m" :> Item("active", "t1", "a1") @@ "genfity/m" :> Item("active", "t2", None),
    "genfity/m" :> Item("active", "t1", "a1"),
    "m" :> Item("retired", None, "a1") }

MCSymmetry == Permutations(Syncs)
=============================================================================
