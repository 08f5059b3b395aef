--------------------------- MODULE MCFeatureStore ---------------------------
(* An instance of FeatureStore with every kind of store. *)
EXTENDS FeatureStore

CONSTANTS c1, c2, v1, v2
MCCallers == {c1, c2}
MCVectors == {v1, v2}
MCStores ==
  [kind : {"fallback"}, hasLocal : BOOLEAN]
    \cup [kind : {"redis"}, hasLocal : {FALSE}] \cup [kind : {"memory"}, hasLocal : {TRUE}]
=============================================================================
