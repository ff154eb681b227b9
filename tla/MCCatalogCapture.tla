------------------------- MODULE MCCatalogCapture -------------------------
(* A small instance of CatalogCapture: two captures, one reader.           *)
EXTENDS CatalogCapture

CONSTANTS a, b

SmallContents ==
    {[objs |-> {a, b}, edges |-> {<<a, b>>}],
     [objs |-> {a}, edges |-> {}]}
=============================================================================
