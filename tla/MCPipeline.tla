---------------------------- MODULE MCPipeline ----------------------------
(* Pipeline on two small graphs: a diamond whose two branches share their  *)
(* leaf (the artifact store), and a chain to a gate that several runs      *)
(* crowd.  A call is named after where it goes, once per route.            *)
EXTENDS Pipeline, TLC

CONSTANTS o, b, t, s,                  (* services                         *)
          run1, run2,                  (* entries                          *)
          atB, atT, atSviaB, atSviaT,  (* run1's calls in the diamond      *)
          atS1, atS2                   (* each run's call in the chain     *)

Diamond       == {<<o, b>>, <<o, t>>, <<b, s>>, <<t, s>>}
DiamondOrder  == <<o, b, t, s>>
DiamondModes  == [e \in Diamond |-> "blocking"]
DiamondTouch  == {<<<<o, b>>, "blocking">>, <<<<o, b>>, "best_effort">>, <<<<t, s>>, "gated">>}
DiamondNodes  == {o, b, t, s}
DiamondSvc    == run1 :> o @@ atB :> b @@ atT :> t @@ atSviaB :> s @@ atSviaT :> s
DiamondParent == run1 :> None @@ atB :> run1 @@ atT :> run1 @@ atSviaB :> atB @@ atSviaT :> atT

Chain         == {<<o, s>>}
ChainOrder    == <<o, s>>
ChainModes    == [e \in Chain |-> "gated"]
ChainTouch    == Chain \X {"blocking"}
ChainNodes    == {o, s}
ChainSvc      == run1 :> o @@ run2 :> o @@ atS1 :> s @@ atS2 :> s
ChainParent   == run1 :> None @@ run2 :> None @@ atS1 :> run1 @@ atS2 :> run2

StoreOnly     == {s}
One           == [n \in Node |-> 1]
Nowhere       == {}
===========================================================================
