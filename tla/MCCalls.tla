-------------------------------- MODULE MCCalls --------------------------------
(***************************************************************************)
(* Two objects of a class, and one of a class below it with a method of    *)
(* its own, for Calls.  implode is native and the same for all.            *)
(***************************************************************************)
EXTENDS Calls

CONSTANTS apple, pear, rotten, color, implode

Fruit == {apple, pear, rotten}

FruitMethod ==
  [o \in Fruit |-> [n \in Names |->
     IF n = implode THEN "/table/implode"
     ELSE IF o = rotten THEN "/apple/rotten/color" ELSE "/apple/color"]]

FruitFunctions == {"/apple/color", "/apple/rotten/color", "/table/implode", "/apple/#constructor"}
FruitConstructors == [o \in Fruit |-> "/apple/#constructor"]

\* two objects of one class are alike
Symmetry == Permutations({apple, pear})
===============================================================================
