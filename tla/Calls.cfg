SPECIFICATION Spec
CONSTANTS
  apple = apple
  pear = pear
  rotten = rotten
  color = color
  implode = implode
  Objects <- Fruit
  Names = {color, implode}
  Functions <- FruitFunctions
  Method <- FruitMethod
  Constructors <- FruitConstructors
  Native = {"/table/implode"}
  MaxFrames = 4
SYMMETRY Symmetry
INVARIANTS TypeOK ReceiverUnlessNamedAgain NoReceiverLeft
