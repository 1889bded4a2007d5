CONSTANTS
  Session = {"s", "t"}
  Name = {"root", "ann", "bob"}
  Hash = {1, 2}
  MaxLines = 3
SPECIFICATION Spec
PROPERTY AdminAskedFor
