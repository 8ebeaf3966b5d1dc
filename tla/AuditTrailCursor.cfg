\* An event commits below a row that has already been listed.
SPECIFICATION Spec
CONSTANTS
  Writers = {w1, w2}
  Rows = {account, order}
  Limits = {0, 2, 9}
  MaxPage = 3
  MaxEvents = 4
PROPERTIES StableCursor
