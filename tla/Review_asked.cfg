SPECIFICATION Spec
CONSTANTS
  Users = {u1, u2}
  Admins = {u1}
  Escrows = {e1}
  Parties <- MCParties
PROPERTY ReviewIsTaken
