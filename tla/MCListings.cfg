SPECIFICATION FairSpec
CONSTANTS
  gh = gh
  dice = dice
  linkedin = linkedin
  r = r
  Jobs = {1, 2, 3}
  NoJob = NoJob
  Groups = {gh, dice, linkedin}
  GroupOf <- MCGroupOf
  Complete = {gh}
  Searches = {dice}
  Imports = {linkedin}
  Role <- MCRole
  Dated = {1}
  Handled = {3}
INVARIANTS NoChains
PROPERTIES OpenWhilePublished ApplicationExpires GoneExpires
