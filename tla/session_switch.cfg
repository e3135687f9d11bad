\* Two accounts on one phone, requests that fail, logouts that leave the account
\* signed in, processes that die.
CONSTANTS
  Accounts = {"ann", "bob"}
  MaxLogins = 4
  Faults = {"signin", "signout", "graph", "kill"}
SPECIFICATION FairSpec
INVARIANTS TypeOK PlaysAsSelf ProfileIsOwn
PROPERTIES LoginMakesPlayer
