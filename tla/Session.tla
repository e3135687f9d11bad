------------------------------- MODULE Session -------------------------------
(* Who is playing on a phone: the chain of callbacks of a Facebook login   *)
(* (FirebaseHelper login:completion:), the profile it creates for a new    *)
(* account, logout, and the launch of a signed-in player.  Everything a    *)
(* callback reads, it reads when it runs: the signed-in account of FIRAuth,*)
(* FirebaseHelper's currentUser and the Facebook token may belong to       *)
(* different players.  Facebook, FIRAuth (which survives a restart) and    *)
(* the database are external; each answers once, at any later time.        *)
EXTENDS Naturals

CONSTANTS
  Accounts,  \* Facebook accounts used on this phone, uid and name in one
  MaxLogins, \* bound: how often the login button is pressed
  Faults     \* a subset of {"signin", "signout", "graph", "kill"}

None == "none"
ASSUME AccountsAssumption == None \notin Accounts /\ MaxLogins \in Nat

VARIABLES
  auth,     \* [FIRAuth auth].currentUser
  token,    \* FBSDKAccessToken.currentAccessToken
  user,     \* FirebaseHelper.currentUser: a uid and a name, or nil
  profiles, \* server: users/UID/name
  screen,   \* "login", "menu" or "closed"
  button,   \* the login button is enabled
  login,    \* the answer the login waits for
  launch,   \* the uid whose profile the launch reads, until the answer comes
  graphs,   \* accounts whose name a Graph request was sent for
  entries,  \* history: who was signed in when a room was entered, and as whom
  logins,   \* presses of the login button, for MaxLogins
  crossed   \* history: the player logged out with an answer under way

vars == <<auth, token, user, profiles, screen, button, login, launch, graphs, entries,
          logins, crossed>>

NoUser == [uid |-> None, name |-> None]

Init ==
  /\ auth = None /\ token = None /\ user = NoUser
  /\ profiles \in [Accounts -> {None}]
  /\ screen = "login" /\ button = TRUE /\ login = "idle"
  /\ launch = None /\ graphs = {} /\ entries = {} /\ logins = 0 /\ crossed = FALSE

-----------------------------------------------------------------------------
(* loginTUI: and the callbacks of login:completion:.                       *)

LoginTUI ==
  /\ screen = "login" /\ button /\ logins < MaxLogins
  /\ button' = FALSE /\ login' = "facebook" /\ logins' = logins + 1
  /\ UNCHANGED <<auth, token, user, profiles, screen, launch, graphs, entries, crossed>>

(* Cancelled or failed: completion(NO) enables the button again.           *)
FacebookRefuses ==
  /\ login = "facebook"
  /\ login' = "idle" /\ button' = TRUE
  /\ UNCHANGED <<auth, token, user, profiles, screen, launch, graphs, entries, logins,
                 crossed>>

FacebookAnswers(a) ==
  /\ login = "facebook"
  /\ token' = a /\ login' = "signin"
  /\ UNCHANGED <<auth, user, profiles, screen, button, launch, graphs, entries, logins,
                 crossed>>

SignInAnswers ==
  /\ login = "signin"
  /\ auth' = token /\ login' = "read"
  /\ UNCHANGED <<token, user, profiles, screen, button, launch, graphs, entries, logins,
                 crossed>>

(* An error returns without calling the completion: the button stays off.  *)
SignInFails ==
  /\ "signin" \in Faults /\ login = "signin"
  /\ login' = "idle"
  /\ UNCHANGED <<auth, token, user, profiles, screen, button, launch, graphs, entries,
                 logins, crossed>>

(* Mutant of UserOnLogin: the known account is not made current.           *)
UserKept(a) == user
UserOnLogin(a) == [uid |-> a, name |-> profiles[a]]

(* Mutant of LoginCompletes: completion(YES) in the else branch only.      *)
LoginCompletesIfKnown(a) == profiles[a] # None
LoginCompletes(a) == TRUE

(* getUserWithUID answers: a new account asks Graph for its name, a known  *)
(* one becomes currentUser; either way completion(YES) shows the menu.     *)
ProfileRead ==
  /\ login = "read"
  /\ IF profiles[auth] = None
       THEN graphs' = graphs \cup {token} /\ user' = user
       ELSE graphs' = graphs /\ user' = UserOnLogin(auth)
  /\ login' = "idle"
  /\ IF LoginCompletes(auth) THEN screen' = "menu" /\ button' = TRUE
                             ELSE UNCHANGED <<screen, button>>
  /\ UNCHANGED <<auth, token, profiles, launch, entries, logins, crossed>>

-----------------------------------------------------------------------------
(* The Graph answer creates the profile of whoever is signed in when it    *)
(* comes; with nobody signed in, child: with a nil uid ends the app.       *)

ProcessEnds ==
  /\ screen' = "closed" /\ user' = NoUser /\ login' = "idle" /\ button' = TRUE
  /\ launch' = None /\ graphs' = {}

(* Mutant of NewUid: the uid of the player FirebaseHelper remembers.       *)
RememberedUid == IF user = NoUser THEN auth ELSE user.uid
NewUid == auth

GraphAnswers ==
  \E a \in graphs :
    IF auth = None
      THEN ProcessEnds /\ UNCHANGED <<auth, token, profiles, entries, logins, crossed>>
      ELSE /\ graphs' = graphs \ {a}
           /\ profiles' = [profiles EXCEPT ![NewUid] = a]
           /\ user' = [uid |-> NewUid, name |-> a]
           /\ UNCHANGED <<auth, token, screen, button, login, launch, entries, logins,
                          crossed>>

GraphFails ==
  \E a \in graphs :
    /\ "graph" \in Faults
    /\ graphs' = graphs \ {a}
    /\ UNCHANGED <<auth, token, user, profiles, screen, button, login, launch, entries,
                   logins, crossed>>

-----------------------------------------------------------------------------
(* The menu.                                                               *)

(* logoutTUI: shows a new login screen whether signOut succeeded or not.   *)
(* The token goes in any case; currentUser stays.                          *)
LogoutTUI ==
  /\ screen = "menu"
  /\ \/ auth' = None
     \/ "signout" \in Faults /\ auth' = auth
  /\ token' = None /\ screen' = "login" /\ button' = TRUE
  /\ crossed' = (crossed \/ graphs # {} \/ launch # None)
  /\ UNCHANGED <<user, profiles, login, launch, graphs, entries, logins>>

(* Creating or joining a room writes currentUser's uid and name; nil as a  *)
(* dictionary key ends the app.                                            *)
EnterRoom ==
  /\ screen = "menu"
  /\ IF user = NoUser
       THEN ProcessEnds /\ UNCHANGED <<auth, token, profiles, entries, logins, crossed>>
       ELSE /\ entries' = entries \cup {[signed |-> auth, known |-> profiles[auth] # None,
                                         crossed |-> crossed, as |-> user.uid]}
            /\ UNCHANGED <<auth, token, user, profiles, screen, button, login, launch,
                           graphs, logins, crossed>>

-----------------------------------------------------------------------------
(* Restarts.                                                               *)

Kill ==
  /\ "kill" \in Faults /\ screen # "closed"
  /\ ProcessEnds
  /\ UNCHANGED <<auth, token, profiles, entries, logins, crossed>>

(* Mutant of LaunchScreen: the menu whoever is signed in.                  *)
AlwaysMenu == "menu"
LaunchScreen == IF auth = None THEN "login" ELSE "menu"

(* didFinishLaunching: the menu of a signed-in player is shown before the  *)
(* answer to getAndSetCurrentUser.                                         *)
Launch ==
  /\ screen = "closed"
  /\ screen' = LaunchScreen
  /\ launch' = auth
  /\ UNCHANGED <<auth, token, user, profiles, button, login, graphs, entries, logins,
                 crossed>>

LaunchRead ==
  /\ launch # None
  /\ user' = IF profiles[launch] = None THEN NoUser
                                        ELSE [uid |-> launch, name |-> profiles[launch]]
  /\ launch' = None
  /\ UNCHANGED <<auth, token, profiles, screen, button, login, graphs, entries, logins,
                 crossed>>

-----------------------------------------------------------------------------
Answers == SignInAnswers \/ ProfileRead \/ GraphAnswers \/ LaunchRead

Next ==
  \/ LoginTUI \/ FacebookRefuses \/ (\E a \in Accounts : FacebookAnswers(a))
  \/ Answers \/ SignInFails \/ GraphFails
  \/ LogoutTUI \/ EnterRoom \/ Kill \/ Launch

Spec == Init /\ [][Next]_vars

(* The database answers the read of a profile, and Graph each request with *)
(* a name or an error; the user owes nothing.                              *)
FairSpec == Spec /\ WF_vars(ProfileRead) /\ WF_vars(GraphAnswers \/ GraphFails)

-----------------------------------------------------------------------------
AccountOrNone == Accounts \cup {None}

(* Every variable has its type, and a menu always has a signed-in account. *)
TypeOK ==
  /\ {auth, token, launch} \subseteq AccountOrNone
  /\ user \in [uid : AccountOrNone, name : AccountOrNone]
  /\ profiles \in [Accounts -> AccountOrNone]
  /\ screen \in {"login", "menu", "closed"}
  /\ button \in BOOLEAN /\ crossed \in BOOLEAN
  /\ login \in {"idle", "facebook", "signin", "read"}
  /\ graphs \subseteq Accounts
  /\ entries \subseteq [signed : Accounts, known : BOOLEAN, crossed : BOOLEAN, as : Accounts]
  /\ logins \in 0 .. MaxLogins
  /\ screen = "menu" => auth # None
  /\ login = "signin" => token # None
  /\ login = "read" => auth # None /\ token = auth

(* A player with a profile enters rooms as the account that is signed in,  *)
(* although logout leaves currentUser behind (FirebaseHelper.m:137-145),   *)
(* unless a logout overtook an answer.                                     *)
PlaysAsSelf ==
  \A e \in entries : e.known /\ ~e.crossed => e.as = e.signed

(* No account's profile carries another account's name, unless a logout    *)
(* overtook the Graph answer that createUser uses (FirebaseHelper.m:84-87).*)
ProfileIsOwn ==
  ~crossed => \A a \in Accounts : profiles[a] \in {None, a}

(* An account that Firebase has accepted becomes the player at the menu,   *)
(* by its profile or by the name from Graph (FirebaseHelper.m:76-94),      *)
(* unless Graph refuses the name, the process ends, or the player logs out *)
(* first and has a new login screen.                                       *)
LoginMakesPlayer ==
  \A a \in Accounts :
    (login = "read" /\ auth = a) ~>
      (\/ screen = "menu" /\ user.uid = a
       \/ screen = "menu" /\ graphs = {} /\ profiles[a] = None
       \/ screen = "closed"
       \/ screen = "login" /\ button)
=============================================================================
