------------------------------- MODULE Login -------------------------------
(***************************************************************************)
(* Accounts and the login dialogue: login_flow (render.c) with             *)
(* read_login_data and write_login_data (user.c).                          *)
(*                                                                         *)
(* An account is a file resources/data/<name>.us.  Nothing locks it:       *)
(* simulators started in the same directory share the files, and each may  *)
(* exit at any moment and be started again.  Only the files survive.  The  *)
(* dialogue asks access() whether the file exists, reads it, and creates   *)
(* it when it did not exist; every call on the file is a step.             *)
(***************************************************************************)
EXTENDS Integers

CONSTANTS
  Instances,    \* simulators started in the directory
  Names,        \* user names that can be typed
  Passwords,
  StoredName,   \* [Names -> what read_login_data gets back for the name]
  Unopenable,   \* names that make no legal path
  Pages,        \* users that fit in the pool beside the output buffer
  Absent, Empty \* no file; a file without a complete record

ASSUME LoginConstants ==
  /\ Names # {} /\ Passwords # {}
  /\ Unopenable \subseteq Names
  /\ DOMAIN StoredName = Names
  /\ Pages \in Nat
  /\ Absent # Empty /\ {Absent, Empty} \cap Passwords = {}

VARIABLES
  file,    \* [Names -> Absent, Empty or the password whose hash is stored]
  place,   \* where each instance is in login_flow
  login,   \* the credentials last typed
  exists,  \* file_exists
  regions  \* regions of the pool that hold a user

vars == <<file, place, login, exists, regions>>

-----------------------------------------------------------------------------
Credentials == [name : Names, pw : Passwords]
\* The zero-filled credentials, which nothing reads: any value will do.
Blank == CHOOSE c \in Credentials : TRUE
Path(i) == login[i].name
Go(i, p) == place' = [place EXCEPT ![i] = p]

Init ==
  /\ file = [n \in Names |-> Absent]
  /\ place = [i \in Instances |-> "ask"]
  /\ login = [i \in Instances |-> Blank]
  /\ exists = [i \in Instances |-> FALSE]
  /\ regions = [i \in Instances |-> 0]

\* get_credentials: the user types a name and a password.
get_credentials(i) ==
  /\ place[i] = "ask"
  /\ \E c \in Credentials : login' = [login EXCEPT ![i] = c]
  /\ Go(i, "check")
  /\ UNCHANGED <<file, exists, regions>>

Check(i) ==
  /\ place[i] = "check"
  /\ exists' = [exists EXCEPT ![i] = file[Path(i)] # Absent]
  /\ Go(i, "read")
  /\ UNCHANGED <<file, login, regions>>

\* MUTANT: the stored name is not compared.
MatchesPassword(i) == file[Path(i)] = login[i].pw

\* The name and the hash in the file are those that were typed.
Matches(i) == StoredName[Path(i)] = Path(i) /\ file[Path(i)] = login[i].pw

\* c_alloc has room for a user.
Fits(i) == regions[i] < Pages

\* read_login_data returns a user.
Found(i) == Matches(i) /\ Fits(i)

\* MUTANT: c_alloc gives out more than it has.
KeptAlways(i) == Matches(i)
\* MUTANT: the region of a user who is turned away is not released.
KeptLeaky(i) == file[Path(i)] # Absent /\ Fits(i)
\* The region of the user it returns stays allocated, any other is released.
Kept(i) == Found(i)

\* MUTANT: an account is created whenever the file gave no user.
CreatesUnread(i) == place[i] = "read" /\ ~Found(i)
\* When the file did not exist it is created, whatever the first read found.
CreatesNext(i) == place[i] = "read" /\ ~exists[i]

\* read_login_data, and what login_flow does with its result.
Read(i) ==
  /\ place[i] \in {"read", "reread"}
  /\ regions' = [regions EXCEPT ![i] = IF Kept(i) THEN @ + 1 ELSE @]
  /\ IF CreatesNext(i) THEN Go(i, "create") /\ login' = login
     ELSE IF Found(i) THEN Go(i, "in") /\ login' = login
     ELSE Go(i, "ask") /\ login' = [login EXCEPT ![i] = Blank]
  /\ exists' = [exists EXCEPT ![i] = FALSE]
  /\ UNCHANGED file

\* exit(1) or a signal: everything but the files is gone.
Exit(i) == /\ Go(i, "down")
           /\ regions' = [regions EXCEPT ![i] = 0]
           /\ login' = [login EXCEPT ![i] = Blank]
           /\ exists' = [exists EXCEPT ![i] = FALSE]

\* write_login_data: fopen(addr, "w") truncates the file; a path that cannot
\* be opened is a critical error.
Open(i) ==
  /\ place[i] = "create"
  /\ IF Path(i) \in Unopenable
     THEN Exit(i) /\ file' = file
     ELSE /\ Go(i, "write")
          /\ file' = [file EXCEPT ![Path(i)] = Empty]
          /\ UNCHANGED <<login, exists, regions>>

\* MUTANT: the file is closed without its record.
WriteNothing(i) ==
  /\ place[i] = "write"
  /\ Go(i, "reread")
  /\ UNCHANGED <<file, login, exists, regions>>

\* The slow hash is computed while the file is empty, then fflush writes the
\* whole record.
Write(i) ==
  /\ place[i] = "write"
  /\ file' = [file EXCEPT ![Path(i)] = login[i].pw]
  /\ Go(i, "reread")
  /\ UNCHANGED <<login, exists, regions>>

\* The program ends wherever the dialogue is: on a failure elsewhere in it or on
\* a signal that it does not handle.
Stop(i) == place[i] # "down" /\ Exit(i) /\ file' = file

Start(i) ==
  /\ place[i] = "down"
  /\ Go(i, "ask")
  /\ UNCHANGED <<file, login, exists, regions>>

Dialogue(i) == Check(i) \/ Read(i) \/ Open(i) \/ Write(i)

Next == \E i \in Instances :
          get_credentials(i) \/ Dialogue(i) \/ Stop(i) \/ Start(i)

Spec == Init /\ [][Next]_vars

\* Once the user has pressed enter, the render thread goes on.
Fairness == \A i \in Instances : WF_vars(Dialogue(i))

-----------------------------------------------------------------------------
(* Properties. *)

\* Types of all variables (user.h and the locals of login_flow).
TypeOK ==
  /\ file \in [Names -> {Absent, Empty} \cup Passwords]
  /\ place \in [Instances -> {"ask", "check", "read", "create", "write",
                              "reread", "in", "down"}]
  /\ login \in [Instances -> Credentials]
  /\ exists \in [Instances -> BOOLEAN]
  /\ regions \in [Instances -> 0 .. Pages]

\* Somebody is between access() and the end of write_login_data for n.
Creates(i, n) ==
  /\ Path(i) = n
  /\ place[i] \in {"create", "write"} \/ (place[i] = "read" /\ ~exists[i])

\* Another instance is in the dialogue with the same name.
Shared(i) == \E j \in Instances \ {i} :
               Path(j) = Path(i) /\ place[j] \notin {"ask", "in", "down"}
=============================================================================
