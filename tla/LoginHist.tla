----------------------------- MODULE LoginHist -----------------------------
(* Login with a history of what went wrong with each account.               *)
EXTENDS Login

VARIABLES
  overlap,  \* names two instances were creating at the same time
  torn      \* names whose creation was cut off before its record was written

histVars == <<vars, overlap, torn>>

HistInit == Init /\ overlap = {} /\ torn = {}

HistNext ==
  /\ Next
  /\ overlap' = overlap \cup
       {n \in Names : \E i, j \in Instances :
          i # j /\ Creates(i, n)' /\ Creates(j, n)'}
  /\ torn' = torn \cup
       {n \in Names : \E i \in Instances :
          place[i] = "write" /\ Path(i) = n /\ place'[i] = "down"}

HistSpec == HistInit /\ [][HistNext]_histVars /\ Fairness

-----------------------------------------------------------------------------
\* Whoever is logged in typed the password that the file of that name holds,
\* and the name in the file: neither a half-written file, nor a name that
\* read_login_data trims or cuts, nor another instance lets anybody in without
\* it.  Only two simultaneous creations can part the two.
OwnerLoggedIn ==
  \A i \in Instances :
    place[i] = "in" =>
      /\ StoredName[Path(i)] = Path(i)
      /\ file[Path(i)] = login[i].pw \/ Path(i) \in overlap

\* read_login_data keeps one region of the pool for a user who is logged in
\* and none for any number of failed attempts; only two simultaneous creations
\* leak one (login_flow overwrites the pointer).
OneRegionPerUser ==
  overlap # {} \/
  \A i \in Instances : regions[i] = IF place[i] = "in" THEN 1 ELSE 0

\* A file without a record, which locks its name for good, is being written
\* right now, or the process ended exactly there.
EmptyIsExplained ==
  \A n \in Names :
    file[n] = Empty =>
      n \in torn \/ \E i \in Instances : place[i] = "write" /\ Path(i) = n

\* An account's password never changes, whatever is typed, read or restarted;
\* only two simultaneous creations overwrite each other.
PasswordKept ==
  [][\A n \in Names :
       file[n] \in Passwords => file'[n] = file[n] \/ n \in overlap]_histVars

\* The owner of an account, or of a name that is free, is let in once she has
\* pressed enter, unless the process ends, leaked regions leave no memory, or
\* another instance is busy with the same name.
OwnerGetsIn ==
  \A i \in Instances, n \in Names \ Unopenable, pw \in Passwords :
    /\ place[i] = "check" /\ login[i] = [name |-> n, pw |-> pw]
    /\ StoredName[n] = n /\ file[n] \in {Absent, pw} /\ regions[i] < Pages
    ~> place[i] \in {"in", "down"} \/ Shared(i)
=============================================================================
