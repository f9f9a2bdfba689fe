------------------------------ MODULE ConfigProofs ------------------------------
(***************************************************************************)
(* A theorem about Config, for every file and environment, every width of  *)
(* the numbers and any number of enables: a load that returns true leaves  *)
(* the settings as they are written.                                       *)
(***************************************************************************)
EXTENDS Config, SequenceTheorems, TLAPS

\* The line that settles k among the first n, and the value v that these lines
\* give k: that of this line, or what k had before the load.
SettlesIn(k, i, n) ==
    /\ file[i].key = k /\ ~Skipped(file[i])
    /\ \A j \in i + 1..n : file[j].key = k => Skipped(file[j])

After(k, n, v) ==
    /\ \A i \in 1..n : SettlesIn(k, i, n) => v = FileValue(file[i])
    /\ (~\E i \in 1..n : SettlesIn(k, i, n)) => v = prior[k]

Shape ==
    /\ settings = [k \in Key |-> settings[k]]
    /\ pc \in {"idle", "file", "env"}
    /\ pc # "idle" \/ outcome = "true" => file \in Seq(Line)
    /\ outcome = "true" => pc = "idle"

InFile ==
    pc = "file" =>
        /\ pos \in 1..Len(file) + 1
        /\ \A k \in Key : After(k, pos - 1, settings[k])

InEnv ==
    pc = "env" =>
        /\ pos \in 1..7
        /\ \A i \in 1..6 :
              IF i < pos /\ env[Vars[i]] # Unset
                THEN settings[Vars[i]] = EnvValue(Vars[i])
                ELSE After(Vars[i], Len(file), settings[Vars[i]])

Done ==
    outcome = "true" =>
        \A k \in Key :
            IF env[k] # Unset THEN settings[k] = EnvValue(k)
                              ELSE After(k, Len(file), settings[k])

IInv == Shape /\ InFile /\ InEnv /\ Done

--------------------------------------------------------------------------------
(* Lemmas about the lines and the variables *)

\* Every setting has its variable, and only one.
LEMMA VarsAreKeys ==
    /\ Len(Vars) = 6
    /\ \A i \in 1..6 : Vars[i] \in Key
    /\ \A k \in Key : \E i \in 1..6 : Vars[i] = k
    /\ \A i, j \in 1..6 : Vars[i] = Vars[j] => i = j
<1>1. Len(Vars) = 6
  BY DEF Vars
<1>2. /\ Vars[1] = "PORT" /\ Vars[2] = "TURNTIME" /\ Vars[3] = "MAX_CLIENTS"
      /\ Vars[4] = "INGAME_TIME" /\ Vars[5] = "AUTOSAVE_WHILE_IDLE" /\ Vars[6] = "SECRET"
  BY DEF Vars
<1> QED
  BY <1>1, <1>2 DEF Key

\* A line that does not set k leaves its value, one that does replaces it.
LEMMA NextLine ==
    ASSUME NEW k, NEW n \in Nat
    PROVE  /\ file[n + 1].key # k \/ Skipped(file[n + 1]) =>
                \A v : After(k, n, v) => After(k, n + 1, v)
           /\ file[n + 1].key = k /\ ~Skipped(file[n + 1]) =>
                After(k, n + 1, FileValue(file[n + 1]))
<1>1. ASSUME file[n + 1].key # k \/ Skipped(file[n + 1]), NEW v, After(k, n, v)
      PROVE  After(k, n + 1, v)
  <2>1. ~SettlesIn(k, n + 1, n + 1)
    BY <1>1 DEF SettlesIn
  <2>2. \A i \in 1..n : SettlesIn(k, i, n + 1) <=> SettlesIn(k, i, n)
    BY <1>1 DEF SettlesIn
  <2> QED
    BY <1>1, <2>1, <2>2 DEF After
<1>2. ASSUME file[n + 1].key = k, ~Skipped(file[n + 1])
      PROVE  After(k, n + 1, FileValue(file[n + 1]))
  <2>1. SettlesIn(k, n + 1, n + 1)
    BY <1>2 DEF SettlesIn
  <2>2. \A i \in 1..n : ~SettlesIn(k, i, n + 1)
    BY <1>2 DEF SettlesIn
  <2> QED
    BY <2>1, <2>2 DEF After
<1> QED
  BY <1>1, <1>2

\* Numbers mean what they say on every line, the rest on a plain one.
LEMMA PlainIsMeant ==
    ASSUME NEW l \in Line, l.key \in Key, l.form = "plain" \/ l.key \in Number
    PROVE  FileValue(l) = Meant(l)
<1>1. CASE l.key \in Number
  BY <1>1 DEF FileValue, Meant
<1>2. CASE l.key \in Flag /\ l.form = "plain"
  BY <1>2 DEF FileValue, Meant, Bracketed, Flag, Number
<1>3. CASE l.key = "SECRET" /\ l.form = "plain"
  <2>1. Bracketed(l) = FALSE
    BY <1>3 DEF Bracketed
  <2> QED
    BY <1>3, <2>1 DEF FileValue, Meant, Flag, Number
<1> QED
  BY <1>1, <1>2, <1>3 DEF Key, Number, Flag

--------------------------------------------------------------------------------
(* The invariant *)

LEMMA InitInv == Init => IInv
<1> SUFFICES ASSUME Init PROVE IInv
  OBVIOUS
<1>1. settings = [k \in Key |-> settings[k]]
  BY DEF Init, Key
<1>2. pc = "idle" /\ outcome = "none"
  BY DEF Init
<1> QED
  BY <1>1, <1>2 DEF IInv, Shape, InFile, InEnv, Done

\* At the beginning no line has been read, and the file is one.
LEMMA LoadStep == IInv /\ load_config => IInv'
<1> SUFFICES ASSUME IInv, load_config PROVE IInv'
  OBVIOUS
<1>1. Shape'
  BY FilesAssumption DEF IInv, Shape, load_config
<1>2. outcome' # "true" /\ pc' # "env"
  BY DEF load_config, IInv, Shape
<1>3. InFile'
  <2> SUFFICES ASSUME pc' = "file"
               PROVE  pos' \in 1..Len(file') + 1 /\ \A k \in Key : After(k, pos - 1, settings[k])'
    BY DEF InFile
  <2>1. pos' = 1 /\ prior' = settings /\ settings' = settings
    BY DEF load_config
  <2>2. Len(file') \in Nat
    BY <1>1, LenProperties DEF Shape
  <2> QED
    BY <2>1, <2>2 DEF After
<1> QED
  BY <1>1, <1>2, <1>3 DEF IInv, InEnv, Done

\* A line changes its own key, as the last line for it so far.
LEMMA FileStep == IInv /\ load_text_file => IInv'
<1> SUFFICES ASSUME IInv, load_text_file PROVE IInv'
  OBVIOUS
<1> USE DEF IInv, Shape
<1>1. pc = "file" /\ UNCHANGED <<file, env, prior>> /\ outcome # "true"
  BY DEF load_text_file, SkipLine, ApplyLine, BadLine, EndOfFile, Reading
<1>2. file \in Seq(Line) /\ Len(file) \in Nat /\ pos \in 1..Len(file) + 1
  BY <1>1, LenProperties DEF InFile
<1>3. \A k, v, n : After(k, n, v)' <=> After(k, n, v')
  BY <1>1 DEF After, SettlesIn, Skipped, FileValue, Bracketed
<1>4. ASSUME Reading PROVE file[pos] \in Line /\ pos \in 1..Len(file)
  BY <1>2, <1>4, ElementOfSeq DEF Reading
<1>5. CASE SkipLine
  <2>1. pos \in 1..Len(file) /\ Skipped(file[pos]) /\ pos' = pos + 1 /\ UNCHANGED <<settings, pc, outcome>>
    BY <1>4, <1>5 DEF SkipLine
  <2>2. \A k \in Key : After(k, pos, settings[k])
    <3> SUFFICES ASSUME NEW k \in Key PROVE After(k, pos, settings[k])
      OBVIOUS
    <3>1. After(k, pos - 1, settings[k])
      BY <1>1 DEF InFile
    <3>2. (pos - 1) + 1 = pos /\ pos - 1 \in Nat
      BY <1>2
    <3> QED
      BY <2>1, <3>1, <3>2, NextLine
  <2>3. InFile'
    BY <1>1, <1>2, <1>3, <2>1, <2>2 DEF InFile
  <2> QED
    BY <1>1, <2>1, <2>3 DEF InEnv, Done
<1>6. CASE ApplyLine
  <2>1. /\ pos \in 1..Len(file) /\ ~Skipped(file[pos])
        /\ settings' = [settings EXCEPT ![file[pos].key] = FileValue(file[pos])]
        /\ pos' = pos + 1 /\ UNCHANGED <<pc, outcome>>
    BY <1>4, <1>6 DEF ApplyLine
  <2>2. file[pos].key \in Key
    BY <1>4, <1>6 DEF ApplyLine, Skipped, Line
  <2>3. (pos - 1) + 1 = pos /\ pos - 1 \in Nat
    BY <1>2
  <2>4. \A k \in Key : After(k, pos, settings'[k])
    <3> SUFFICES ASSUME NEW k \in Key PROVE After(k, pos, settings'[k])
      OBVIOUS
    <3>1. CASE k = file[pos].key
      <4>1. settings'[k] = FileValue(file[pos])
        BY <2>1, <3>1
      <4> QED
        BY <2>1, <2>3, <3>1, <4>1, NextLine
    <3>2. CASE k # file[pos].key
      <4>1. settings'[k] = settings[k]
        BY <2>1, <3>2
      <4>2. After(k, pos - 1, settings[k])
        BY <1>1 DEF InFile
      <4> QED
        BY <2>3, <3>2, <4>1, <4>2, NextLine
    <3> QED
      BY <3>1, <3>2
  <2>5. InFile'
    BY <1>1, <1>2, <1>3, <2>1, <2>4 DEF InFile
  <2>6. settings' = [k \in Key |-> settings'[k]]
    BY <2>1
  <2> QED
    BY <1>1, <2>1, <2>5, <2>6 DEF InEnv, Done
<1>7. CASE BadLine
  BY <1>1, <1>7 DEF BadLine, InFile, InEnv, Done
<1>8. CASE EndOfFile
  <2>1. pos - 1 = Len(file) /\ pc' = "env" /\ pos' = 1 /\ UNCHANGED <<settings, outcome>>
    BY <1>2, <1>8 DEF EndOfFile
  <2>2. \A i \in 1..6 : After(Vars[i], Len(file), settings[Vars[i]])
    BY <1>1, <2>1, VarsAreKeys DEF InFile
  <2>3. InEnv'
    BY <1>1, <1>3, <2>1, <2>2 DEF InEnv
  <2> QED
    BY <1>1, <2>1, <2>3 DEF InFile, Done
<1> QED
  BY <1>5, <1>6, <1>7, <1>8 DEF load_text_file

\* A variable that is set replaces what the file gave its own key.
LEMMA EnvStep == IInv /\ load_env_vars => IInv'
<1> SUFFICES ASSUME IInv, load_env_vars PROVE IInv'
  OBVIOUS
<1> USE DEF IInv, Shape
<1>1. pc = "env" /\ UNCHANGED <<file, env, prior>> /\ outcome # "true"
  BY DEF load_env_vars, UnsetVar, ApplyVar, BadVar, EndOfEnv, ReadingEnv
<1>2. \A k, v, n : After(k, n, v)' <=> After(k, n, v')
  BY <1>1 DEF After, SettlesIn, Skipped, FileValue, Bracketed
<1>3. \A k : EnvValue(k)' = EnvValue(k)
  BY <1>1 DEF EnvValue
<1>4. Len(Vars) = 6 /\ pos \in 1..7
  BY <1>1, VarsAreKeys DEF InEnv
<1>5. CASE UnsetVar
  <2>1. pos \in 1..6 /\ env[Vars[pos]] = Unset /\ pos' = pos + 1 /\ UNCHANGED <<settings, pc, outcome>>
    BY <1>4, <1>5 DEF UnsetVar, ReadingEnv
  <2>2. \A i \in 1..6 : i < pos' /\ env[Vars[i]] # Unset <=> i < pos /\ env[Vars[i]] # Unset
    BY <1>4, <2>1
  <2>3. InEnv'
    BY <1>1, <1>2, <1>3, <2>1, <2>2 DEF InEnv
  <2> QED
    BY <1>1, <2>1, <2>3 DEF InFile, Done
<1>6. CASE ApplyVar
  <2>1. /\ pos \in 1..6 /\ env[Vars[pos]] # Unset
        /\ settings' = [settings EXCEPT ![Vars[pos]] = EnvValue(Vars[pos])]
        /\ pos' = pos + 1 /\ UNCHANGED <<pc, outcome>>
    BY <1>4, <1>6 DEF ApplyVar, ReadingEnv
  <2>2. Vars[pos] \in Key
    BY <2>1, VarsAreKeys
  <2>3. ASSUME NEW i \in 1..6
        PROVE  IF i < pos' /\ env[Vars[i]] # Unset
                 THEN settings'[Vars[i]] = EnvValue(Vars[i])
                 ELSE After(Vars[i], Len(file), settings'[Vars[i]])
    <3>1. CASE i = pos
      BY <2>1, <2>2, <3>1
    <3>2. CASE i # pos
      <4>1. Vars[i] # Vars[pos] /\ Vars[i] \in Key
        BY <2>1, <3>2, VarsAreKeys
      <4>2. settings'[Vars[i]] = settings[Vars[i]]
        BY <2>1, <4>1
      <4>3. i < pos' <=> i < pos
        BY <2>1, <3>2
      <4> QED
        BY <1>1, <4>2, <4>3 DEF InEnv
    <3> QED
      BY <3>1, <3>2
  <2>4. InEnv'
    BY <1>1, <1>2, <1>3, <2>1, <2>3 DEF InEnv
  <2>5. settings' = [k \in Key |-> settings'[k]]
    BY <2>1
  <2> QED
    BY <1>1, <2>1, <2>4, <2>5 DEF InFile, Done
<1>7. CASE BadVar
  BY <1>1, <1>7 DEF BadVar, InFile, InEnv, Done
<1>8. CASE EndOfEnv
  <2>1. pos = 7 /\ UNCHANGED settings /\ pc' = "idle" /\ outcome' = "true"
    BY <1>4, <1>8 DEF EndOfEnv
  <2>2. \A k \in Key : IF env[k] # Unset THEN settings[k] = EnvValue(k)
                                         ELSE After(k, Len(file), settings[k])
    <3> SUFFICES ASSUME NEW k \in Key
                 PROVE  IF env[k] # Unset THEN settings[k] = EnvValue(k)
                                          ELSE After(k, Len(file), settings[k])
      OBVIOUS
    <3>1. PICK i \in 1..6 : Vars[i] = k
      BY VarsAreKeys
    <3> QED
      BY <1>1, <2>1, <3>1 DEF InEnv
  <2>3. Done'
    BY <1>1, <1>2, <1>3, <2>1, <2>2 DEF Done
  <2> QED
    BY <1>1, <2>1, <2>3 DEF InFile, InEnv
<1> QED
  BY <1>5, <1>6, <1>7, <1>8 DEF load_env_vars

LEMMA Invariance == Spec => []IInv
<1>1. IInv /\ UNCHANGED vars => IInv'
  <2> SUFFICES ASSUME IInv, UNCHANGED vars PROVE IInv'
    OBVIOUS
  <2>1. \A k, v, n : After(k, n, v)' <=> After(k, n, v')
    BY DEF vars, After, SettlesIn, Skipped, FileValue, Bracketed
  <2>2. \A k : EnvValue(k)' = EnvValue(k)
    BY DEF vars, EnvValue
  <2> QED
    BY <2>1, <2>2 DEF vars, IInv, Shape, InFile, InEnv, Done
<1>2. IInv /\ [Next]_vars => IInv'
  BY <1>1, LoadStep, FileStep, EnvStep DEF Next
<1> QED
  BY InitInv, <1>2, PTL DEF Spec

--------------------------------------------------------------------------------

\* After a load that returned true the environment has its say over the file,
\* the last line over the earlier ones, both over what was there, and a plain
\* line means what it says (config.cpp:31-100).
THEOREM SettingsAsWritten == Spec => []AsWritten
<1>1. IInv => AsWritten
  <2> SUFFICES ASSUME IInv, outcome = "true", NEW k \in Key
               PROVE  /\ env[k] # Unset => settings[k] = EnvValue(k)
                      /\ env[k] = Unset =>
                           /\ \A i \in 1..Len(file) :
                                  Settles(k, i) /\ (file[i].form = "plain" \/ k \in Number)
                                      => settings[k] = Meant(file[i])
                           /\ (~\E i \in 1..Len(file) : Settles(k, i)) => settings[k] = prior[k]
    BY DEF AsWritten
  <2>1. IF env[k] # Unset THEN settings[k] = EnvValue(k)
                          ELSE After(k, Len(file), settings[k])
    BY DEF IInv, Done
  <2>2. \A i \in 1..Len(file) : Settles(k, i) <=> SettlesIn(k, i, Len(file))
    BY DEF Settles, SettlesIn
  <2>3. ASSUME NEW i \in 1..Len(file), Settles(k, i), file[i].form = "plain" \/ k \in Number
        PROVE  FileValue(file[i]) = Meant(file[i])
    <3>1. file[i] \in Line
      BY ElementOfSeq DEF IInv, Shape
    <3>2. file[i].key = k
      BY <2>3 DEF Settles
    <3> QED
      BY <2>3, <3>1, <3>2, PlainIsMeant
  <2> QED
    BY <2>1, <2>2, <2>3 DEF After
<1> QED
  BY <1>1, Invariance, PTL
================================================================================
