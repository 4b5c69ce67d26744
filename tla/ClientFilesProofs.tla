------------------------- MODULE ClientFilesProofs -------------------------
(***************************************************************************)
(* Who has a fid number, what the server has bound to it, and when it may  *)
(* be handed out again, for any number of callers, Files and fids.         *)
(***************************************************************************)
EXTENDS ClientFiles, SequenceTheorems, TLAPS

USE Zenon   \* a leaf that needs arithmetic or long case splits names SMT

-----------------------------------------------------------------------------
(* Outlines: what an operation has at each step of its script *)

\* The holds on a File, and the steps of the scripts.
Modes == {"conn", "none", "read", "write"}
Steps == {"begin", "end", "keep", "backoff", "close", "unlock"} \cup Walking \cup Using \cup Cleaning

\* The hold an operation has on the File it started from, if it did from one.
Mode(g) ==
  IF op[g].base = None THEN "conn"
  ELSE IF g \in readers[op[g].base] THEN "read"
  ELSE IF writer[op[g].base] = g THEN "write" ELSE "none"

\* A step that an operation with n own fids and hold m may be at, and what it has
\* once the step is done.
Legal(s, n, m, n1, m1) ==
  \/ s = "begin" /\ m = "none" /\ m1 = "read" /\ n = 0 /\ n1 = 0
  \/ s = "end" /\ m = "read" /\ m1 = "none" /\ n1 = n
  \/ s \in Walking /\ m \in {"read", "conn"} /\ m1 = m /\ n1 = n + 1 /\ (s = "walkOn" => n > 0)
  \/ /\ s \in Using /\ m # "write" /\ m1 = m /\ n1 = n /\ (n > 0 \/ m = "read")
     /\ s \in {"lock", "unlck"} => n = 0
  \/ s \in {"clean", "clean1"} /\ n > 0 /\ n1 = n - 1 /\ m1 = m /\ m # "write"
  \/ s = "keep" /\ n = 1 /\ n1 = 0 /\ m \in {"read", "conn"} /\ m1 = m
  \/ s = "backoff" /\ n = 0 /\ n1 = 0 /\ m = "read" /\ m1 = "read"
  \/ s = "close" /\ n = 0 /\ n1 = 0 /\ m = "none" /\ m1 = "write"
  \/ s = "clunk" /\ n = 0 /\ n1 = 0 /\ m = "write" /\ m1 = "write"
  \/ s = "unlock" /\ n = 0 /\ n1 = 0 /\ m = "write" /\ m1 = "none"

\* The steps of todo are legal one after the other, and leave no fid and no lock.
Outline(todo, n, m) ==
  \E ns \in [1 .. Len(todo) + 1 -> Nat], ms \in [1 .. Len(todo) + 1 -> Modes] :
    /\ ns[1] = n /\ ms[1] = m
    /\ \A i \in 1 .. Len(todo) : Legal(todo[i], ns[i], ms[i], ns[i + 1], ms[i + 1])
    /\ ns[Len(todo) + 1] = 0 /\ ms[Len(todo) + 1] \in {"none", "conn"}

\* Every operation of the package.
Scripts == {Attach} \cup ConnScripts \cup FileScripts

\* The outline of the rest of a script.
LEMMA OutlineTail ==
  ASSUME NEW todo \in Seq(Steps), todo # <<>>, NEW n, NEW m, Outline(todo, n, m)
  PROVE  \E n1 \in Nat, m1 \in Modes :
           Legal(Head(todo), n, m, n1, m1) /\ Outline(Tail(todo), n1, m1)
<1>1. PICK ns \in [1 .. Len(todo) + 1 -> Nat], ms \in [1 .. Len(todo) + 1 -> Modes] :
        /\ ns[1] = n /\ ms[1] = m
        /\ \A i \in 1 .. Len(todo) : Legal(todo[i], ns[i], ms[i], ns[i + 1], ms[i + 1])
        /\ ns[Len(todo) + 1] = 0 /\ ms[Len(todo) + 1] \in {"none", "conn"}
  BY DEF Outline
<1>2. /\ Tail(todo) \in Seq(Steps) /\ Len(Tail(todo)) = Len(todo) - 1
      /\ Len(todo) \in Nat \ {0} /\ Head(todo) = todo[1]
      /\ \A i \in 1 .. Len(todo) - 1 : Tail(todo)[i] = todo[i + 1]
  BY SMT
<1> DEFINE ns1 == [i \in 1 .. Len(todo) |-> ns[i + 1]]
           ms1 == [i \in 1 .. Len(todo) |-> ms[i + 1]]
<1>3. ns1 \in [1 .. Len(Tail(todo)) + 1 -> Nat] /\ ms1 \in [1 .. Len(Tail(todo)) + 1 -> Modes]
  BY <1>1, <1>2, SMT
<1>4. /\ ns1[1] = ns[2] /\ ms1[1] = ms[2]
      /\ ns1[Len(Tail(todo)) + 1] = 0 /\ ms1[Len(Tail(todo)) + 1] \in {"none", "conn"}
  BY <1>1, <1>2, SMT
<1>5. \A i \in 1 .. Len(Tail(todo)) :
        Legal(Tail(todo)[i], ns1[i], ms1[i], ns1[i + 1], ms1[i + 1])
  <2> SUFFICES ASSUME NEW i \in 1 .. Len(Tail(todo))
               PROVE  Legal(Tail(todo)[i], ns1[i], ms1[i], ns1[i + 1], ms1[i + 1])
    OBVIOUS
  <2>1. i + 1 \in 1 .. Len(todo) /\ Tail(todo)[i] = todo[i + 1]
    BY <1>2, SMT
  <2>2. ns1[i] = ns[i + 1] /\ ms1[i] = ms[i + 1] /\ ns1[i + 1] = ns[i + 1 + 1] /\ ms1[i + 1] = ms[i + 1 + 1]
    BY <1>2, SMT
  <2> QED
    BY <1>1, <2>1, <2>2
<1>6. Legal(Head(todo), n, m, ns[2], ms[2]) /\ ns[2] \in Nat /\ ms[2] \in Modes
  <2>1. 1 \in 1 .. Len(todo) /\ 2 \in 1 .. Len(todo) + 1 /\ 1 + 1 = 2
    BY <1>2, SMT
  <2> QED
    BY <1>1, <1>2, <2>1
<1> HIDE DEF ns1, ms1
<1>7. Outline(Tail(todo), ns[2], ms[2])
  BY <1>3, <1>4, <1>5 DEF Outline
<1> QED
  BY <1>6, <1>7

\* The outline of a script with one more step before it.
LEMMA OutlineCons ==
  ASSUME NEW s, NEW todo, NEW t \in Seq(Steps), NEW n \in Nat, NEW m \in Modes,
         NEW n1, NEW m1, Legal(s, n, m, n1, m1), Outline(t, n1, m1),
         Len(todo) = Len(t) + 1, todo[1] = s, \A i \in 1 .. Len(t) : todo[i + 1] = t[i]
  PROVE  Outline(todo, n, m)
<1>1. PICK ns \in [1 .. Len(t) + 1 -> Nat], ms \in [1 .. Len(t) + 1 -> Modes] :
        /\ ns[1] = n1 /\ ms[1] = m1
        /\ \A i \in 1 .. Len(t) : Legal(t[i], ns[i], ms[i], ns[i + 1], ms[i + 1])
        /\ ns[Len(t) + 1] = 0 /\ ms[Len(t) + 1] \in {"none", "conn"}
  BY DEF Outline
<1> DEFINE ns0 == [i \in 1 .. Len(todo) + 1 |-> IF i = 1 THEN n ELSE ns[i - 1]]
           ms0 == [i \in 1 .. Len(todo) + 1 |-> IF i = 1 THEN m ELSE ms[i - 1]]
<1>2. Len(t) \in Nat
  BY SMT
<1>3. ns0 \in [1 .. Len(todo) + 1 -> Nat] /\ ms0 \in [1 .. Len(todo) + 1 -> Modes]
  BY <1>1, <1>2, SMT
<1>4. /\ ns0[1] = n /\ ms0[1] = m /\ ns0[2] = n1 /\ ms0[2] = m1
      /\ ns0[Len(todo) + 1] = 0 /\ ms0[Len(todo) + 1] \in {"none", "conn"}
  BY <1>1, <1>2, SMT
<1>5. ASSUME NEW i \in 1 .. Len(todo)
      PROVE  Legal(todo[i], ns0[i], ms0[i], ns0[i + 1], ms0[i + 1])
  <2>1. CASE i = 1
    <3>1. 1 + 1 = 2
      BY SMT
    <3> HIDE DEF ns0, ms0
    <3> QED
      BY <1>4, <2>1, <3>1
  <2>2. CASE i # 1
    <3>1. PICK j \in 1 .. Len(t) : i = j + 1
      BY <1>2, <2>2, SMT
    <3>2. ns0[i] = ns[j] /\ ms0[i] = ms[j] /\ ns0[i + 1] = ns[j + 1] /\ ms0[i + 1] = ms[j + 1]
      BY <1>2, <3>1, SMT
    <3> QED
      BY <1>1, <3>1, <3>2
  <2> QED
    BY <2>1, <2>2
<1> HIDE DEF ns0, ms0
<1> QED
  BY <1>3, <1>4, <1>5 DEF Outline

\* Nothing is left to do for an operation that has nothing.
LEMMA OutlineEmpty ==
  /\ \A n, m : Outline(<<>>, n, m) => n = 0 /\ m \in {"none", "conn"}
  /\ \A m \in {"none", "conn"} : Outline(<<>>, 0, m)
<1>1. Len(<<>>) + 1 = 1
  BY SMT
<1>2. ASSUME NEW m \in {"none", "conn"} PROVE Outline(<<>>, 0, m)
  <2>1. [i \in 1 .. 1 |-> 0] \in [1 .. 1 -> Nat] /\ [i \in 1 .. 1 |-> m] \in [1 .. 1 -> Modes]
    BY SMT DEF Modes
  <2>2. \A i \in 1 .. Len(<<>>) : FALSE
    BY SMT
  <2>3. [i \in 1 .. 1 |-> 0][1] = 0 /\ [i \in 1 .. 1 |-> m][1] = m
    BY SMT
  <2> QED
    BY <1>1, <2>1, <2>2, <2>3 DEF Outline
<1>3. ASSUME NEW n, NEW m, Outline(<<>>, n, m) PROVE n = 0 /\ m \in {"none", "conn"}
  BY <1>1, <1>3 DEF Outline
<1> QED
  BY <1>2, <1>3

\* Every script has an outline, from the point where it is started or resumed.
LEMMA ScriptOutlines ==
  /\ \A s \in Scripts : s \in Seq(Steps) /\ s # <<>> /\ (s # Attach => Outline(s, 0, "none"))
  /\ Outline(Attach, 0, "conn")
  /\ <<"unlck", "end">> \in Seq(Steps) /\ Outline(<<"unlck", "end">>, 0, "read")
  /\ <<"clunk", "unlock">> \in Seq(Steps) /\ Outline(<<"clunk", "unlock">>, 0, "write")
  /\ <<"unlock">> \in Seq(Steps) /\ Outline(<<"unlock">>, 0, "write")
  /\ <<"unlck", "end">> # <<>> /\ <<"clunk", "unlock">> # <<>> /\ <<"unlock">> # <<>>
<1>1. Attach \in Seq(Steps) /\ Attach # <<>> /\ Outline(Attach, 0, "conn")
  <2> DEFINE ns == <<0, 1, 0>>
             ms == <<"conn", "conn", "conn">>
  <2>1. /\ Attach \in Seq(Steps) /\ Len(Attach) = 2
        /\ ns \in [1 .. 2 + 1 -> Nat] /\ ms \in [1 .. 2 + 1 -> Modes]
        /\ \A i \in 1 .. 2 : Legal(Attach[i], ns[i], ms[i], ns[i + 1], ms[i + 1])
        /\ ns[1] = 0 /\ ms[1] = "conn" /\ ns[2 + 1] = 0 /\ ms[2 + 1] \in {"none", "conn"}
    BY SMT DEF Attach, Legal, Walking, Using, Modes, Steps, Cleaning
  <2>2. Attach # <<>>
    BY SMT DEF Attach
  <2> HIDE DEF ns, ms
  <2> QED
    BY <2>1, <2>2 DEF Outline
<1>2. Walk \in Seq(Steps) /\ Walk # <<>> /\ Outline(Walk, 0, "none")
  <2> DEFINE ns == <<0, 0, 1, 0, 0>>
             ms == <<"none", "read", "read", "read", "none">>
  <2>1. /\ Walk \in Seq(Steps) /\ Len(Walk) = 4
        /\ ns \in [1 .. 4 + 1 -> Nat] /\ ms \in [1 .. 4 + 1 -> Modes]
        /\ \A i \in 1 .. 4 : Legal(Walk[i], ns[i], ms[i], ns[i + 1], ms[i + 1])
        /\ ns[1] = 0 /\ ms[1] = "none" /\ ns[4 + 1] = 0 /\ ms[4 + 1] \in {"none", "conn"}
    BY SMT DEF Walk, Legal, Walking, Using, Modes, Steps, Cleaning
  <2>2. Walk # <<>>
    BY SMT DEF Walk
  <2> HIDE DEF ns, ms
  <2> QED
    BY <2>1, <2>2 DEF Outline
<1>3. OpenFile \in Seq(Steps) /\ OpenFile # <<>> /\ Outline(OpenFile, 0, "none")
  <2> DEFINE ns == <<0, 0, 1, 1, 0, 0>>
             ms == <<"none", "read", "read", "read", "read", "none">>
  <2>1. /\ OpenFile \in Seq(Steps) /\ Len(OpenFile) = 5
        /\ ns \in [1 .. 5 + 1 -> Nat] /\ ms \in [1 .. 5 + 1 -> Modes]
        /\ \A i \in 1 .. 5 : Legal(OpenFile[i], ns[i], ms[i], ns[i + 1], ms[i + 1])
        /\ ns[1] = 0 /\ ms[1] = "none" /\ ns[5 + 1] = 0 /\ ms[5 + 1] \in {"none", "conn"}
    BY SMT DEF OpenFile, Legal, Walking, Using, Modes, Steps, Cleaning
  <2>2. OpenFile # <<>>
    BY SMT DEF OpenFile
  <2> HIDE DEF ns, ms
  <2> QED
    BY <2>1, <2>2 DEF Outline
<1>4. Mkdir \in Seq(Steps) /\ Mkdir # <<>> /\ Outline(Mkdir, 0, "none")
  <2> DEFINE ns == <<0, 0, 1, 1, 2, 1, 0, 0>>
             ms == <<"none", "read", "read", "read", "read", "read", "read", "none">>
  <2>1. /\ Mkdir \in Seq(Steps) /\ Len(Mkdir) = 7
        /\ ns \in [1 .. 7 + 1 -> Nat] /\ ms \in [1 .. 7 + 1 -> Modes]
        /\ \A i \in 1 .. 7 : Legal(Mkdir[i], ns[i], ms[i], ns[i + 1], ms[i + 1])
        /\ ns[1] = 0 /\ ms[1] = "none" /\ ns[7 + 1] = 0 /\ ms[7 + 1] \in {"none", "conn"}
    BY SMT DEF Mkdir, Legal, Walking, Using, Modes, Steps, Cleaning
  <2>2. Mkdir # <<>>
    BY SMT DEF Mkdir
  <2> HIDE DEF ns, ms
  <2> QED
    BY <2>1, <2>2 DEF Outline
<1>5. Rename \in Seq(Steps) /\ Rename # <<>> /\ Outline(Rename, 0, "none")
  <2> DEFINE ns == <<0, 0, 1, 2, 2, 1, 0, 0>>
             ms == <<"none", "read", "read", "read", "read", "read", "read", "none">>
  <2>1. /\ Rename \in Seq(Steps) /\ Len(Rename) = 7
        /\ ns \in [1 .. 7 + 1 -> Nat] /\ ms \in [1 .. 7 + 1 -> Modes]
        /\ \A i \in 1 .. 7 : Legal(Rename[i], ns[i], ms[i], ns[i + 1], ms[i + 1])
        /\ ns[1] = 0 /\ ms[1] = "none" /\ ns[7 + 1] = 0 /\ ms[7 + 1] \in {"none", "conn"}
    BY SMT DEF Rename, Legal, Walking, Using, Modes, Steps, Cleaning
  <2>2. Rename # <<>>
    BY SMT DEF Rename
  <2> HIDE DEF ns, ms
  <2> QED
    BY <2>1, <2>2 DEF Outline
<1>6. RemovePath \in Seq(Steps) /\ RemovePath # <<>> /\ Outline(RemovePath, 0, "none")
  <2> DEFINE ns == <<0, 0, 1, 1, 1, 0, 0>>
             ms == <<"none", "read", "read", "read", "read", "read", "none">>
  <2>1. /\ RemovePath \in Seq(Steps) /\ Len(RemovePath) = 6
        /\ ns \in [1 .. 6 + 1 -> Nat] /\ ms \in [1 .. 6 + 1 -> Modes]
        /\ \A i \in 1 .. 6 : Legal(RemovePath[i], ns[i], ms[i], ns[i + 1], ms[i + 1])
        /\ ns[1] = 0 /\ ms[1] = "none" /\ ns[6 + 1] = 0 /\ ms[6 + 1] \in {"none", "conn"}
    BY SMT DEF RemovePath, Legal, Walking, Using, Modes, Steps, Cleaning
  <2>2. RemovePath # <<>>
    BY SMT DEF RemovePath
  <2> HIDE DEF ns, ms
  <2> QED
    BY <2>1, <2>2 DEF Outline
<1>7. XattrGet \in Seq(Steps) /\ XattrGet # <<>> /\ Outline(XattrGet, 0, "none")
  <2> DEFINE ns == <<0, 0, 1, 1, 1, 0, 0>>
             ms == <<"none", "read", "read", "read", "read", "read", "none">>
  <2>1. /\ XattrGet \in Seq(Steps) /\ Len(XattrGet) = 6
        /\ ns \in [1 .. 6 + 1 -> Nat] /\ ms \in [1 .. 6 + 1 -> Modes]
        /\ \A i \in 1 .. 6 : Legal(XattrGet[i], ns[i], ms[i], ns[i + 1], ms[i + 1])
        /\ ns[1] = 0 /\ ms[1] = "none" /\ ns[6 + 1] = 0 /\ ms[6 + 1] \in {"none", "conn"}
    BY SMT DEF XattrGet, Legal, Walking, Using, Modes, Steps, Cleaning
  <2>2. XattrGet # <<>>
    BY SMT DEF XattrGet
  <2> HIDE DEF ns, ms
  <2> QED
    BY <2>1, <2>2 DEF Outline
<1>8. XattrSet \in Seq(Steps) /\ XattrSet # <<>> /\ Outline(XattrSet, 0, "none")
  <2> DEFINE ns == <<0, 0, 1, 1, 1, 1, 0>>
             ms == <<"none", "read", "read", "none", "none", "none", "none">>
  <2>1. /\ XattrSet \in Seq(Steps) /\ Len(XattrSet) = 6
        /\ ns \in [1 .. 6 + 1 -> Nat] /\ ms \in [1 .. 6 + 1 -> Modes]
        /\ \A i \in 1 .. 6 : Legal(XattrSet[i], ns[i], ms[i], ns[i + 1], ms[i + 1])
        /\ ns[1] = 0 /\ ms[1] = "none" /\ ns[6 + 1] = 0 /\ ms[6 + 1] \in {"none", "conn"}
    BY SMT DEF XattrSet, Legal, Walking, Using, Modes, Steps, Cleaning
  <2>2. XattrSet # <<>>
    BY SMT DEF XattrSet
  <2> HIDE DEF ns, ms
  <2> QED
    BY <2>1, <2>2 DEF Outline
<1>9. FileIO \in Seq(Steps) /\ FileIO # <<>> /\ Outline(FileIO, 0, "none")
  <2> DEFINE ns == <<0, 0, 0, 0, 0>>
             ms == <<"none", "read", "read", "read", "none">>
  <2>1. /\ FileIO \in Seq(Steps) /\ Len(FileIO) = 4
        /\ ns \in [1 .. 4 + 1 -> Nat] /\ ms \in [1 .. 4 + 1 -> Modes]
        /\ \A i \in 1 .. 4 : Legal(FileIO[i], ns[i], ms[i], ns[i + 1], ms[i + 1])
        /\ ns[1] = 0 /\ ms[1] = "none" /\ ns[4 + 1] = 0 /\ ms[4 + 1] \in {"none", "conn"}
    BY SMT DEF FileIO, Legal, Walking, Using, Modes, Steps, Cleaning
  <2>2. FileIO # <<>>
    BY SMT DEF FileIO
  <2> HIDE DEF ns, ms
  <2> QED
    BY <2>1, <2>2 DEF Outline
<1>10. FileCall \in Seq(Steps) /\ FileCall # <<>> /\ Outline(FileCall, 0, "none")
  <2> DEFINE ns == <<0, 0, 0, 0>>
             ms == <<"none", "read", "read", "none">>
  <2>1. /\ FileCall \in Seq(Steps) /\ Len(FileCall) = 3
        /\ ns \in [1 .. 3 + 1 -> Nat] /\ ms \in [1 .. 3 + 1 -> Modes]
        /\ \A i \in 1 .. 3 : Legal(FileCall[i], ns[i], ms[i], ns[i + 1], ms[i + 1])
        /\ ns[1] = 0 /\ ms[1] = "none" /\ ns[3 + 1] = 0 /\ ms[3 + 1] \in {"none", "conn"}
    BY SMT DEF FileCall, Legal, Walking, Using, Modes, Steps, Cleaning
  <2>2. FileCall # <<>>
    BY SMT DEF FileCall
  <2> HIDE DEF ns, ms
  <2> QED
    BY <2>1, <2>2 DEF Outline
<1>11. Lock \in Seq(Steps) /\ Lock # <<>> /\ Outline(Lock, 0, "none")
  <2> DEFINE ns == <<0, 0, 0, 0>>
             ms == <<"none", "read", "read", "none">>
  <2>1. /\ Lock \in Seq(Steps) /\ Len(Lock) = 3
        /\ ns \in [1 .. 3 + 1 -> Nat] /\ ms \in [1 .. 3 + 1 -> Modes]
        /\ \A i \in 1 .. 3 : Legal(Lock[i], ns[i], ms[i], ns[i + 1], ms[i + 1])
        /\ ns[1] = 0 /\ ms[1] = "none" /\ ns[3 + 1] = 0 /\ ms[3 + 1] \in {"none", "conn"}
    BY SMT DEF Lock, Legal, Walking, Using, Modes, Steps, Cleaning
  <2>2. Lock # <<>>
    BY SMT DEF Lock
  <2> HIDE DEF ns, ms
  <2> QED
    BY <2>1, <2>2 DEF Outline
<1>12. Close \in Seq(Steps) /\ Close # <<>> /\ Outline(Close, 0, "none")
  <2> DEFINE ns == <<0, 0, 0, 0>>
             ms == <<"none", "write", "write", "none">>
  <2>1. /\ Close \in Seq(Steps) /\ Len(Close) = 3
        /\ ns \in [1 .. 3 + 1 -> Nat] /\ ms \in [1 .. 3 + 1 -> Modes]
        /\ \A i \in 1 .. 3 : Legal(Close[i], ns[i], ms[i], ns[i + 1], ms[i + 1])
        /\ ns[1] = 0 /\ ms[1] = "none" /\ ns[3 + 1] = 0 /\ ms[3 + 1] \in {"none", "conn"}
    BY SMT DEF Close, Legal, Walking, Using, Modes, Steps, Cleaning
  <2>2. Close # <<>>
    BY SMT DEF Close
  <2> HIDE DEF ns, ms
  <2> QED
    BY <2>1, <2>2 DEF Outline
<1>13. <<"unlck", "end">> \in Seq(Steps) /\ <<"unlck", "end">> # <<>> /\ Outline(<<"unlck", "end">>, 0, "read")
  <2> DEFINE ns == <<0, 0, 0>>
             ms == <<"read", "read", "none">>
  <2>1. /\ <<"unlck", "end">> \in Seq(Steps) /\ Len(<<"unlck", "end">>) = 2
        /\ ns \in [1 .. 2 + 1 -> Nat] /\ ms \in [1 .. 2 + 1 -> Modes]
        /\ \A i \in 1 .. 2 : Legal(<<"unlck", "end">>[i], ns[i], ms[i], ns[i + 1], ms[i + 1])
        /\ ns[1] = 0 /\ ms[1] = "read" /\ ns[2 + 1] = 0 /\ ms[2 + 1] \in {"none", "conn"}
    BY SMT DEF Legal, Walking, Using, Modes, Steps, Cleaning
  <2>2. <<"unlck", "end">> # <<>>
    BY SMT
  <2> HIDE DEF ns, ms
  <2> QED
    BY <2>1, <2>2 DEF Outline
<1>14. <<"clunk", "unlock">> \in Seq(Steps) /\ <<"clunk", "unlock">> # <<>> /\ Outline(<<"clunk", "unlock">>, 0, "write")
  <2> DEFINE ns == <<0, 0, 0>>
             ms == <<"write", "write", "none">>
  <2>1. /\ <<"clunk", "unlock">> \in Seq(Steps) /\ Len(<<"clunk", "unlock">>) = 2
        /\ ns \in [1 .. 2 + 1 -> Nat] /\ ms \in [1 .. 2 + 1 -> Modes]
        /\ \A i \in 1 .. 2 : Legal(<<"clunk", "unlock">>[i], ns[i], ms[i], ns[i + 1], ms[i + 1])
        /\ ns[1] = 0 /\ ms[1] = "write" /\ ns[2 + 1] = 0 /\ ms[2 + 1] \in {"none", "conn"}
    BY SMT DEF Legal, Walking, Using, Modes, Steps, Cleaning
  <2>2. <<"clunk", "unlock">> # <<>>
    BY SMT
  <2> HIDE DEF ns, ms
  <2> QED
    BY <2>1, <2>2 DEF Outline
<1>15. <<"unlock">> \in Seq(Steps) /\ <<"unlock">> # <<>> /\ Outline(<<"unlock">>, 0, "write")
  <2> DEFINE ns == <<0, 0>>
             ms == <<"write", "none">>
  <2>1. /\ <<"unlock">> \in Seq(Steps) /\ Len(<<"unlock">>) = 1
        /\ ns \in [1 .. 1 + 1 -> Nat] /\ ms \in [1 .. 1 + 1 -> Modes]
        /\ \A i \in 1 .. 1 : Legal(<<"unlock">>[i], ns[i], ms[i], ns[i + 1], ms[i + 1])
        /\ ns[1] = 0 /\ ms[1] = "write" /\ ns[1 + 1] = 0 /\ ms[1 + 1] \in {"none", "conn"}
    BY SMT DEF Legal, Walking, Using, Modes, Steps, Cleaning
  <2>2. <<"unlock">> # <<>>
    BY SMT
  <2> HIDE DEF ns, ms
  <2> QED
    BY <2>1, <2>2 DEF Outline
<1>16. /\ Clone = Walk /\ Create = OpenFile /\ Symlink = Mkdir /\ Mknod = Mkdir /\ Link = Rename
  BY DEF Clone, Walk, Create, OpenFile, Symlink, Mkdir, Mknod, Link, Rename
<1> QED
  BY <1>1, <1>2, <1>3, <1>4, <1>5, <1>6, <1>7, <1>8, <1>9, <1>10, <1>11, <1>12, <1>13, <1>14, <1>15, <1>16 DEF Scripts, ConnScripts, FileScripts

\* The outline of what an error path leaves to do.
LEMMA UnwindOutline ==
  ASSUME NEW n \in Nat, NEW e \in {<<"end">>, <<>>}, NEW m \in Modes,
         e = <<"end">> <=> m = "read", m # "write"
  PROVE  /\ [i \in 1 .. n |-> "clean"] \o e \in Seq(Steps)
         /\ Outline([i \in 1 .. n |-> "clean"] \o e, n, m)
<1> DEFINE c == [i \in 1 .. n |-> "clean"]
<1>1. c \in Seq(Steps) /\ Len(c) = n /\ \A i \in 1 .. n : c[i] = "clean"
  BY SMT DEF Steps, Cleaning
<1>2. /\ <<>> \in Seq(Steps) /\ Len(<<>>) = 0
      /\ <<"end">> \in Seq(Steps) /\ Len(<<"end">>) = 1 /\ <<"end">>[1] = "end"
  BY SMT DEF Steps
<1> HIDE DEF c
<1>3. PICK k \in {0, 1} : /\ e \in Seq(Steps) /\ Len(e) = k /\ (k = 1 => e[1] = "end")
                          /\ k = 1 <=> m = "read"
  <2>1. CASE e = <<"end">>
    BY <1>2, <2>1
  <2>2. CASE e # <<"end">>
    <3>1. 0 # 1
      BY SMT
    <3> QED
      BY <1>2, <2>2, <3>1
  <2> QED
    BY <2>1, <2>2
<1>4. /\ c \o e \in Seq(Steps) /\ Len(c \o e) = n + k
      /\ \A i \in 1 .. n : (c \o e)[i] = "clean"
      /\ k = 1 => (c \o e)[n + 1] = "end"
  BY <1>1, <1>3, SMT
<1> DEFINE ns == [i \in 1 .. n + k + 1 |-> IF i <= n THEN n + 1 - i ELSE 0]
           ms == [i \in 1 .. n + k + 1 |-> IF i <= n + 1 THEN m ELSE "none"]
<1>5. ns \in [1 .. n + k + 1 -> Nat] /\ ms \in [1 .. n + k + 1 -> Modes]
  <2>1. \A i \in 1 .. n + k + 1 : i <= n => n + 1 - i \in Nat
    BY SMT
  <2>2. "none" \in Modes /\ 0 \in Nat
    BY SMT DEF Modes
  <2> QED
    BY <2>1, <2>2
<1>6. /\ ns[1] = n /\ ms[1] = m
      /\ ns[n + k + 1] = 0 /\ ms[n + k + 1] \in {"none", "conn"}
  BY <1>3, SMT DEF Modes
<1>7. ASSUME NEW i \in 1 .. n + k
      PROVE  Legal((c \o e)[i], ns[i], ms[i], ns[i + 1], ms[i + 1])
  <2>1. CASE i <= n
    <3>1. (c \o e)[i] = "clean"
      BY <1>4, <2>1, SMT
    <3>2. ns[i] > 0 /\ ns[i + 1] = ns[i] - 1 /\ ms[i] = m /\ ms[i + 1] = m
      BY <2>1, SMT
    <3> QED
      BY <3>1, <3>2 DEF Legal
  <2>2. CASE i = n + 1 /\ k = 1
    <3>1. (c \o e)[i] = "end" /\ m = "read"
      BY <1>3, <1>4, <2>2
    <3>2. ns[i] = 0 /\ ns[i + 1] = 0 /\ ms[i] = m /\ ms[i + 1] = "none"
      BY <2>2, SMT
    <3> QED
      BY <3>1, <3>2 DEF Legal
  <2>3. i <= n \/ (i = n + 1 /\ k = 1)
    BY SMT
  <2> QED
    BY <2>1, <2>2, <2>3
<1> HIDE DEF ns, ms
<1>8. Outline(c \o e, n, m)
  BY <1>4, <1>5, <1>6, <1>7 DEF Outline
<1> QED
  BY <1>4, <1>8 DEF c

-----------------------------------------------------------------------------
(* The inductive invariant *)

\* Operations and calls.
OpType == [todo : Seq(Steps), base : File \cup {None}, own : Seq(Fid)]
CallType == [st : {"none", "sent", "ok", "err", "blocked"}, fids : SUBSET Fid, new : 0 .. MaxFid]

\* The types of what the proofs are about.
FilesType ==
  /\ next \in 1 .. MaxFid + 1 /\ reuse \in Seq(Fid) /\ Len(reuse) <= ReuseCap
  /\ file \in [File -> [fid : 0 .. MaxFid, closed : BOOLEAN]]
  /\ readers \in [File -> SUBSET Caller] /\ writer \in [File -> Caller \cup {None}]
  /\ op \in [Caller -> OpType] /\ call \in [Caller -> CallType]
  /\ bound \in [Fid -> {None, "cancelled", "quarantined"} \cup Caller \cup File]
  /\ late \subseteq Fid /\ down \in BOOLEAN

\* Every operation has what the rest of its script counts on.
Placed(g) == Outline(op[g].todo, Len(op[g].own), Mode(g))
Places == \A g \in Caller : Placed(g)

\* Only who uses a File holds its lock, and Close is alone with it.
Lifecycle ==
  \A f \in File :
    /\ \A g \in readers[f] : op[g].base = f
    /\ readers[f] # {} => Open(f)
    /\ writer[f] # None =>
         /\ op[writer[f]].base = f /\ readers[f] = {} /\ ~Open(f)
         /\ Step(writer[f]) = "clunk" => Tail(op[writer[f]].todo) = <<"unlock">>

\* A request is what the step of its caller sends.
Asks(g) ==
  /\ Waiting(g) =>
       /\ Step(g) \in Walking \cup Using \cup Cleaning
       /\ Step(g) = "walk" => call[g].fids = BaseFid(g)
       /\ Step(g) = "walkOn" => call[g].fids = {Head(op[g].own)}
       /\ Step(g) \in Using =>
            call[g].fids = IF op[g].own = <<>> THEN BaseFid(g) ELSE Range(op[g].own)
       /\ Step(g) \in Cleaning => call[g].fids = {Retired(g)}
  /\ call[g].new # 0 <=> Waiting(g) /\ Step(g) \in Walking
Requests == \A g \in Caller : Asks(g)

\* A File keeps its fid from newFile until Close has clunked it.
Live(f) == Open(f) \/ Closing(f)

\* Who has a number: an operation, a File, the reuse stack, a Tclunk nobody waits
\* for, or nobody so far.
Has(k, x, i) ==
  \/ k = "caller" /\ x \in Caller /\ i \in Held(x)
  \/ k = "file" /\ x \in File /\ Live(x) /\ i = file[x].fid
  \/ k = "pool" /\ x = None /\ i \in Range(reuse)
  \/ k = "late" /\ x = None /\ i \in late
  \/ k = "fresh" /\ x = None /\ i \in next .. MaxFid

\* Only one of them has it, and once.
Owned ==
  /\ \A i, k, l, x, y : Has(k, x, i) /\ Has(l, y, i) => k = l /\ x = y
  /\ \A f \in File : Live(f) => file[f].fid \in Fid
\* And in one place of what has it.
Distinct ==
  /\ IsInjective(reuse)
  /\ \A g \in Caller : IsInjective(op[g].own) /\ call[g].new \notin Range(op[g].own)

\* What may be bound to a number that is free to be handed out.
Vacant == {None, "cancelled"}

\* What the server has bound to a number belongs to who has the number ...
FidBound(i) ==
  /\ bound[i] \in Caller => i \in Held(bound[i])
  /\ bound[i] \in File => Live(bound[i]) /\ i = file[bound[i]].fid
  /\ i \in Range(reuse) \/ i \in next .. MaxFid => bound[i] \in Vacant
  /\ down => bound[i] = None
\* ... a File has its fid ...
FileBound(f) == Open(f) => down \/ bound[file[f].fid] = f
\* ... and an operation what it has walked to and not clunked.
CallerBound(g) ==
  /\ \A i \in Range(op[g].own) :
       down \/ bound[i] = g \/ (Waiting(g) /\ Step(g) \in Cleaning /\ i = Retired(g))
  /\ Waiting(g) /\ Step(g) \in Walking =>
       IF call[g].st = "ok" THEN down \/ bound[call[g].new] = g
                            ELSE bound[call[g].new] \in Vacant
  /\ Waiting(g) /\ Step(g) \in Cleaning /\ call[g].st # "sent" => bound[Retired(g)] = None
Bindings == /\ \A i \in Fid : FidBound(i)
            /\ \A f \in File : FileBound(f)
            /\ \A g \in Caller : CallerBound(g)

\* What holds in every state.
FilesInv == FilesType /\ Places /\ Lifecycle /\ Requests /\ Owned /\ Distinct /\ Bindings

-----------------------------------------------------------------------------
(* Sequences of fids *)

\* A fid that is appended is the only new one.
LEMMA AppendFids ==
  ASSUME NEW s \in Seq(Fid), NEW i \in Fid
  PROVE  /\ Append(s, i) \in Seq(Fid) /\ Len(Append(s, i)) = Len(s) + 1 /\ Len(s) \in Nat
         /\ \A j : j \in Range(Append(s, i)) <=> j \in Range(s) \/ j = i
         /\ IsInjective(s) /\ i \notin Range(s) => IsInjective(Append(s, i))
<1>1. /\ Append(s, i) \in Seq(Fid) /\ Len(Append(s, i)) = Len(s) + 1 /\ Len(s) \in Nat
      /\ DOMAIN Append(s, i) = 1 .. Len(s) + 1 /\ DOMAIN s = 1 .. Len(s)
      /\ \A j \in 1 .. Len(s) : Append(s, i)[j] = s[j]
      /\ Append(s, i)[Len(s) + 1] = i
  BY SMT
<1>2. /\ \A j \in 1 .. Len(s) + 1 : j \in 1 .. Len(s) \/ j = Len(s) + 1
      /\ \A j \in 1 .. Len(s) : j \in 1 .. Len(s) + 1 /\ Len(s) + 1 \in 1 .. Len(s) + 1
      /\ Len(s) + 1 \in 1 .. Len(s) + 1
  BY <1>1, SMT
<1>3. \A j : j \in Range(Append(s, i)) <=> j \in Range(s) \/ j = i
  BY <1>1, <1>2 DEF Range
<1>4. IsInjective(s) /\ i \notin Range(s) => IsInjective(Append(s, i))
  BY <1>1, <1>2 DEF Range, IsInjective
<1> QED
  BY <1>1, <1>3, <1>4

\* The last fid leaves.
LEMMA FrontFids ==
  ASSUME NEW s \in Seq(Fid), s # <<>>
  PROVE  /\ Front(s) \in Seq(Fid) /\ Len(Front(s)) = Len(s) - 1 /\ Len(s) \in Nat \ {0}
         /\ Last(s) \in Fid /\ Last(s) \in Range(s)
         /\ \A j \in Range(Front(s)) : j \in Range(s)
         /\ \A j \in Range(s) : j \in Range(Front(s)) \/ j = Last(s)
         /\ IsInjective(s) => IsInjective(Front(s)) /\ Last(s) \notin Range(Front(s))
<1>1. /\ Front(s) \in Seq(Fid) /\ Len(Front(s)) = Len(s) - 1 /\ Len(s) \in Nat \ {0}
      /\ Last(s) = s[Len(s)] /\ s[Len(s)] \in Fid
      /\ DOMAIN Front(s) = 1 .. Len(s) - 1 /\ DOMAIN s = 1 .. Len(s)
      /\ \A j \in 1 .. Len(s) - 1 : Front(s)[j] = s[j]
  <2>1. /\ Len(s) \in Nat \ {0} /\ DOMAIN s = 1 .. Len(s) /\ \A j \in 1 .. Len(s) : s[j] \in Fid
        /\ 1 \in Int /\ Len(s) - 1 \in Int /\ \A j \in 1 .. Len(s) - 1 : s[j] \in Fid
        /\ Len(s) \in 1 .. Len(s) /\ (Len(s) - 1) - 1 + 1 = Len(s) - 1
        /\ (1 <= Len(s) - 1 \/ Len(s) - 1 = 0)
        /\ \A j \in 1 .. Len(s) - 1 : 1 + j - 1 = j
    <3>1. Len(s) \in Nat \ {0} /\ DOMAIN s = 1 .. Len(s) /\ \A j \in 1 .. Len(s) : s[j] \in Fid
      BY SMT
    <3> QED
      BY <3>1, SMT
  <2>2. /\ SubSeq(s, 1, Len(s) - 1) \in Seq(Fid) /\ Len(SubSeq(s, 1, Len(s) - 1)) = Len(s) - 1
        /\ \A j \in 1 .. Len(s) - 1 : SubSeq(s, 1, Len(s) - 1)[j] = s[j]
    BY <2>1, SubSeqProperties, SMT
  <2>3. DOMAIN SubSeq(s, 1, Len(s) - 1) = 1 .. Len(s) - 1
    BY <2>2, SMT
  <2> QED
    BY <2>1, <2>2, <2>3 DEF Front, Last
<1>2. /\ \A j \in 1 .. Len(s) : j \in 1 .. Len(s) - 1 \/ j = Len(s)
      /\ \A j \in 1 .. Len(s) - 1 : j \in 1 .. Len(s) /\ j # Len(s)
      /\ Len(s) \in 1 .. Len(s)
  BY <1>1, SMT
<1>3. /\ Last(s) \in Range(s)
      /\ \A j \in Range(Front(s)) : j \in Range(s)
      /\ \A j \in Range(s) : j \in Range(Front(s)) \/ j = Last(s)
  BY <1>1, <1>2 DEF Range
<1>4. IsInjective(s) => IsInjective(Front(s)) /\ Last(s) \notin Range(Front(s))
  BY <1>1, <1>2 DEF Range, IsInjective
<1> QED
  BY <1>1, <1>3, <1>4

\* The first fid leaves.
LEMMA TailFids ==
  ASSUME NEW s \in Seq(Fid), s # <<>>
  PROVE  /\ Tail(s) \in Seq(Fid) /\ Len(Tail(s)) = Len(s) - 1 /\ Len(s) \in Nat \ {0}
         /\ Head(s) \in Fid /\ Head(s) \in Range(s)
         /\ \A j \in Range(Tail(s)) : j \in Range(s)
         /\ \A j \in Range(s) : j \in Range(Tail(s)) \/ j = Head(s)
         /\ IsInjective(s) => IsInjective(Tail(s)) /\ Head(s) \notin Range(Tail(s))
<1>1. /\ Tail(s) \in Seq(Fid) /\ Len(Tail(s)) = Len(s) - 1 /\ Len(s) \in Nat \ {0}
      /\ Head(s) = s[1] /\ s[1] \in Fid
      /\ DOMAIN Tail(s) = 1 .. Len(s) - 1 /\ DOMAIN s = 1 .. Len(s)
      /\ \A j \in 1 .. Len(s) - 1 : Tail(s)[j] = s[j + 1]
  BY SMT
<1>2. /\ \A j \in 1 .. Len(s) : j = 1 \/ \E k \in 1 .. Len(s) - 1 : j = k + 1
      /\ \A j \in 1 .. Len(s) - 1 : j + 1 \in 1 .. Len(s) /\ j + 1 # 1
      /\ \A j, k \in 1 .. Len(s) - 1 : j + 1 = k + 1 => j = k
      /\ 1 \in 1 .. Len(s)
  <2>1. \A j \in 1 .. Len(s) : j = 1 \/ (j - 1 \in 1 .. Len(s) - 1 /\ j = (j - 1) + 1)
    BY <1>1, SMT
  <2>2. /\ \A j \in 1 .. Len(s) - 1 : j + 1 \in 1 .. Len(s) /\ j + 1 # 1
        /\ \A j, k \in 1 .. Len(s) - 1 : j + 1 = k + 1 => j = k
        /\ 1 \in 1 .. Len(s)
    BY <1>1, SMT
  <2> QED
    BY <2>1, <2>2
<1>3. /\ Head(s) \in Range(s)
      /\ \A j \in Range(Tail(s)) : j \in Range(s)
      /\ \A j \in Range(s) : j \in Range(Tail(s)) \/ j = Head(s)
  <2>1. ASSUME NEW j \in Range(Tail(s)) PROVE j \in Range(s)
    <3>1. PICK k \in 1 .. Len(s) - 1 : j = Tail(s)[k]
      BY <1>1, <2>1 DEF Range
    <3> QED
      BY <1>1, <1>2, <3>1 DEF Range
  <2>2. ASSUME NEW j \in Range(s) PROVE j \in Range(Tail(s)) \/ j = Head(s)
    <3>1. PICK n \in 1 .. Len(s) : j = s[n]
      BY <1>1, <2>2 DEF Range
    <3>2. CASE n # 1
      <4>1. PICK k \in 1 .. Len(s) - 1 : n = k + 1
        BY <1>2, <3>2
      <4> QED
        BY <1>1, <3>1, <4>1 DEF Range
    <3> QED
      BY <1>1, <3>1, <3>2
  <2> QED
    BY <1>1, <1>2, <2>1, <2>2 DEF Range
<1>4. ASSUME IsInjective(s) PROVE IsInjective(Tail(s)) /\ Head(s) \notin Range(Tail(s))
  <2>1. ASSUME NEW j \in 1 .. Len(s) - 1, NEW k \in 1 .. Len(s) - 1, Tail(s)[j] = Tail(s)[k] PROVE j = k
    <3>1. s[j + 1] = s[k + 1] /\ j + 1 \in 1 .. Len(s) /\ k + 1 \in 1 .. Len(s)
      BY <1>1, <1>2, <2>1
    <3>2. j + 1 = k + 1
      BY <1>1, <1>4, <3>1 DEF IsInjective
    <3> QED
      BY <1>2, <3>2
  <2>2. ASSUME NEW k \in 1 .. Len(s) - 1 PROVE Tail(s)[k] # Head(s)
    <3>1. Tail(s)[k] = s[k + 1] /\ k + 1 \in 1 .. Len(s) /\ k + 1 # 1 /\ 1 \in 1 .. Len(s)
      BY <1>1, <1>2
    <3> QED
      BY <1>1, <1>4, <3>1 DEF IsInjective
  <2> QED
    BY <1>1, <2>1, <2>2 DEF Range, IsInjective
<1> QED
  BY <1>1, <1>3, <1>4

\* A sequence of one fid, and of none.
LEMMA FewFids ==
  ASSUME NEW s \in Seq(Fid)
  PROVE  /\ Len(s) \in Nat /\ (Len(s) = 0 <=> s = <<>>)
         /\ Len(s) = 1 => s # <<>> /\ \A i : i \in Range(s) <=> i = Head(s)
         /\ \A i : i \notin Range(<<>>)
         /\ <<>> \in Seq(Fid) /\ Len(<<>>) = 0 /\ IsInjective(<<>>)
         /\ Range(s) \subseteq Fid
<1>1. /\ Len(s) \in Nat /\ (Len(s) = 0 <=> s = <<>>)
      /\ <<>> \in Seq(Fid) /\ Len(<<>>) = 0
  BY SMT
<1>2. ASSUME Len(s) = 1 PROVE s # <<>> /\ \A i : i \in Range(s) <=> i = Head(s)
  <2>1. s # <<>> /\ Head(s) = s[1] /\ DOMAIN s = 1 .. 1 /\ 1 \in 1 .. 1 /\ \A j \in 1 .. 1 : j = 1
    BY <1>2, SMT
  <2> QED
    BY <2>1 DEF Range
<1>3. \A j \in DOMAIN <<>> : FALSE
  BY SMT
<1>4. \A j \in DOMAIN s : s[j] \in Fid
  BY SMT
<1> QED
  BY <1>1, <1>2, <1>3, <1>4 DEF Range, IsInjective

-----------------------------------------------------------------------------
(* Steps *)

\* What an operation has at each step, and what it must have at the next.
LEMMA StepFacts ==
  ASSUME FilesType, NEW g \in Caller, Placed(g)
  PROVE  LET todo == op[g].todo
             own == op[g].own IN
    /\ todo \in Seq(Steps) /\ own \in Seq(Fid) /\ Mode(g) \in Modes
    /\ Step(g) = "idle" <=> todo = <<>>
    /\ Step(g) = "idle" => own = <<>> /\ Mode(g) \in {"none", "conn"}
    /\ todo # <<>> => Tail(todo) \in Seq(Steps)
    /\ Step(g) = "begin" => own = <<>> /\ Mode(g) = "none" /\ Outline(Tail(todo), 0, "read")
    /\ Step(g) = "end" => Mode(g) = "read" /\ Outline(Tail(todo), Len(own), "none")
    /\ Step(g) \in Walking => Mode(g) \in {"read", "conn"} /\ Outline(Tail(todo), Len(own) + 1, Mode(g))
    /\ Step(g) = "walkOn" => own # <<>>
    /\ Step(g) \in Using => /\ Mode(g) # "write" /\ (own = <<>> => Mode(g) = "read")
                            /\ Outline(Tail(todo), Len(own), Mode(g))
    /\ Step(g) \in {"lock", "unlck"} => own = <<>>
    /\ Step(g) \in {"clean", "clean1"} =>
         Mode(g) # "write" /\ own # <<>> /\ Outline(Tail(todo), Len(own) - 1, Mode(g))
    /\ Step(g) = "keep" => /\ Len(own) = 1 /\ Mode(g) \in {"read", "conn"}
                           /\ Outline(Tail(todo), 0, Mode(g))
    /\ Step(g) = "backoff" => own = <<>> /\ Mode(g) = "read" /\ Outline(Tail(todo), 0, "read")
    /\ Step(g) = "close" => own = <<>> /\ Mode(g) = "none"
    /\ Step(g) = "clunk" => own = <<>> /\ Mode(g) = "write" /\ Outline(Tail(todo), 0, "write")
    /\ Step(g) = "unlock" => own = <<>> /\ Mode(g) = "write" /\ Outline(Tail(todo), 0, "none")
<1> DEFINE todo == op[g].todo
           own == op[g].own
<1>1. todo \in Seq(Steps) /\ own \in Seq(Fid) /\ Mode(g) \in Modes
  BY DEF FilesType, OpType, Mode, Modes
<1>2. CASE todo = <<>>
  <2>1. Step(g) = "idle" /\ own = <<>> /\ Mode(g) \in {"none", "conn"}
    BY <1>1, <1>2, OutlineEmpty, FewFids DEF Step, Placed
  <2> QED
    BY <1>1, <1>2, <2>1 DEF Walking, Using
<1>3. CASE todo # <<>>
  <2>1. PICK n1 \in Nat, m1 \in Modes :
          Legal(Head(todo), Len(own), Mode(g), n1, m1) /\ Outline(Tail(todo), n1, m1)
    BY <1>1, <1>3, OutlineTail DEF Placed
  <2>2. Step(g) = Head(todo) /\ Head(todo) \in Steps /\ Tail(todo) \in Seq(Steps)
    BY <1>1, <1>3, SMT DEF Step
  <2>3. Len(own) \in Nat /\ (Len(own) = 0 <=> own = <<>>)
    BY <1>1, FewFids
  <2> HIDE DEF todo, own
  <2>4. Step(g) # "idle"
    BY <2>2 DEF Steps, Walking, Using, Cleaning
  <2>5. Legal(Step(g), Len(own), Mode(g), n1, m1)
    BY <2>1, <2>2
  <2>6. /\ Step(g) = "begin" => Len(own) = 0 /\ Mode(g) = "none" /\ n1 = 0 /\ m1 = "read"
        /\ Step(g) = "end" => Mode(g) = "read" /\ n1 = Len(own) /\ m1 = "none"
        /\ Step(g) \in Walking => Mode(g) \in {"read", "conn"} /\ n1 = Len(own) + 1 /\ m1 = Mode(g)
        /\ Step(g) = "walkOn" => Len(own) # 0
        /\ Step(g) \in Using => /\ Mode(g) # "write" /\ (Len(own) = 0 => Mode(g) = "read")
                                /\ n1 = Len(own) /\ m1 = Mode(g)
    BY <2>3, <2>5, SMT DEF Legal, Walking, Using
  <2>7. /\ Step(g) \in {"lock", "unlck"} => Len(own) = 0
        /\ Step(g) \in {"clean", "clean1"} =>
             Mode(g) # "write" /\ Len(own) # 0 /\ n1 = Len(own) - 1 /\ m1 = Mode(g)
        /\ Step(g) = "keep" => Len(own) = 1 /\ Mode(g) \in {"read", "conn"} /\ n1 = 0 /\ m1 = Mode(g)
        /\ Step(g) = "backoff" => Len(own) = 0 /\ Mode(g) = "read" /\ n1 = 0 /\ m1 = "read"
        /\ Step(g) = "close" => Len(own) = 0 /\ Mode(g) = "none"
        /\ Step(g) = "clunk" => Len(own) = 0 /\ Mode(g) = "write" /\ n1 = 0 /\ m1 = "write"
        /\ Step(g) = "unlock" => Len(own) = 0 /\ Mode(g) = "write" /\ n1 = 0 /\ m1 = "none"
    BY <2>3, <2>5, SMT DEF Legal, Walking, Using
  <2>8. /\ todo \in Seq(Steps) /\ own \in Seq(Fid) /\ Tail(todo) \in Seq(Steps) /\ todo # <<>>
    BY <1>1, <1>3, <2>2 DEF todo, own
  <2>9. Outline(Tail(todo), n1, m1)
    BY <2>1
  <2>10. todo = op[g].todo /\ own = op[g].own
    BY DEF todo, own
  <2> QED
    BY <1>1, <2>3, <2>4, <2>6, <2>7, <2>8, <2>9, <2>10
<1> QED
  BY <1>2, <1>3

-----------------------------------------------------------------------------
(* What a step of one caller leaves alone *)

\* Goto puts g where it says and leaves the others where they are.
LEMMA GotoOp ==
  ASSUME FilesType, NEW g \in Caller, NEW todo \in Seq(Steps), NEW own \in Seq(Fid), NEW m,
         Outline(todo, Len(own), m), Goto(g, todo, own)
  PROVE  /\ op' \in [Caller -> OpType]
         /\ op'[g].todo = todo /\ op'[g].own = own
         /\ op'[g].base = IF todo = <<>> THEN None ELSE op[g].base
         /\ \A h \in Caller \ {g} : op'[h] = op[h]
<1>1. op \in [Caller -> OpType] /\ op[g].base \in File \cup {None}
  BY DEF FilesType, OpType
<1>2. CASE todo = <<>>
  <2>1. own = <<>>
    BY <1>2, OutlineEmpty, FewFids
  <2>2. op' = [op EXCEPT ![g] = Idle]
    BY <1>2 DEF Goto
  <2>3. Idle \in OpType
    BY <1>2, <2>1 DEF Idle, OpType
  <2> QED
    BY <1>1, <1>2, <2>1, <2>2, <2>3 DEF Idle
<1>3. CASE todo # <<>>
  <2>1. op' = [op EXCEPT ![g] = [todo |-> todo, base |-> op[g].base, own |-> own]]
    BY <1>1, <1>3 DEF Goto
  <2>2. [todo |-> todo, base |-> op[g].base, own |-> own] \in OpType
    BY <1>1 DEF OpType
  <2> QED
    BY <1>1, <1>3, <2>1, <2>2
<1> QED
  BY <1>2, <1>3

\* A step of g changes neither the script nor the request nor the locks of others.
Turn(g) ==
  \A h \in Caller \ {g} :
    /\ op'[h] = op[h] /\ call'[h] = call[h]
    /\ \A f \in File : /\ h \in readers'[f] <=> h \in readers[f]
                       /\ writer'[f] = h <=> writer[f] = h

\* The others are still where their scripts say.
LEMMA OthersStay ==
  ASSUME FilesType, Places, NEW g, Turn(g), NEW h \in Caller \ {g}
  PROVE  /\ Placed(h)' /\ Mode(h)' = Mode(h) /\ Step(h)' = Step(h)
         /\ Held(h)' = Held(h) /\ (Waiting(h)' <=> Waiting(h))
<1>1. op'[h] = op[h] /\ call'[h] = call[h] /\ op[h].base \in File \cup {None}
  BY DEF Turn, FilesType, OpType
<1>2. Mode(h)' = Mode(h)
  <2>1. CASE op[h].base = None
    BY <1>1, <2>1 DEF Mode
  <2>2. CASE op[h].base \in File /\ op[h].base # None
    <3>1. /\ h \in readers'[op[h].base] <=> h \in readers[op[h].base]
          /\ writer'[op[h].base] = h <=> writer[op[h].base] = h
      BY <2>2 DEF Turn
    <3> QED
      BY <1>1, <2>2, <3>1 DEF Mode
  <2> QED
    BY <1>1, <2>1, <2>2
<1>3. Step(h)' = Step(h)
  BY <1>1 DEF Step
<1>4. Held(h)' = Held(h)
  BY <1>1 DEF Held
<1>5. Waiting(h)' <=> Waiting(h)
  BY <1>1 DEF Waiting
<1> QED
  BY <1>1, <1>2, <1>3, <1>4, <1>5 DEF Places, Placed

\* And ask for what they asked for, if the File they hold keeps its fid.
LEMMA OthersAsk ==
  ASSUME FilesType, Places, Requests, NEW g, Turn(g), NEW h \in Caller \ {g},
         Mode(h) \in {"read", "write"} => file'[op[h].base].fid = file[op[h].base].fid
  PROVE  Asks(h)' /\ (Step(h) \in Cleaning => Retired(h)' = Retired(h))
<1>0. op'[h] = op[h] /\ call'[h] = call[h]
  BY DEF Turn
<1>1. Placed(h)' /\ Mode(h)' = Mode(h) /\ Step(h)' = Step(h) /\ (Waiting(h)' <=> Waiting(h))
  BY OthersStay
<1>2. Mode(h) \in {"read", "conn"} => BaseFid(h)' = BaseFid(h)
  BY <1>0 DEF BaseFid, Mode
<1>3. /\ Step(h) \in Walking => Mode(h) \in {"read", "conn"}
      /\ Step(h) \in Using /\ op[h].own = <<>> => Mode(h) = "read"
      /\ Step(h) = "clunk" => Mode(h) = "write"
  BY StepFacts DEF Places
<1>4. Step(h) \in Cleaning => Retired(h)' = Retired(h)
  BY <1>0, <1>1, <1>3 DEF Retired, Cleaning
<1>5. Asks(h)
  BY DEF Requests
<1>6. Step(h) = "walk" => BaseFid(h)' = BaseFid(h)
  BY <1>2, <1>3 DEF Walking
<1>7. Step(h) \in Using /\ op[h].own = <<>> => BaseFid(h)' = BaseFid(h)
  BY <1>2, <1>3
<1>8. Asks(h)'
  BY <1>0, <1>1, <1>4, <1>5, <1>6, <1>7 DEF Asks
<1> QED
  BY <1>4, <1>8

\* Nobody gets a number: one owner each, as before.
LEMMA NobodyGains ==
  ASSUME Owned, \A h \in Caller : \A i : i \in Held(h)' => i \in Held(h),
         \A f \in File : Live(f)' => Live(f) /\ file'[f].fid = file[f].fid,
         \A i : i \in Range(reuse)' => i \in Range(reuse), late' \subseteq late,
         \A i : i \in next' .. MaxFid => i \in next .. MaxFid
  PROVE  Owned'
<1>1. \A i, k, x : Has(k, x, i)' => Has(k, x, i)
  BY DEF Has
<1> QED
  BY <1>1 DEF Owned

\* Number j goes to one owner, and those who had it have lost it.
Gains(j, k0, x0) ==
  \A i, k, x : Has(k, x, i)' => IF i = j THEN k = k0 /\ x = x0 ELSE Has(k, x, i)

\* A number still has one owner when one owner gets one number and nobody else any.
LEMMA OneGains ==
  ASSUME Owned, NEW j, NEW k0, NEW x0, Gains(j, k0, x0),
         \A f \in File : Live(f)' => file'[f].fid \in Fid
  PROVE  Owned'
<1>1. ASSUME NEW i, NEW k, NEW l, NEW x, NEW y, Has(k, x, i)', Has(l, y, i)' PROVE k = l /\ x = y
  <2>1. CASE i = j
    <3>1. k = k0 /\ x = x0
      BY <1>1, <2>1 DEF Gains
    <3>2. l = k0 /\ y = x0
      BY <1>1, <2>1 DEF Gains
    <3> QED
      BY <3>1, <3>2
  <2>2. CASE i # j
    <3>1. Has(k, x, i) /\ Has(l, y, i)
      BY <1>1, <2>2 DEF Gains
    <3> QED
      BY <3>1 DEF Owned
  <2> QED
    BY <2>1, <2>2
<1> QED
  BY <1>1 DEF Owned

\* Who closes a File is in its write mode, and nobody else is.
LEMMA WriterMode ==
  ASSUME FilesType, Lifecycle, NEW g \in Caller, NEW f \in File
  PROVE  writer[f] = g <=> op[g].base = f /\ Mode(g) = "write"
<1>1. f # None /\ g # None
  BY ClientFilesAssumption
<1>2. ASSUME writer[f] = g PROVE op[g].base = f /\ Mode(g) = "write"
  BY <1>1, <1>2 DEF Lifecycle, Mode
<1>3. ASSUME op[g].base = f, Mode(g) = "write" PROVE writer[f] = g
  BY <1>1, <1>3 DEF Mode
<1> QED
  BY <1>2, <1>3

\* Who uses a File is in its read mode, and nobody else is.
LEMMA ReaderMode ==
  ASSUME FilesType, Lifecycle, NEW g \in Caller, NEW f \in File
  PROVE  g \in readers[f] <=> op[g].base = f /\ Mode(g) = "read"
<1>1. f # None /\ g # None
  BY ClientFilesAssumption
<1>2. ASSUME g \in readers[f] PROVE op[g].base = f /\ Mode(g) = "read"
  BY <1>1, <1>2 DEF Lifecycle, Mode
<1>3. ASSUME op[g].base = f, Mode(g) = "read" PROVE g \in readers[f]
  BY <1>1, <1>3 DEF Mode
<1> QED
  BY <1>2, <1>3

\* A caller that is not closing goes on to another step, with the numbers it has,
\* and has no request out.
Moves(g, todo, own, m) ==
  /\ Goto(g, todo, own) /\ Outline(todo, Len(own), m) /\ Mode(g) # "write"
  /\ m = IF op[g].base = None THEN "conn"
         ELSE IF g \in readers'[op[g].base] THEN "read" ELSE "none"
  /\ call' \in [Caller -> CallType] /\ call'[g] = NoCall
  /\ \A h \in Caller \ {g} : call'[h] = call[h]
  /\ UNCHANGED <<next, reuse, file, writer, bound, late, down>>
  /\ readers' \in [File -> SUBSET Caller]
  /\ \A f \in File, h \in Caller :
       h # g \/ f # op[g].base => (h \in readers'[f] <=> h \in readers[f])
  /\ \A f \in File : g \in readers'[f] => Open(f) /\ writer[f] = None
  /\ \A i : i \in Range(own) <=> i \in Held(g)
  /\ IsInjective(own) /\ \A i \in Range(own) : down \/ bound[i] = g

\* Such a step keeps the invariant.
LEMMA MoveOn ==
  ASSUME FilesInv, NEW g \in Caller, NEW todo \in Seq(Steps), NEW own \in Seq(Fid), NEW m \in Modes,
         Moves(g, todo, own, m)
  PROVE  FilesInv'
<1>0. FilesType /\ Places /\ Lifecycle /\ Requests /\ Owned /\ Distinct /\ Bindings
  BY DEF FilesInv
<1>00. /\ Goto(g, todo, own) /\ Outline(todo, Len(own), m) /\ Mode(g) # "write"
       /\ call' \in [Caller -> CallType] /\ call'[g] = NoCall
       /\ \A h \in Caller \ {g} : call'[h] = call[h]
       /\ readers' \in [File -> SUBSET Caller]
       /\ \A f \in File, h \in Caller :
            h # g \/ f # op[g].base => (h \in readers'[f] <=> h \in readers[f])
  BY DEF Moves
<1>01. /\ next' = next /\ reuse' = reuse /\ file' = file /\ writer' = writer
       /\ bound' = bound /\ late' = late /\ down' = down
  BY DEF Moves
<1>02. \A f \in File : g \in readers'[f] => Open(f) /\ writer[f] = None
  BY DEF Moves
<1>03. m = IF op[g].base = None THEN "conn"
           ELSE IF g \in readers'[op[g].base] THEN "read" ELSE "none"
  BY DEF Moves
<1>04. /\ \A i : i \in Range(own) <=> i \in Held(g)
       /\ IsInjective(own) /\ \A i \in Range(own) : down \/ bound[i] = g
  BY DEF Moves
<1>1. /\ op' \in [Caller -> OpType]
      /\ op'[g].todo = todo /\ op'[g].own = own
      /\ op'[g].base = IF todo = <<>> THEN None ELSE op[g].base
      /\ \A h \in Caller \ {g} : op'[h] = op[h]
  BY <1>0, <1>00, GotoOp
<1>2. Turn(g)
  BY <1>00, <1>01, <1>1 DEF Turn
<1>3. FilesType'
  BY <1>0, <1>00, <1>01, <1>1 DEF FilesType
<1>4. \A f \in File : writer[f] # g
  BY <1>0, <1>00, WriterMode
<1>5. todo = <<>> => m \in {"none", "conn"} /\ Len(own) = 0
  BY <1>00, OutlineEmpty
<1>6. Placed(g)'
  <2>1. CASE todo = <<>>
    <3>1. Mode(g)' = "conn"
      BY <1>1, <2>1 DEF Mode
    <3>2. Outline(todo, Len(own), "conn")
      BY <1>5, <2>1, OutlineEmpty
    <3> QED
      BY <1>1, <3>1, <3>2 DEF Placed
  <2>2. CASE todo # <<>>
    <3>1. op'[g].base = op[g].base /\ op[g].base \in File \cup {None}
      BY <1>0, <1>1, <2>2 DEF FilesType, OpType
    <3>2. Mode(g)' = m
      BY <1>01, <1>03, <1>4, <3>1 DEF Mode
    <3> QED
      BY <1>00, <1>1, <3>2 DEF Placed
  <2> QED
    BY <2>1, <2>2
<1>7. Places'
  BY <1>0, <1>2, <1>6, OthersStay DEF Places
<1>8. \A f \in File : Closing(f)' <=> Closing(f)
  <2>1. ASSUME NEW f \in File, writer[f] # None PROVE op'[writer[f]] = op[writer[f]]
    <3>1. writer[f] \in Caller \ {g}
      BY <1>0, <1>4, <2>1 DEF FilesType
    <3> QED
      BY <1>1, <3>1
  <2> QED
    BY <1>01, <2>1 DEF Closing, Step
<1>9. \A f \in File : (Open(f)' <=> Open(f)) /\ (Live(f)' <=> Live(f)) /\ file'[f] = file[f]
  BY <1>01, <1>8 DEF Live, Open
<1>10. Lifecycle'
  <2> SUFFICES ASSUME NEW f \in File
               PROVE  /\ \A h \in readers'[f] : op'[h].base = f
                      /\ readers'[f] # {} => Open(f)'
                      /\ writer'[f] # None =>
                           /\ op'[writer'[f]].base = f /\ readers'[f] = {} /\ ~Open(f)'
                           /\ Step(writer[f])' = "clunk" => Tail(op'[writer'[f]].todo) = <<"unlock">>
    BY DEF Lifecycle
  <2>1. \A h \in readers'[f] : h \in Caller /\ (h = g \/ h \in readers[f])
    BY <1>00
  <2>2. g \in readers'[f] => op'[g].base = f
    <3>1. CASE f = op[g].base
      <4>1. f # None
        BY ClientFilesAssumption
      <4>2. g \in readers'[f] => m = "read"
        BY <1>03, <3>1, <4>1
      <4>3. g \in readers'[f] => todo # <<>>
        BY <1>5, <4>2
      <4> QED
        BY <1>1, <3>1, <4>3
    <3>2. CASE f # op[g].base
      BY <1>0, <1>00, <3>2 DEF Lifecycle
    <3> QED
      BY <3>1, <3>2
  <2>3. ASSUME NEW h \in readers'[f] PROVE op'[h].base = f /\ Open(f)'
    <3>1. CASE h = g
      BY <1>02, <1>9, <2>2, <3>1
    <3>2. CASE h # g
      <4>1. h \in readers[f] /\ h \in Caller \ {g}
        BY <2>1, <3>2
      <4>2. op[h].base = f /\ Open(f)
        BY <1>0, <4>1 DEF Lifecycle
      <4> QED
        BY <1>1, <1>9, <4>1, <4>2
    <3> QED
      BY <3>1, <3>2
  <2>4. readers'[f] # {} => Open(f)'
    BY <2>3
  <2>5. writer[f] # None => writer[f] \in Caller \ {g}
    BY <1>0, <1>4 DEF FilesType
  <2>6. writer[f] # None => readers'[f] = {}
    <3>1. writer[f] # None => readers[f] = {} /\ g \notin readers'[f]
      BY <1>0, <1>02 DEF Lifecycle
    <3> QED
      BY <2>1, <3>1
  <2>7. ASSUME writer'[f] # None
        PROVE  /\ op'[writer'[f]].base = f /\ ~Open(f)'
               /\ Step(writer[f])' = "clunk" => Tail(op'[writer'[f]].todo) = <<"unlock">>
    <3>1. writer'[f] = writer[f] /\ op'[writer[f]] = op[writer[f]]
      BY <1>01, <1>1, <2>5, <2>7
    <3>2. /\ op[writer[f]].base = f /\ ~Open(f)
          /\ Step(writer[f]) = "clunk" => Tail(op[writer[f]].todo) = <<"unlock">>
      BY <1>0, <2>7, <3>1 DEF Lifecycle
    <3>3. Step(writer[f])' = Step(writer[f])
      BY <3>1 DEF Step
    <3> QED
      BY <1>9, <3>1, <3>2, <3>3
  <2> QED
    BY <1>01, <2>3, <2>4, <2>6, <2>7
<1>11. ~Waiting(g)' /\ call'[g].new = 0
  <2>1. ~Waiting(g)'
    BY <1>00 DEF Waiting
  <2>2. NoCall.new = 0
    BY DEF NoCall
  <2> QED
    BY <1>00, <2>1, <2>2
<1>12. \A h \in Caller \ {g} : Asks(h)' /\ (Step(h) \in Cleaning => Retired(h)' = Retired(h))
  BY <1>0, <1>01, <1>2, OthersAsk
<1>13. Requests'
  BY <1>11, <1>12 DEF Requests, Asks
<1>14. \A h \in Caller : \A i : i \in Held(h)' <=> i \in Held(h)
  <2>1. ASSUME NEW h \in Caller \ {g} PROVE Held(h)' = Held(h)
    BY <1>0, <1>2, OthersStay
  <2>2. ASSUME NEW h \in Caller, h = g, NEW i PROVE i \in Held(h)' <=> i \in Held(h)
    <3>1. i \in Range(op'[h].own) \/ i \in {call'[h].new} \ {0} <=> i \in Held(g)
      BY <1>04, <1>1, <1>11, <2>2
    <3> QED
      BY <2>2, <3>1 DEF Held
  <2> QED
    BY <2>1, <2>2
<1>16. Owned'
  BY <1>0, <1>01, <1>9, <1>14, NobodyGains
<1>17. Distinct'
  <2>1. 0 \notin Range(own)
    <3>1. 0 \notin Fid
      BY SMT DEF Fid
    <3> QED
      BY <3>1, FewFids
  <2>2. ASSUME NEW h \in Caller
        PROVE  IsInjective(op'[h].own) /\ call'[h].new \notin Range(op'[h].own)
    <3>1. CASE h = g
      BY <1>04, <1>1, <1>11, <2>1, <3>1
    <3>2. CASE h # g
      BY <1>0, <1>00, <1>1, <3>2 DEF Distinct
    <3> QED
      BY <3>1, <3>2
  <2> QED
    BY <1>0, <1>01, <2>2 DEF Distinct
<1>18. \A i \in Fid : FidBound(i)'
  <2>1. \A i \in Fid : FidBound(i)
    BY <1>0 DEF Bindings
  <2> QED
    BY <1>01, <1>9, <1>14, <2>1 DEF FidBound
<1>19. \A f \in File : FileBound(f)'
  BY <1>0, <1>01, <1>9 DEF Bindings, FileBound
<1>20. \A h \in Caller : CallerBound(h)'
  <2>1. CallerBound(g)'
    BY <1>01, <1>04, <1>1, <1>11 DEF CallerBound
  <2>2. ASSUME NEW h \in Caller \ {g} PROVE CallerBound(h)'
    <3>1. CallerBound(h)
      BY <1>0 DEF Bindings
    <3>2. Step(h)' = Step(h) /\ (Waiting(h)' <=> Waiting(h))
      BY <1>0, <1>2, OthersStay
    <3>3. Step(h) \in Cleaning => Retired(h)' = Retired(h)
      BY <1>0, <1>01, <1>2, OthersAsk
    <3>4. call'[h] = call[h] /\ op'[h] = op[h]
      BY <1>00, <1>1
    <3> QED
      BY <1>01, <3>1, <3>2, <3>3, <3>4 DEF CallerBound
  <2> QED
    BY <2>1, <2>2
<1>21. Bindings'
  BY <1>18, <1>19, <1>20 DEF Bindings
<1> QED
  BY <1>3, <1>7, <1>10, <1>13, <1>16, <1>17, <1>21 DEF FilesInv

-----------------------------------------------------------------------------
(* Steps that move no number *)

\* A request is over, or there was none.
Quiet(g) == Done(g) \/ (UNCHANGED call /\ ~Waiting(g))

\* What is not waiting has no number on the way.
LEMMA QuietCall ==
  ASSUME FilesType, NEW g \in Caller, Quiet(g)
  PROVE  /\ call' \in [Caller -> CallType] /\ call'[g] = NoCall
         /\ \A h \in Caller \ {g} : call'[h] = call[h]
<1>1. NoCall \in CallType
  <2>1. 0 \in 0 .. MaxFid
    BY ClientFilesAssumption, SMT
  <2> QED
    BY <2>1 DEF NoCall, CallType
<1>2. call \in [Caller -> CallType]
  BY DEF FilesType
<1>3. CASE Done(g)
  BY <1>1, <1>2, <1>3 DEF Done
<1>4. CASE UNCHANGED call /\ ~Waiting(g)
  BY <1>2, <1>4 DEF Waiting
<1> QED
  BY <1>3, <1>4 DEF Quiet

\* The File, the locks, the allocator and the server stay as they are.
Rest == UNCHANGED <<next, reuse, file, readers, writer, bound, late, down>>

\* An operation goes on with the fids it has walked to.
Carries(g, todo) ==
  /\ Goto(g, todo, op[g].own) /\ Outline(todo, Len(op[g].own), Mode(g)) /\ Mode(g) # "write"
  /\ Quiet(g) /\ Rest
  /\ Step(g) \notin Walking \/ ~Waiting(g)
  /\ Step(g) \notin Cleaning \/ ~Waiting(g)

\* The numbers of a caller that neither walks nor clunks are bound to it.
LEMMA OwnBound ==
  ASSUME FilesInv, NEW g \in Caller,
         Step(g) \notin Walking \/ ~Waiting(g), Step(g) \notin Cleaning \/ ~Waiting(g)
  PROVE  /\ call[g].new = 0 /\ op[g].own \in Seq(Fid) /\ IsInjective(op[g].own)
         /\ \A i : i \in Range(op[g].own) <=> i \in Held(g)
         /\ \A i \in Range(op[g].own) : down \/ bound[i] = g
<1>1. FilesType /\ Requests /\ Distinct /\ Bindings
  BY DEF FilesInv
<1>2. call[g].new = 0
  BY <1>1 DEF Requests, Asks
<1>3. op[g].own \in Seq(Fid)
  BY <1>1 DEF FilesType, OpType
<1>4. \A i \in Range(op[g].own) : down \/ bound[i] = g
  BY <1>1 DEF Bindings, CallerBound
<1> QED
  BY <1>1, <1>2, <1>3, <1>4 DEF Distinct, Held

\* An operation that goes on with its fids, and does nothing else, keeps the invariant.
LEMMA CarryOn ==
  ASSUME FilesInv, NEW g \in Caller, NEW todo \in Seq(Steps), Carries(g, todo)
  PROVE  FilesInv'
<1>1. FilesType /\ Lifecycle
  BY DEF FilesInv
<1>2. /\ next' = next /\ reuse' = reuse /\ file' = file /\ readers' = readers
      /\ writer' = writer /\ bound' = bound /\ late' = late /\ down' = down
  BY DEF Carries, Rest
<1>3. /\ op[g].own \in Seq(Fid) /\ IsInjective(op[g].own)
      /\ \A i : i \in Range(op[g].own) <=> i \in Held(g)
      /\ \A i \in Range(op[g].own) : down \/ bound[i] = g
  BY OwnBound DEF Carries
<1>4. /\ call' \in [Caller -> CallType] /\ call'[g] = NoCall
      /\ \A h \in Caller \ {g} : call'[h] = call[h]
  BY <1>1, QuietCall DEF Carries
<1>5. Mode(g) \in Modes
  BY DEF Mode, Modes
<1>6. Mode(g) = IF op[g].base = None THEN "conn"
                ELSE IF g \in readers'[op[g].base] THEN "read" ELSE "none"
  BY <1>2 DEF Mode, Carries
<1>7. readers' \in [File -> SUBSET Caller]
  BY <1>1, <1>2 DEF FilesType
<1>8. \A f \in File : g \in readers'[f] => Open(f) /\ writer[f] = None
  BY <1>1, <1>2 DEF Lifecycle
<1>9. Goto(g, todo, op[g].own) /\ Outline(todo, Len(op[g].own), Mode(g)) /\ Mode(g) # "write"
  BY DEF Carries
<1>10. Moves(g, todo, op[g].own, Mode(g))
  BY <1>2, <1>3, <1>4, <1>6, <1>7, <1>8, <1>9 DEF Moves
<1> QED
  BY <1>3, <1>5, <1>10, MoveOn

\* An error path is a script of its own.
LEMMA UnwindScript ==
  ASSUME FilesType, NEW g \in Caller, Placed(g), Mode(g) # "write", Unwind(g)
  PROVE  \E todo \in Seq(Steps) :
           Goto(g, todo, op[g].own) /\ Outline(todo, Len(op[g].own), Mode(g))
<1> DEFINE e == IF op[g].base # None /\ g \in readers[op[g].base] THEN <<"end">> ELSE <<>>
           todo == [i \in 1 .. Len(op[g].own) |-> "clean"] \o e
<1>1. op[g].own \in Seq(Fid) /\ Mode(g) \in Modes
  BY StepFacts
<1>2. Len(op[g].own) \in Nat
  BY <1>1, FewFids
<1>3. e \in {<<"end">>, <<>>} /\ (e = <<"end">> <=> Mode(g) = "read")
  <2>1. <<"end">> # <<>>
    BY SMT
  <2>2. Mode(g) = "read" <=> op[g].base # None /\ g \in readers[op[g].base]
    BY DEF Mode
  <2> QED
    BY <2>1, <2>2
<1>4. Goto(g, todo, op[g].own)
  BY DEF Unwind
<1> HIDE DEF e
<1>5. todo \in Seq(Steps) /\ Outline(todo, Len(op[g].own), Mode(g))
  BY <1>1, <1>2, <1>3, UnwindOutline
<1> QED
  BY <1>4, <1>5

\* SkipMore, UseReturns, UseFails, LockBlocked, Backoff, CancelUse and a walk that
\* finds no number keep the invariant.
LEMMA CarryingSteps ==
  ASSUME FilesInv, NEW g \in Caller,
         \/ SkipMore(g) \/ UseReturns(g) \/ UseFails(g) \/ LockBlocked(g) \/ Backoff(g)
         \/ CancelUse(g) \/ (SendWalk(g) /\ Exhausted)
  PROVE  FilesInv'
<1>0. FilesType /\ Placed(g)
  BY DEF FilesInv, Places
<1>1. /\ op[g].todo \in Seq(Steps) /\ op[g].own \in Seq(Fid)
      /\ Step(g) = "idle" <=> op[g].todo = <<>>
      /\ op[g].todo # <<>> => Tail(op[g].todo) \in Seq(Steps)
  BY <1>0, StepFacts
<1>2. /\ Step(g) \in Using => /\ Mode(g) # "write" /\ (op[g].own = <<>> => Mode(g) = "read")
                            /\ Outline(Tail(op[g].todo), Len(op[g].own), Mode(g))
      /\ Step(g) \in {"lock", "unlck"} => op[g].own = <<>>
  BY <1>0, StepFacts
<1>3. /\ Step(g) \in Walking => Mode(g) \in {"read", "conn"}
      /\ Step(g) = "backoff" => op[g].own = <<>> /\ Mode(g) = "read" /\ Outline(Tail(op[g].todo), 0, "read")
  BY <1>0, StepFacts
<1>4. /\ Step(g) \in Using => Step(g) \notin Walking /\ Step(g) \notin Cleaning /\ Step(g) # "idle"
      /\ Step(g) = "backoff" => Step(g) # "idle"
      /\ "more" \in Using /\ "lock" \in Using
  BY DEF Walking, Using, Cleaning
<1>5. At(g, {"more"}) \/ At(g, {"backoff"}) \/ At(g, Walking) => ~Waiting(g)
  BY DEF At, Waiting
<1>6. ASSUME Unwind(g), Mode(g) # "write", Quiet(g), Rest,
             Step(g) \notin Walking \/ ~Waiting(g), Step(g) \notin Cleaning \/ ~Waiting(g)
      PROVE  FilesInv'
  <2>1. PICK todo \in Seq(Steps) :
          Goto(g, todo, op[g].own) /\ Outline(todo, Len(op[g].own), Mode(g))
    BY <1>0, <1>6, UnwindScript
  <2> QED
    BY <1>6, <2>1, CarryOn DEF Carries
<1>7. ASSUME Goto(g, <<"unlck", "end">>, <<>>), Step(g) \in {"lock", "backoff"}, Quiet(g), Rest
      PROVE  FilesInv'
  <2>1. op[g].own = <<>> /\ Mode(g) = "read"
    BY <1>2, <1>3, <1>4, <1>7
  <2>2. <<"unlck", "end">> \in Seq(Steps) /\ Outline(<<"unlck", "end">>, 0, "read")
    BY ScriptOutlines
  <2>3. Len(op[g].own) = 0
    BY <1>1, <2>1, FewFids
  <2>4. Step(g) \notin Walking /\ Step(g) \notin Cleaning
    BY <1>7 DEF Walking, Cleaning
  <2>5. Carries(g, <<"unlck", "end">>)
    BY <1>7, <2>1, <2>2, <2>3, <2>4 DEF Carries
  <2> QED
    BY <2>2, <2>5, CarryOn
<1>8. CASE SkipMore(g) \/ UseReturns(g)
  <2>1. /\ Goto(g, Tail(op[g].todo), op[g].own) /\ Step(g) \in Using /\ Quiet(g) /\ Rest
    BY <1>4, <1>5, <1>8 DEF SkipMore, UseReturns, Advance, Quiet, Rest, At, Numbers, Locks, Server
  <2>2. Carries(g, Tail(op[g].todo))
    BY <1>2, <1>4, <2>1 DEF Carries
  <2> QED
    BY <1>1, <1>4, <2>1, <2>2, CarryOn
<1>9. CASE UseFails(g)
  BY <1>2, <1>4, <1>6, <1>9 DEF UseFails, Quiet, Rest, Numbers, Locks, Server
<1>10. CASE CancelUse(g)
  <2>1. Step(g) \in Using /\ Quiet(g) /\ Rest
    BY <1>10 DEF CancelUse, Quiet, Rest, Numbers, Locks, Server
  <2>2. IF Step(g) = "lock" THEN Goto(g, <<"unlck", "end">>, <<>>) ELSE Unwind(g)
    BY <1>10 DEF CancelUse
  <2>3. CASE Step(g) = "lock"
    BY <1>7, <2>1, <2>2, <2>3
  <2>4. CASE Step(g) # "lock"
    BY <1>2, <1>4, <1>6, <2>1, <2>2, <2>4
  <2> QED
    BY <2>3, <2>4
<1>11. CASE SendWalk(g) /\ Exhausted
  <2>1. Step(g) \in Walking /\ Unwind(g) /\ Quiet(g) /\ Rest /\ ~Waiting(g)
    BY <1>5, <1>11 DEF SendWalk, Quiet, Rest, At, Numbers, Locks, Server
  <2> QED
    BY <1>3, <1>6, <2>1
<1>12. CASE Backoff(g)
  <2>1. Step(g) = "backoff" /\ Quiet(g) /\ Rest
    BY <1>5, <1>12 DEF Backoff, Quiet, Rest, At, Numbers, Locks, Server
  <2>2. CASE Advance(g, <<>>)
    <3>1. op[g].own = <<>> /\ Mode(g) = "read" /\ Outline(Tail(op[g].todo), 0, "read")
      BY <1>3, <2>1
    <3>2. Len(op[g].own) = 0
      BY <1>1, <3>1, FewFids
    <3>3. Step(g) \notin Walking /\ Step(g) \notin Cleaning
      BY <2>1 DEF Walking, Cleaning
    <3>4. Carries(g, Tail(op[g].todo))
      BY <2>1, <2>2, <3>1, <3>2, <3>3 DEF Carries, Advance
    <3> QED
      BY <1>1, <1>4, <2>1, <3>4, CarryOn
  <2>3. CASE Goto(g, <<"unlck", "end">>, <<>>)
    BY <1>7, <2>1, <2>3
  <2> QED
    BY <1>12, <2>2, <2>3 DEF Backoff
<1>13. CASE LockBlocked(g)
  <2>1. Step(g) = "lock" /\ Goto(g, <<"backoff">> \o op[g].todo, <<>>) /\ Quiet(g) /\ Rest
    BY <1>13 DEF LockBlocked, Quiet, Rest, Numbers, Locks, Server
  <2>2. op[g].own = <<>> /\ Mode(g) = "read"
    BY <1>2, <1>4, <2>1
  <2>3. Len(op[g].own) = 0 /\ 0 \in Nat
    BY <1>1, <2>2, FewFids
  <2>4. Outline(op[g].todo, 0, "read")
    BY <1>0, <2>2, <2>3 DEF Placed
  <2>5. Legal("backoff", 0, "read", 0, "read") /\ "backoff" \in Steps /\ "read" \in Modes
    BY DEF Legal, Steps, Modes
  <2> DEFINE todo == <<"backoff">> \o op[g].todo
  <2>6. todo \in Seq(Steps) /\ Outline(todo, 0, "read")
    <3>1. /\ todo \in Seq(Steps) /\ Len(todo) = Len(op[g].todo) + 1 /\ todo[1] = "backoff"
          /\ \A i \in 1 .. Len(op[g].todo) : todo[i + 1] = op[g].todo[i]
      BY <1>1, <2>5, SMT
    <3> HIDE DEF todo
    <3> QED
      BY <1>1, <2>3, <2>4, <2>5, <3>1, OutlineCons, SMT
  <2>7. Step(g) \notin Walking /\ Step(g) \notin Cleaning
    BY <2>1 DEF Walking, Cleaning
  <2>8. Carries(g, <<"backoff">> \o op[g].todo)
    BY <2>1, <2>2, <2>3, <2>6, <2>7 DEF Carries
  <2> QED
    BY <2>6, <2>8, CarryOn
<1> QED
  BY <1>8, <1>9, <1>10, <1>11, <1>12, <1>13

-----------------------------------------------------------------------------
(* Steps that only open, lock or walk *)

\* beginOp gets the lock or finds the File closed.
LEMMA BeginOpStep ==
  ASSUME FilesInv, NEW g \in Caller, BeginOp(g)
  PROVE  FilesInv'
<1>0. FilesType /\ Placed(g) /\ Lifecycle
  BY DEF FilesInv, Places
<1>1. Step(g) = "begin" /\ call[g] = NoCall
  BY DEF BeginOp, At
<1>2. /\ op[g].own = <<>> /\ Mode(g) = "none" /\ Outline(Tail(op[g].todo), 0, "read")
      /\ op[g].own \in Seq(Fid) /\ (op[g].todo # <<>> => Tail(op[g].todo) \in Seq(Steps))
      /\ Step(g) = "idle" <=> op[g].todo = <<>>
  BY <1>0, <1>1, StepFacts
<1>3. Step(g) \notin Walking /\ Step(g) \notin Cleaning /\ Step(g) # "idle" /\ ~Waiting(g)
  BY <1>1 DEF Walking, Cleaning, Waiting
<1>4. Len(op[g].own) = 0
  BY <1>2, FewFids
<1> DEFINE f == op[g].base
<1>5. f \in File /\ f # None
  BY <1>0, <1>2 DEF Mode, FilesType, OpType
<1>6. /\ next' = next /\ reuse' = reuse /\ file' = file
      /\ writer' = writer /\ bound' = bound /\ late' = late /\ down' = down /\ call' = call
      /\ writer[f] = None
      /\ IF file[f].closed THEN Goto(g, <<>>, <<>>) /\ UNCHANGED readers
         ELSE /\ readers' = [readers EXCEPT ![f] = @ \cup {g}]
              /\ Goto(g, Tail(op[g].todo), op[g].own)
  BY DEF BeginOp, Numbers, Server, Advance
<1>7. CASE file[f].closed
  <2>1. Goto(g, <<>>, op[g].own) /\ readers' = readers
    BY <1>2, <1>6, <1>7
  <2>2. Outline(<<>>, Len(op[g].own), Mode(g)) /\ <<>> \in Seq(Steps)
    <3>1. <<>> \in Seq(Steps)
      BY SMT
    <3> QED
      BY <1>2, <1>4, <3>1, OutlineEmpty
  <2>3. Carries(g, <<>>)
    BY <1>2, <1>3, <1>6, <2>1, <2>2 DEF Carries, Quiet, Rest
  <2> QED
    BY <2>2, <2>3, CarryOn
<1>8. CASE ~file[f].closed
  <2>1. /\ readers' = [readers EXCEPT ![f] = @ \cup {g}]
        /\ Goto(g, Tail(op[g].todo), op[g].own)
    BY <1>6, <1>8
  <2>2. readers \in [File -> SUBSET Caller]
    BY <1>0 DEF FilesType
  <2>3. /\ readers' \in [File -> SUBSET Caller]
        /\ \A e \in File, h \in Caller : h # g \/ e # f => (h \in readers'[e] <=> h \in readers[e])
        /\ g \in readers'[f]
    BY <1>5, <2>1, <2>2
  <2>4. \A e \in File : g \in readers'[e] => Open(e) /\ writer[e] = None
    <3>1. \A e \in File : g \in readers[e] => Open(e) /\ writer[e] = None
      BY <1>0 DEF Lifecycle
    <3>2. Open(f) /\ writer[f] = None
      BY <1>6, <1>8 DEF Open
    <3>3. \A e \in File : g \in readers'[e] => e = f \/ g \in readers[e]
      BY <2>3
    <3> QED
      BY <3>1, <3>2, <3>3
  <2>5. "read" = IF op[g].base = None THEN "conn"
                 ELSE IF g \in readers'[op[g].base] THEN "read" ELSE "none"
    BY <1>5, <2>3
  <2>6. /\ call' \in [Caller -> CallType] /\ call'[g] = NoCall
        /\ \A h \in Caller \ {g} : call'[h] = call[h]
    BY <1>0, <1>3, <1>6, QuietCall DEF Quiet
  <2>7. /\ IsInjective(op[g].own)
        /\ \A i : i \in Range(op[g].own) <=> i \in Held(g)
        /\ \A i \in Range(op[g].own) : down \/ bound[i] = g
    BY <1>3, OwnBound
  <2>8. Outline(Tail(op[g].todo), Len(op[g].own), "read") /\ Mode(g) # "write"
    BY <1>2, <1>4
  <2>9. Moves(g, Tail(op[g].todo), op[g].own, "read")
    BY <1>6, <2>1, <2>3, <2>4, <2>5, <2>6, <2>7, <2>8 DEF Moves
  <2>10. "read" \in Modes
    BY DEF Modes
  <2> QED
    BY <1>2, <1>3, <2>9, <2>10, MoveOn
<1> QED
  BY <1>7, <1>8

\* endOp gives it back.
LEMMA EndOpStep ==
  ASSUME FilesInv, NEW g \in Caller, EndOp(g)
  PROVE  FilesInv'
<1>0. FilesType /\ Placed(g) /\ Lifecycle
  BY DEF FilesInv, Places
<1>1. Step(g) = "end" /\ call[g] = NoCall
  BY DEF EndOp, At
<1>2. /\ Mode(g) = "read" /\ Outline(Tail(op[g].todo), Len(op[g].own), "none")
      /\ op[g].own \in Seq(Fid) /\ (op[g].todo # <<>> => Tail(op[g].todo) \in Seq(Steps))
      /\ Step(g) = "idle" <=> op[g].todo = <<>>
  BY <1>0, <1>1, StepFacts
<1>3. Step(g) \notin Walking /\ Step(g) \notin Cleaning /\ Step(g) # "idle" /\ ~Waiting(g)
  BY <1>1 DEF Walking, Cleaning, Waiting
<1> DEFINE f == op[g].base
<1>5. f \in File /\ f # None
  BY <1>0, <1>2 DEF Mode, FilesType, OpType
<1>6. /\ next' = next /\ reuse' = reuse /\ file' = file
      /\ writer' = writer /\ bound' = bound /\ late' = late /\ down' = down /\ call' = call
      /\ readers' = [readers EXCEPT ![f] = @ \ {g}]
      /\ Goto(g, Tail(op[g].todo), op[g].own)
  BY DEF EndOp, Numbers, Server, Advance
<1>7. readers \in [File -> SUBSET Caller]
  BY <1>0 DEF FilesType
<1>8. /\ readers' \in [File -> SUBSET Caller]
      /\ \A e \in File, h \in Caller : h # g \/ e # f => (h \in readers'[e] <=> h \in readers[e])
      /\ g \notin readers'[f]
  BY <1>5, <1>6, <1>7
<1>9. \A e \in File : g \in readers'[e] => Open(e) /\ writer[e] = None
  <2>1. \A e \in File : g \in readers[e] => Open(e) /\ writer[e] = None
    BY <1>0 DEF Lifecycle
  <2> QED
    BY <1>8, <2>1
<1>10. "none" = IF op[g].base = None THEN "conn"
                ELSE IF g \in readers'[op[g].base] THEN "read" ELSE "none"
  BY <1>5, <1>8
<1>11. /\ call' \in [Caller -> CallType] /\ call'[g] = NoCall
       /\ \A h \in Caller \ {g} : call'[h] = call[h]
  BY <1>0, <1>3, <1>6, QuietCall DEF Quiet
<1>12. /\ IsInjective(op[g].own)
       /\ \A i : i \in Range(op[g].own) <=> i \in Held(g)
       /\ \A i \in Range(op[g].own) : down \/ bound[i] = g
  BY <1>3, OwnBound
<1>13. Mode(g) # "write"
  BY <1>2
<1>14. Moves(g, Tail(op[g].todo), op[g].own, "none")
  BY <1>2, <1>6, <1>8, <1>9, <1>10, <1>11, <1>12, <1>13 DEF Moves
<1>15. "none" \in Modes
  BY DEF Modes
<1> QED
  BY <1>2, <1>3, <1>14, <1>15, MoveOn

\* A walk reached its target: the number is one of the operation's own.
LEMMA WalkReturnsStep ==
  ASSUME FilesInv, NEW g \in Caller, WalkReturns(g)
  PROVE  FilesInv'
<1>0. FilesType /\ Placed(g) /\ Lifecycle /\ Requests /\ Distinct /\ Bindings
  BY DEF FilesInv, Places
<1> DEFINE new == call[g].new
           own == Append(op[g].own, new)
<1>1. Step(g) \in Walking /\ call[g].st = "ok"
  BY DEF WalkReturns, Succeeds
<1>2. Waiting(g)
  <2>1. NoCall.st = "none"
    BY DEF NoCall
  <2> QED
    BY <1>1, <2>1 DEF Waiting
<1>3. /\ Mode(g) \in {"read", "conn"} /\ Outline(Tail(op[g].todo), Len(op[g].own) + 1, Mode(g))
      /\ op[g].own \in Seq(Fid) /\ (op[g].todo # <<>> => Tail(op[g].todo) \in Seq(Steps))
      /\ Step(g) = "idle" <=> op[g].todo = <<>>
  BY <1>0, <1>1, StepFacts
<1>4. Step(g) \notin Cleaning /\ Step(g) # "idle" /\ Mode(g) \in Modes /\ Mode(g) # "write"
  BY <1>1, <1>3 DEF Walking, Cleaning, Modes
<1>5. new \in Fid /\ new # 0
  <2>1. new # 0 /\ new \in 0 .. MaxFid
    BY <1>0, <1>1, <1>2 DEF Requests, Asks, FilesType, CallType
  <2> QED
    BY <2>1, ClientFilesAssumption, SMT DEF Fid
<1>6. /\ next' = next /\ reuse' = reuse /\ file' = file /\ readers' = readers
      /\ writer' = writer /\ bound' = bound /\ late' = late /\ down' = down
      /\ Goto(g, Tail(op[g].todo), own) /\ Done(g)
  BY DEF WalkReturns, Numbers, Locks, Server, Advance
<1>7. /\ call' \in [Caller -> CallType] /\ call'[g] = NoCall
      /\ \A h \in Caller \ {g} : call'[h] = call[h]
  BY <1>0, <1>6, QuietCall DEF Quiet
<1>8. /\ own \in Seq(Fid) /\ Len(own) = Len(op[g].own) + 1
      /\ \A j : j \in Range(own) <=> j \in Range(op[g].own) \/ j = new
      /\ IsInjective(own)
  BY <1>0, <1>3, <1>5, AppendFids DEF Distinct
<1>9. down \/ bound[new] = g
  BY <1>0, <1>1, <1>2 DEF Bindings, CallerBound
<1>10. \A i \in Range(op[g].own) : down \/ bound[i] = g
  BY <1>0, <1>4 DEF Bindings, CallerBound
<1> HIDE DEF own
<1>11. /\ \A i : i \in Range(own) <=> i \in Held(g)
       /\ \A i \in Range(own) : down \/ bound[i] = g
  BY <1>5, <1>8, <1>9, <1>10 DEF Held
<1>12. Mode(g) = IF op[g].base = None THEN "conn"
                 ELSE IF g \in readers'[op[g].base] THEN "read" ELSE "none"
  BY <1>4, <1>6 DEF Mode
<1>13. readers' \in [File -> SUBSET Caller]
  BY <1>0, <1>6 DEF FilesType
<1>14. \A e \in File : g \in readers'[e] => Open(e) /\ writer[e] = None
  BY <1>0, <1>6 DEF Lifecycle
<1>15. Outline(Tail(op[g].todo), Len(own), Mode(g))
  BY <1>3, <1>8
<1>16. Moves(g, Tail(op[g].todo), own, Mode(g))
  BY <1>4, <1>6, <1>7, <1>8, <1>11, <1>12, <1>13, <1>14, <1>15 DEF Moves
<1> QED
  BY <1>3, <1>4, <1>8, <1>16, MoveOn

-----------------------------------------------------------------------------
(* What the others have bound *)

\* A step of g keeps the invariant if it keeps what is said of g, of the numbers
\* and of the Files.
LEMMA Assemble ==
  ASSUME FilesInv, NEW g, Turn(g), FilesType', Lifecycle', Owned', IsInjective(reuse)',
         g \in Caller => Placed(g)' /\ Asks(g)' /\ CallerBound(g)'
                         /\ IsInjective(op'[g].own) /\ call'[g].new \notin Range(op'[g].own),
         \A i \in Fid : FidBound(i)', \A f \in File : FileBound(f)',
         \A h \in Caller \ {g} : CallerBound(h)' /\ Asks(h)'
  PROVE  FilesInv'
<1>0. FilesType /\ Places /\ Distinct
  BY DEF FilesInv
<1>1. ASSUME NEW h \in Caller \ {g} PROVE Placed(h)'
  BY <1>0, OthersStay
<1>2. Places'
  BY <1>1 DEF Places
<1>3. Requests' /\ Bindings'
  BY DEF Requests, Bindings
<1>4. Distinct'
  <2>1. \A h \in Caller \ {g} : op'[h] = op[h] /\ call'[h] = call[h]
    BY DEF Turn
  <2>2. \A h \in Caller \ {g} : IsInjective(op'[h].own) /\ call'[h].new \notin Range(op'[h].own)
    BY <1>0, <2>1 DEF Distinct
  <2> QED
    BY <2>2 DEF Distinct
<1> QED
  BY <1>2, <1>3, <1>4 DEF FilesInv

\* Numbers an operation has are fids.
LEMMA HeldFid ==
  ASSUME FilesType, NEW h \in Caller
  PROVE  \A i \in Held(h) : i \in Fid
<1>1. op[h].own \in Seq(Fid) /\ call[h].new \in 0 .. MaxFid
  BY DEF FilesType, OpType, CallType
<1>2. \A i \in Range(op[h].own) : i \in Fid
  BY <1>1, FewFids
<1>3. call[h].new # 0 => call[h].new \in Fid
  BY <1>1, ClientFilesAssumption, SMT DEF Fid
<1> QED
  BY <1>2, <1>3 DEF Held

\* What a cleaning step retires: an own fid, or that of the File being closed.
LEMMA RetiredFacts ==
  ASSUME FilesInv, NEW h \in Caller, Step(h) \in Cleaning
  PROVE  /\ Retired(h) \in Fid
         /\ Step(h) # "clunk" => Retired(h) \in Range(op[h].own) /\ Retired(h) \in Held(h)
         /\ Step(h) = "clunk" => /\ op[h].base \in File /\ writer[op[h].base] = h
                                 /\ Retired(h) = file[op[h].base].fid
                                 /\ Live(op[h].base) /\ ~Open(op[h].base)
<1>0. FilesType /\ Placed(h) /\ Lifecycle /\ Owned
  BY DEF FilesInv, Places
<1>1. /\ op[h].own \in Seq(Fid)
      /\ Step(h) \in {"clean", "clean1"} => op[h].own # <<>>
      /\ Step(h) = "clunk" => Mode(h) = "write"
  BY <1>0, StepFacts
<1>2. CASE Step(h) = "clean"
  <2>1. Retired(h) = Last(op[h].own)
    BY <1>2 DEF Retired
  <2>2. Last(op[h].own) \in Fid /\ Last(op[h].own) \in Range(op[h].own)
    BY <1>1, <1>2, FrontFids
  <2> QED
    BY <1>2, <2>1, <2>2 DEF Held
<1>3. CASE Step(h) = "clean1"
  <2>1. Retired(h) = Head(op[h].own)
    BY <1>3 DEF Retired
  <2>2. Head(op[h].own) \in Fid /\ Head(op[h].own) \in Range(op[h].own)
    BY <1>1, <1>3, TailFids
  <2> QED
    BY <1>3, <2>1, <2>2 DEF Held
<1>4. CASE Step(h) = "clunk"
  <2>1. Retired(h) = file[op[h].base].fid
    BY <1>4 DEF Retired
  <2>2. op[h].base \in File /\ writer[op[h].base] = h
    <3>1. op[h].base \in File \cup {None} /\ op[h].base # None
      BY <1>0, <1>1, <1>4 DEF Mode, FilesType, OpType
    <3> QED
      BY <1>0, <1>1, <1>4, <3>1, WriterMode
  <2>3. Live(op[h].base)
    <3>1. h # None
      BY ClientFilesAssumption
    <3> QED
      BY <1>4, <2>2, <3>1 DEF Live, Closing
  <2>4. ~Open(op[h].base)
    <3>1. h # None
      BY ClientFilesAssumption
    <3> QED
      BY <1>0, <2>2, <3>1 DEF Lifecycle
  <2>5. Retired(h) \in Fid
    BY <1>0, <2>1, <2>2, <2>3 DEF Owned
  <2> QED
    BY <1>4, <2>1, <2>2, <2>3, <2>4, <2>5
<1> QED
  BY <1>2, <1>3, <1>4 DEF Cleaning

\* The server's binding of a number that another caller neither has nor clunks
\* is nothing to it.
LEMMA OthersBound ==
  ASSUME FilesInv, NEW g, Turn(g), NEW h \in Caller \ {g}, NEW j,
         \A i \in Fid : i # j => bound'[i] = bound[i], down' = down,
         j \notin Held(h), Step(h) = "clunk" => j # file[op[h].base].fid,
         Mode(h) \in {"read", "write"} => file'[op[h].base].fid = file[op[h].base].fid
  PROVE  CallerBound(h)' /\ Asks(h)'
<1>0. FilesType /\ Places /\ Requests /\ Bindings
  BY DEF FilesInv
<1>1. op'[h] = op[h] /\ call'[h] = call[h]
  BY DEF Turn
<1>2. Step(h)' = Step(h) /\ (Waiting(h)' <=> Waiting(h))
  BY <1>0, OthersStay
<1>3. Asks(h)' /\ (Step(h) \in Cleaning => Retired(h)' = Retired(h))
  BY <1>0, OthersAsk
<1>4. CallerBound(h)
  BY <1>0 DEF Bindings
<1>5. \A i \in Held(h) : bound'[i] = bound[i]
  BY <1>0, HeldFid
<1>6. \A i \in Range(op[h].own) : bound'[i] = bound[i]
  BY <1>5 DEF Held
<1>7. Waiting(h) /\ Step(h) \in Walking => bound'[call[h].new] = bound[call[h].new]
  <2>1. Waiting(h) /\ Step(h) \in Walking => call[h].new # 0
    BY <1>0 DEF Requests, Asks
  <2>2. call[h].new # 0 => call[h].new \in Held(h)
    BY DEF Held
  <2> QED
    BY <1>5, <2>1, <2>2
<1>8. Step(h) \in Cleaning => bound'[Retired(h)] = bound[Retired(h)]
  <2>1. ASSUME Step(h) \in Cleaning PROVE bound'[Retired(h)] = bound[Retired(h)]
    <3>1. Retired(h) \in Fid /\ Retired(h) # j
      BY <2>1, RetiredFacts
    <3> QED
      BY <3>1
  <2> QED
    BY <2>1
<1>9. CallerBound(h)'
  BY <1>1, <1>2, <1>3, <1>4, <1>6, <1>7, <1>8 DEF CallerBound
<1> QED
  BY <1>3, <1>9

\* What one has, no other has.
LEMMA HeldApart ==
  ASSUME Owned, NEW g \in Caller, NEW i \in Held(g)
  PROVE  /\ \A h \in Caller \ {g} : i \notin Held(h)
         /\ \A f \in File : Live(f) => i # file[f].fid
         /\ i \notin Range(reuse) /\ i \notin late /\ i \notin next .. MaxFid
<1>1. Has("caller", g, i)
  BY DEF Has
<1>2. \A k, x : Has(k, x, i) => k = "caller" /\ x = g
  BY <1>1 DEF Owned
<1>3. \A h \in Caller \ {g} : i \notin Held(h)
  BY <1>2 DEF Has
<1>4. ASSUME NEW f \in File, Live(f), i = file[f].fid PROVE FALSE
  <2>1. Has("file", f, i)
    BY <1>4 DEF Has
  <2> QED
    BY <1>2, <2>1
<1>5. i \notin Range(reuse)
  BY <1>2 DEF Has
<1>6. i \notin late
  BY <1>2 DEF Has
<1>7. i \notin next .. MaxFid
  BY <1>2 DEF Has
<1> QED
  BY <1>3, <1>4, <1>5, <1>6, <1>7

\* Nobody else has the fid of a File.
LEMMA FileApart ==
  ASSUME Owned, NEW f \in File, Live(f)
  PROVE  /\ \A h \in Caller : file[f].fid \notin Held(h)
         /\ \A e \in File \ {f} : Live(e) => file[e].fid # file[f].fid
         /\ file[f].fid \notin Range(reuse) /\ file[f].fid \notin late
         /\ file[f].fid \notin next .. MaxFid
<1> DEFINE i == file[f].fid
<1>1. Has("file", f, i)
  BY DEF Has
<1> HIDE DEF i
<1>2. \A k, x : Has(k, x, i) => k = "file" /\ x = f
  BY <1>1 DEF Owned
<1>3. ASSUME NEW h \in Caller, i \in Held(h) PROVE FALSE
  <2>1. Has("caller", h, i)
    BY <1>3 DEF Has
  <2> QED
    BY <1>2, <2>1
<1>4. \A e \in File \ {f} : Live(e) => file[e].fid # i
  BY <1>2 DEF Has
<1>5. i \notin Range(reuse)
  BY <1>2 DEF Has
<1>6. i \notin late
  BY <1>2 DEF Has
<1>7. i \notin next .. MaxFid
  BY <1>2 DEF Has
<1> QED
  BY <1>3, <1>4, <1>5, <1>6, <1>7 DEF i

-----------------------------------------------------------------------------
(* Requests go out and are answered *)

\* A step of g changes its request and what the server has bound to one of the
\* numbers that g has or clunks.
Talks(g, j) ==
  /\ UNCHANGED <<next, reuse, file, readers, writer, op, late, down>>
  /\ call' \in [Caller -> CallType] /\ call'[g].new = call[g].new
  /\ \A h \in Caller \ {g} : call'[h] = call[h]
  /\ bound' \in [Fid -> {None, "cancelled", "quarantined"} \cup Caller \cup File]
  /\ \A i \in Fid : i # j => bound'[i] = bound[i]
  /\ j \in Held(g) \/ (Step(g) = "clunk" /\ j = file[op[g].base].fid) \/ bound' = bound

\* Such a step keeps the invariant, if it does for g and for j.
LEMMA TalkOn ==
  ASSUME FilesInv, NEW g \in Caller, NEW j, Talks(g, j), Asks(g)', CallerBound(g)',
         j \in Fid => /\ bound'[j] \in Caller => j \in Held(bound'[j])
                      /\ bound'[j] \in File => Live(bound'[j]) /\ j = file[bound'[j]].fid
                      /\ down => bound'[j] = None
  PROVE  FilesInv'
<1>0. FilesType /\ Places /\ Lifecycle /\ Requests /\ Owned /\ Distinct /\ Bindings /\ Placed(g)
  BY DEF FilesInv, Places
<1>1. /\ next' = next /\ reuse' = reuse /\ file' = file /\ readers' = readers
      /\ writer' = writer /\ op' = op /\ late' = late /\ down' = down
  BY DEF Talks
<1>2. /\ call' \in [Caller -> CallType] /\ call'[g].new = call[g].new
      /\ \A h \in Caller \ {g} : call'[h] = call[h]
      /\ bound' \in [Fid -> {None, "cancelled", "quarantined"} \cup Caller \cup File]
  BY DEF Talks
<1>3. Turn(g)
  BY <1>1, <1>2 DEF Turn
<1>4. FilesType'
  BY <1>0, <1>1, <1>2 DEF FilesType
<1>5. Lifecycle'
  BY <1>0, <1>1 DEF Lifecycle, Open, Step
<1>6. \A h \in Caller : call'[h].new = call[h].new
  BY <1>2
<1>7. \A h \in Caller : Held(h)' = Held(h)
  BY <1>1, <1>6 DEF Held
<1>8. \A f \in File : (Live(f)' <=> Live(f)) /\ (Open(f)' <=> Open(f)) /\ file'[f] = file[f]
  BY <1>1 DEF Live, Open, Closing, Step
<1>9. Owned'
  BY <1>0, <1>1, <1>7, <1>8, NobodyGains
<1>10. Placed(g)' /\ IsInjective(reuse)'
       /\ IsInjective(op'[g].own) /\ call'[g].new \notin Range(op'[g].own)
  BY <1>0, <1>1, <1>2 DEF Placed, Mode, Distinct
<1>11. \A i \in Fid : i # j \/ bound' = bound => bound'[i] = bound[i]
  BY DEF Talks
<1>12. ASSUME bound' # bound
       PROVE  /\ j \notin Range(reuse) /\ j \notin next .. MaxFid
              /\ \A h \in Caller \ {g} : j \notin Held(h) /\ (Step(h) = "clunk" => j # file[op[h].base].fid)
              /\ \A f \in File : Open(f) => j # file[f].fid
  <2>1. CASE j \in Held(g)
    <3>1. /\ \A h \in Caller \ {g} : j \notin Held(h)
          /\ \A f \in File : Live(f) => j # file[f].fid
          /\ j \notin Range(reuse) /\ j \notin next .. MaxFid
      BY <1>0, <2>1, HeldApart
    <3>2. ASSUME NEW h \in Caller \ {g}, Step(h) = "clunk" PROVE j # file[op[h].base].fid
      <4>1. op[h].base \in File /\ Live(op[h].base)
        BY <3>2, RetiredFacts DEF Cleaning
      <4> QED
        BY <3>1, <4>1
    <3> QED
      BY <3>1, <3>2 DEF Live
  <2>2. CASE Step(g) = "clunk" /\ j = file[op[g].base].fid
    <3>1. op[g].base \in File /\ Live(op[g].base) /\ ~Open(op[g].base) /\ writer[op[g].base] = g
      BY <2>2, RetiredFacts DEF Cleaning
    <3>2. /\ \A h \in Caller : j \notin Held(h)
          /\ \A e \in File \ {op[g].base} : Live(e) => file[e].fid # j
          /\ j \notin Range(reuse) /\ j \notin next .. MaxFid
      BY <1>0, <2>2, <3>1, FileApart
    <3>3. ASSUME NEW h \in Caller \ {g}, Step(h) = "clunk" PROVE j # file[op[h].base].fid
      <4>1. op[h].base \in File /\ Live(op[h].base) /\ writer[op[h].base] = h
        BY <3>3, RetiredFacts DEF Cleaning
      <4>2. op[h].base # op[g].base
        BY <3>1, <4>1
      <4> QED
        BY <3>2, <4>1, <4>2
    <3>4. \A f \in File : Open(f) => j # file[f].fid
      BY <3>1, <3>2 DEF Live
    <3> QED
      BY <3>2, <3>3, <3>4
  <2> QED
    BY <1>12, <2>1, <2>2 DEF Talks
<1>13. ASSUME NEW h \in Caller \ {g} PROVE CallerBound(h)' /\ Asks(h)'
  <2>1. CASE bound' = bound
    <3>1. 0 \notin Fid
      BY SMT DEF Fid
    <3>2. 0 \notin Held(h)
      BY <1>0, <3>1, HeldFid
    <3>3. Step(h) = "clunk" => 0 # file[op[h].base].fid
      <4>1. ASSUME Step(h) = "clunk" PROVE file[op[h].base].fid \in Fid
        BY <4>1, RetiredFacts DEF Cleaning
      <4> QED
        BY <3>1, <4>1
    <3> QED
      BY <1>1, <1>3, <2>1, <3>2, <3>3, OthersBound
  <2>2. CASE bound' # bound
    BY <1>1, <1>3, <1>11, <1>12, <2>2, OthersBound
  <2> QED
    BY <2>1, <2>2
<1>14. ASSUME NEW i \in Fid PROVE FidBound(i)'
  <2>0. FidBound(i)
    BY <1>0 DEF Bindings
  <2>1. CASE bound'[i] = bound[i]
    BY <1>1, <1>7, <1>8, <2>0, <2>1 DEF FidBound
  <2>2. CASE bound'[i] # bound[i]
    <3>1. i = j /\ bound' # bound
      BY <1>11, <2>2
    <3>2. i \notin Range(reuse) /\ i \notin next .. MaxFid
      BY <1>12, <3>1
    <3>3. /\ bound'[i] \in Caller => i \in Held(bound'[i])
          /\ bound'[i] \in File => Live(bound'[i]) /\ i = file[bound'[i]].fid
          /\ down => bound'[i] = None
      BY <3>1
    <3> QED
      BY <1>1, <1>7, <1>8, <3>2, <3>3 DEF FidBound
  <2> QED
    BY <2>1, <2>2
<1>15. ASSUME NEW f \in File PROVE FileBound(f)'
  <2>0. FileBound(f)
    BY <1>0 DEF Bindings
  <2>1. ASSUME Open(f) PROVE bound'[file[f].fid] = bound[file[f].fid]
    <3>1. file[f].fid \in Fid
      BY <1>0, <2>1 DEF Owned, Live
    <3> QED
      BY <1>11, <1>12, <2>1, <3>1
  <2> QED
    BY <1>1, <1>8, <2>0, <2>1 DEF FileBound
<1> QED
  BY <1>3, <1>4, <1>5, <1>9, <1>10, <1>13, <1>14, <1>15, Assemble

\* SendUse and SendClean keep the invariant.
LEMMA SendStep ==
  ASSUME FilesInv, NEW g \in Caller, SendUse(g) \/ SendClean(g)
  PROVE  FilesInv'
<1>0. FilesType /\ Placed(g) /\ Bindings
  BY DEF FilesInv, Places
<1> DEFINE fids == IF Step(g) \in Cleaning THEN {Retired(g)}
                   ELSE IF op[g].own = <<>> THEN BaseFid(g) ELSE Range(op[g].own)
<1>1. /\ Step(g) \in Using \cup Cleaning /\ ~Waiting(g)
      /\ Step(g) \in Cleaning => SendClean(g)
      /\ Step(g) \in Using => SendUse(g)
  BY DEF SendUse, SendClean, At, Waiting, Using, Cleaning
<1>2. Send(g, fids, 0)
  BY <1>1 DEF SendUse, SendClean
<1>3. /\ next' = next /\ reuse' = reuse /\ file' = file /\ readers' = readers
      /\ writer' = writer /\ op' = op /\ late' = late /\ down' = down /\ bound' = bound
  BY DEF SendUse, SendClean, Numbers, Locks, Server
<1>4. /\ op[g].own \in Seq(Fid)
      /\ Step(g) \in Using /\ op[g].own = <<>> => Mode(g) = "read"
  BY <1>0, StepFacts
<1>5. fids \subseteq Fid
  <2>1. CASE Step(g) \in Cleaning
    BY <2>1, RetiredFacts
  <2>2. CASE Step(g) \notin Cleaning /\ op[g].own # <<>>
    BY <1>4, <2>2, FewFids
  <2>3. CASE Step(g) \notin Cleaning /\ op[g].own = <<>>
    <3>1. Mode(g) = "read" /\ op[g].base \in File \cup {None} /\ op[g].base # None
      BY <1>0, <1>1, <1>4, <2>3 DEF Mode, FilesType, OpType
    <3>2. g \in readers[op[g].base]
      BY <3>1 DEF Mode
    <3>3. Open(op[g].base)
      BY <3>1, <3>2 DEF FilesInv, Lifecycle
    <3>4. file[op[g].base].fid \in Fid
      BY <3>1, <3>3 DEF FilesInv, Owned, Live
    <3> QED
      BY <2>3, <3>1, <3>4 DEF BaseFid
  <2> QED
    BY <2>1, <2>2, <2>3
<1> HIDE DEF fids
<1> DEFINE c == [st |-> "sent", fids |-> fids, new |-> 0]
<1>6. c \in CallType /\ c # NoCall /\ c.new = 0 /\ c.fids = fids /\ c.st = "sent"
  <2>1. 0 \in 0 .. MaxFid
    BY ClientFilesAssumption, SMT
  <2>2. NoCall.st = "none" /\ c.st = "sent"
    BY DEF NoCall
  <2> QED
    BY <1>5, <2>1, <2>2 DEF CallType
<1>7. /\ call' \in [Caller -> CallType] /\ call'[g] = c
      /\ \A h \in Caller \ {g} : call'[h] = call[h]
  BY <1>0, <1>2, <1>6 DEF Send, FilesType
<1> HIDE DEF c
<1>8. call[g].new = 0
  BY <1>1, OwnBound
<1>9. Talks(g, 0)
  <2>1. 0 \notin Fid
    BY SMT DEF Fid
  <2> QED
    BY <1>0, <1>3, <1>6, <1>7, <1>8 DEF Talks, FilesType
<1>10. Step(g) \notin Walking /\ Step(g)' = Step(g) /\ (Waiting(g)' <=> TRUE)
       /\ Retired(g)' = Retired(g) /\ BaseFid(g)' = BaseFid(g)
  BY <1>1, <1>3, <1>6, <1>7 DEF Walking, Using, Cleaning, Step, Waiting, Retired, BaseFid
<1>11. Asks(g)'
  <2>1. Step(g) \in Using => Step(g) \notin Cleaning
    BY DEF Using, Cleaning
  <2>2. Step(g) # "walk" /\ Step(g) # "walkOn"
    BY <1>10 DEF Walking
  <2>3. /\ Step(g) \in Cleaning => call'[g].fids = {Retired(g)}
        /\ Step(g) \in Using => call'[g].fids = IF op[g].own = <<>> THEN BaseFid(g) ELSE Range(op[g].own)
        /\ call'[g].new = 0
    BY <1>6, <1>7, <2>1 DEF fids
  <2> QED
    BY <1>1, <1>3, <1>10, <2>2, <2>3 DEF Asks
<1>12. CallerBound(g)'
  <2>1. \A i \in Range(op[g].own) : down \/ bound[i] = g
    BY <1>1, OwnBound
  <2> QED
    BY <1>3, <1>6, <1>7, <1>10, <2>1 DEF CallerBound
<1>13. 0 \notin Fid
  BY SMT DEF Fid
<1> QED
  BY <1>9, <1>11, <1>12, <1>13, TalkOn

\* The server answers; a walk binds its number, a Tclunk unbinds it.
LEMMA ServeStep ==
  ASSUME FilesInv, NEW g \in Caller, Serve(g)
  PROVE  FilesInv'
<1>0. FilesType /\ Requests /\ Distinct /\ Bindings /\ Asks(g) /\ CallerBound(g)
  BY DEF FilesInv, Requests, Bindings
<1>1. /\ next' = next /\ reuse' = reuse /\ file' = file /\ readers' = readers
      /\ writer' = writer /\ op' = op /\ late' = late /\ down' = down
      /\ call[g].st = "sent" /\ ~down
  BY DEF Serve, Numbers, Locks
<1>2. Waiting(g)
  <2>1. NoCall.st = "none"
    BY DEF NoCall
  <2> QED
    BY <1>1, <2>1 DEF Waiting
<1>3. Step(g) \in Walking \cup Using \cup Cleaning
  BY <1>0, <1>2 DEF Asks
<1>4. /\ Step(g) \in Walking => Step(g) \notin Using /\ Step(g) \notin Cleaning
      /\ Step(g) \in Using => Step(g) \notin Walking /\ Step(g) \notin Cleaning
      /\ Step(g) \in Cleaning => Step(g) \notin Using /\ Step(g) \notin Walking
  BY DEF Walking, Using, Cleaning
<1> DEFINE new == call[g].new
<1>5. /\ Step(g) \in Walking => \/ Outcome(g, "err") /\ bound' = bound
                                \/ Outcome(g, "ok") /\ bound[new] = None /\ bound' = [bound EXCEPT ![new] = g]
      /\ Step(g) \in Using => /\ Outcome(g, "err") \/ Outcome(g, "ok") \/ Outcome(g, "blocked")
                              /\ bound' = bound
      /\ Step(g) \in Cleaning => /\ Outcome(g, "err") \/ Outcome(g, "ok")
                                 /\ bound' = [bound EXCEPT ![Retired(g)] = None]
  <2>1. CASE Step(g) \in Walking
    BY <1>4, <2>1 DEF Serve
  <2>2. CASE Step(g) \in Using
    BY <1>4, <2>2 DEF Serve
  <2>3. CASE Step(g) \in Cleaning
    BY <1>4, <2>3 DEF Serve
  <2> QED
    BY <1>3, <1>4, <2>1, <2>2, <2>3
<1>6. PICK r \in {"ok", "err", "blocked"} :
        /\ Outcome(g, r)
        /\ Step(g) \in Walking => \/ r = "err" /\ bound' = bound
                                  \/ r = "ok" /\ bound' = [bound EXCEPT ![new] = g]
  BY <1>3, <1>4, <1>5
<1>7. call \in [Caller -> CallType] /\ call[g] \in CallType
  BY <1>0 DEF FilesType
<1>8. /\ call' \in [Caller -> CallType] /\ \A h \in Caller \ {g} : call'[h] = call[h]
      /\ call'[g].st = r /\ call'[g].fids = call[g].fids /\ call'[g].new = new
  <2>1. call' = [call EXCEPT ![g] = [call[g] EXCEPT !.st = r]]
    BY <1>6, <1>7 DEF Outcome
  <2>2. /\ [call[g] EXCEPT !.st = r] \in CallType
        /\ [call[g] EXCEPT !.st = r].st = r
        /\ [call[g] EXCEPT !.st = r].fids = call[g].fids
        /\ [call[g] EXCEPT !.st = r].new = call[g].new
    BY <1>7, SMT DEF CallType
  <2> QED
    BY <1>7, <2>1, <2>2
<1>9. Waiting(g)' /\ Step(g)' = Step(g) /\ Retired(g)' = Retired(g) /\ BaseFid(g)' = BaseFid(g)
  <2>1. Waiting(g)'
    <3>1. NoCall.st = "none" /\ r # "none"
      BY <1>6 DEF NoCall
    <3> QED
      BY <1>8, <3>1 DEF Waiting
  <2> QED
    BY <1>1, <2>1 DEF Step, Retired, BaseFid
<1>10. Asks(g)'
  BY <1>0, <1>1, <1>2, <1>8, <1>9 DEF Asks
<1>11. bound \in [Fid -> {None, "cancelled", "quarantined"} \cup Caller \cup File]
  BY <1>0 DEF FilesType
<1>12. /\ call'[g].new = call[g].new /\ g \notin File
       /\ \A i \in Range(op[g].own) : bound[i] = g \/ (Step(g) \in Cleaning /\ i = Retired(g))
       /\ \A i \in Range(op[g].own) : i # new /\ i \in Fid
  <2>1. \A i \in Range(op[g].own) : i \in Fid
    BY <1>0, HeldFid DEF Held
  <2> QED
    BY <1>0, <1>1, <1>8, <2>1, ClientFilesAssumption DEF CallerBound, Distinct
<1>13. CASE bound' = bound /\ (Step(g) \in Walking => r = "err")
  <2>1. Step(g) \notin Cleaning => CallerBound(g)'
    <3>1. Step(g) \in Walking => bound[new] \in Vacant /\ r # "ok"
      BY <1>0, <1>1, <1>2, <1>13 DEF CallerBound
    <3> QED
      BY <1>1, <1>8, <1>9, <1>12, <1>13, <3>1 DEF CallerBound
  <2>2. Step(g) \in Cleaning => CallerBound(g)'
    <3>1. ASSUME Step(g) \in Cleaning PROVE bound'[Retired(g)] = None
      <4>1. Retired(g) \in Fid
        BY <3>1, RetiredFacts
      <4> QED
        BY <1>5, <1>11, <3>1, <4>1
    <3> QED
      BY <1>1, <1>4, <1>8, <1>9, <1>12, <1>13, <3>1 DEF CallerBound
  <2>3. Talks(g, 0)
    BY <1>1, <1>8, <1>11, <1>13 DEF Talks
  <2>4. 0 \notin Fid
    BY SMT DEF Fid
  <2> QED
    BY <1>10, <2>1, <2>2, <2>3, <2>4, TalkOn
<1>14. CASE Step(g) \in Walking /\ bound' = [bound EXCEPT ![new] = g] /\ r = "ok"
  <2>1. new # 0
    BY <1>0, <1>2, <1>14 DEF Asks
  <2>2. new \in Held(g)
    BY <2>1 DEF Held
  <2>3. new \in Fid
    BY <1>0, <2>2, HeldFid
  <2>4. /\ bound' \in [Fid -> {None, "cancelled", "quarantined"} \cup Caller \cup File]
        /\ bound'[new] = g /\ \A i \in Fid : i # new => bound'[i] = bound[i]
    BY <1>11, <1>14, <2>3
  <2>5. Talks(g, new)
    BY <1>1, <1>8, <2>2, <2>4 DEF Talks
  <2>6. CallerBound(g)'
    BY <1>1, <1>4, <1>8, <1>9, <1>12, <1>14, <2>4 DEF CallerBound
  <2>7. /\ bound'[new] \in Caller => new \in Held(bound'[new])
        /\ bound'[new] \in File => Live(bound'[new]) /\ new = file[bound'[new]].fid
        /\ down => bound'[new] = None
    BY <1>1, <1>12, <2>2, <2>4
  <2> QED
    BY <1>10, <2>5, <2>6, <2>7, TalkOn
<1>15. CASE Step(g) \in Cleaning
  <2> DEFINE j == Retired(g)
  <2>1. /\ j \in Fid
        /\ j \in Held(g) \/ (Step(g) = "clunk" /\ j = file[op[g].base].fid)
    BY <1>15, RetiredFacts
  <2>2. /\ bound' \in [Fid -> {None, "cancelled", "quarantined"} \cup Caller \cup File]
        /\ bound'[j] = None /\ \A i \in Fid : i # j => bound'[i] = bound[i]
    BY <1>5, <1>11, <1>15, <2>1
  <2>3. None \notin Caller /\ None \notin File
    BY ClientFilesAssumption
  <2> HIDE DEF j
  <2>4. Talks(g, j)
    BY <1>1, <1>8, <2>1, <2>2 DEF Talks
  <2>5. CallerBound(g)'
    BY <1>1, <1>4, <1>8, <1>9, <1>12, <1>15, <2>2 DEF CallerBound, j
  <2>6. /\ bound'[j] \in Caller => j \in Held(bound'[j])
        /\ bound'[j] \in File => Live(bound'[j]) /\ j = file[bound'[j]].fid
        /\ down => bound'[j] = None
    BY <2>2, <2>3
  <2> QED
    BY <1>10, <2>4, <2>5, <2>6, TalkOn
<1> QED
  BY <1>3, <1>4, <1>5, <1>6, <1>13, <1>14, <1>15

\* acquire: the number comes from the stack or from the fresh ones.
LEMMA AcquireFacts ==
  ASSUME FilesType, Distinct, ~Exhausted, AfterAcquire
  PROVE  /\ Acquired \in Fid /\ next' \in 1 .. MaxFid + 1
         /\ reuse' \in Seq(Fid) /\ Len(reuse') <= ReuseCap /\ IsInjective(reuse')
         /\ Has("pool", None, Acquired) \/ Has("fresh", None, Acquired)
         /\ \A i : i \in Range(reuse') => i \in Range(reuse)
         /\ \A i : i \in next' .. MaxFid => i \in next .. MaxFid
         /\ Has("pool", None, Acquired) => reuse # <<>> \/ Acquired = next
         /\ reuse # <<>> => Acquired \notin Range(reuse')
         /\ reuse = <<>> => Acquired \notin next' .. MaxFid
<1>0. next \in 1 .. MaxFid + 1 /\ reuse \in Seq(Fid) /\ Len(reuse) <= ReuseCap /\ IsInjective(reuse)
  BY DEF FilesType, Distinct
<1>1. CASE reuse # <<>>
  <2>1. Acquired = Last(reuse) /\ reuse' = Front(reuse) /\ next' = next
    BY <1>1 DEF Acquired, AfterAcquire
  <2>2. /\ Front(reuse) \in Seq(Fid) /\ Len(Front(reuse)) = Len(reuse) - 1 /\ Len(reuse) \in Nat \ {0}
        /\ Last(reuse) \in Fid /\ Last(reuse) \in Range(reuse)
        /\ \A j \in Range(Front(reuse)) : j \in Range(reuse)
        /\ IsInjective(Front(reuse)) /\ Last(reuse) \notin Range(Front(reuse))
    BY <1>0, <1>1, FrontFids
  <2>3. Len(Front(reuse)) <= ReuseCap
    BY <1>0, <2>2, ClientFilesAssumption, SMT
  <2>4. Has("pool", None, Last(reuse))
    BY <2>2 DEF Has
  <2> QED
    BY <1>0, <1>1, <2>1, <2>2, <2>3, <2>4
<1>2. CASE reuse = <<>>
  <2>1. Acquired = next /\ reuse' = reuse /\ next' = next + 1
    BY <1>2 DEF Acquired, AfterAcquire
  <2>2. ~(next > MaxFid)
    BY <1>2 DEF Exhausted
  <2>3. /\ next \in Fid /\ next + 1 \in 1 .. MaxFid + 1 /\ next \in next .. MaxFid
        /\ next \notin next + 1 .. MaxFid
        /\ \A i : i \in next + 1 .. MaxFid => i \in next .. MaxFid
    BY <1>0, <2>2, ClientFilesAssumption, SMT DEF Fid
  <2>4. Has("fresh", None, next)
    BY <2>3 DEF Has
  <2> QED
    BY <1>0, <1>2, <2>1, <2>3, <2>4
<1> QED
  BY <1>1, <1>2

\* A walk acquires its number and is sent.
LEMMA SendWalkStep ==
  ASSUME FilesInv, NEW g \in Caller, SendWalk(g), ~Exhausted
  PROVE  FilesInv'
<1>0. FilesType /\ Placed(g) /\ Lifecycle /\ Owned /\ Distinct /\ Bindings
  BY DEF FilesInv, Places
<1> DEFINE j == Acquired
           fids == IF Step(g) = "walk" THEN BaseFid(g) ELSE {Head(op[g].own)}
<1>1. /\ file' = file /\ readers' = readers /\ writer' = writer /\ op' = op
      /\ bound' = bound /\ late' = late /\ down' = down
      /\ Step(g) \in Walking /\ ~Waiting(g) /\ AfterAcquire /\ Send(g, fids, j)
  BY DEF SendWalk, Locks, Server, At, Waiting
<1>2. /\ op[g].own \in Seq(Fid) /\ Mode(g) \in {"read", "conn"}
      /\ Step(g) = "walkOn" => op[g].own # <<>>
  BY <1>0, <1>1, StepFacts
<1>3. fids \subseteq Fid
  <2>1. CASE Step(g) # "walk"
    BY <1>1, <1>2, <2>1, TailFids DEF Walking
  <2>2. CASE Step(g) = "walk" /\ op[g].base = None
    BY <2>2 DEF BaseFid
  <2>3. CASE Step(g) = "walk" /\ op[g].base # None
    <3>1. op[g].base \in File /\ g \in readers[op[g].base]
      BY <1>0, <1>2, <2>3 DEF Mode, FilesType, OpType
    <3>2. Open(op[g].base)
      BY <1>0, <3>1 DEF Lifecycle
    <3>3. file[op[g].base].fid \in Fid
      BY <1>0, <3>1, <3>2 DEF Owned, Live
    <3> QED
      BY <2>3, <3>3 DEF BaseFid
  <2> QED
    BY <2>1, <2>2, <2>3
<1>4. /\ j \in Fid /\ next' \in 1 .. MaxFid + 1
      /\ reuse' \in Seq(Fid) /\ Len(reuse') <= ReuseCap /\ IsInjective(reuse')
      /\ Has("pool", None, j) \/ Has("fresh", None, j)
      /\ \A i : i \in Range(reuse') => i \in Range(reuse)
      /\ \A i : i \in next' .. MaxFid => i \in next .. MaxFid
  BY <1>0, <1>1, AcquireFacts
<1>5. j \notin Range(reuse') /\ j \notin next' .. MaxFid
  <2>1. reuse # <<>> => j \notin Range(reuse') /\ Has("pool", None, j)
    <3>1. reuse # <<>> => j = Last(reuse) /\ Last(reuse) \in Range(reuse)
      BY <1>0, FrontFids DEF Acquired, FilesType
    <3> QED
      BY <1>0, <1>1, <3>1, AcquireFacts DEF Has
  <2>2. Has("pool", None, j) => ~Has("fresh", None, j)
    <3>1. "pool" # "fresh"
      OBVIOUS
    <3> QED
      BY <1>0, <3>1 DEF Owned
  <2>3. reuse = <<>> => j \notin next' .. MaxFid
    BY <1>0, <1>1, AcquireFacts
  <2>4. reuse = <<>> => j \notin Range(reuse')
    <3>1. reuse = <<>> => reuse' = <<>>
      BY <1>1 DEF AfterAcquire
    <3> QED
      BY <1>2, <3>1, FewFids
  <2>5. j \in next' .. MaxFid => Has("fresh", None, j)
    BY <1>4 DEF Has
  <2> QED
    BY <2>1, <2>2, <2>3, <2>4, <2>5
<1> HIDE DEF j, fids
<1>6. PICK k \in {"pool", "fresh"} : Has(k, None, j)
  BY <1>4
<1>7. \A l, x : Has(l, x, j) => l # "caller" /\ l # "file" /\ l # "late"
  <2>1. \A l, x : Has(l, x, j) => l = k
    BY <1>0, <1>6 DEF Owned
  <2>2. k # "caller" /\ k # "file" /\ k # "late"
    BY <1>6
  <2> QED
    BY <2>1, <2>2
<1>8. /\ \A h \in Caller : j \notin Held(h)
      /\ \A f \in File : Live(f) => j # file[f].fid
      /\ j \notin late
  <2>1. ASSUME NEW h \in Caller, j \in Held(h) PROVE FALSE
    <3>1. Has("caller", h, j)
      BY <2>1 DEF Has
    <3> QED
      BY <1>7, <3>1
  <2>2. ASSUME NEW f \in File, Live(f), j = file[f].fid PROVE FALSE
    <3>1. Has("file", f, j)
      BY <2>2 DEF Has
    <3> QED
      BY <1>7, <3>1
  <2>3. ASSUME j \in late PROVE FALSE
    <3>1. Has("late", None, j)
      BY <2>3 DEF Has
    <3> QED
      BY <1>7, <3>1
  <2> QED
    BY <2>1, <2>2, <2>3
<1>9. bound[j] \in Vacant
  <2>1. FidBound(j)
    BY <1>0, <1>4 DEF Bindings
  <2>2. j \in Range(reuse) \/ j \in next .. MaxFid
    BY <1>6 DEF Has
  <2> QED
    BY <2>1, <2>2 DEF FidBound
<1> DEFINE c == [st |-> "sent", fids |-> fids, new |-> j]
<1>10. c \in CallType /\ c # NoCall /\ c.new = j /\ c.fids = fids /\ c.st = "sent" /\ j # 0
  <2>1. j \in 0 .. MaxFid /\ j # 0
    BY <1>4, ClientFilesAssumption, SMT DEF Fid
  <2>2. NoCall.st = "none" /\ c.st = "sent"
    BY DEF NoCall
  <2> QED
    BY <1>3, <2>1, <2>2 DEF CallType
<1>11. /\ call' \in [Caller -> CallType] /\ call'[g] = c
       /\ \A h \in Caller \ {g} : call'[h] = call[h]
  BY <1>0, <1>1, <1>10 DEF Send, FilesType
<1> HIDE DEF c
<1>12. Turn(g)
  BY <1>1, <1>11 DEF Turn
<1>13. FilesType'
  BY <1>0, <1>1, <1>4, <1>11 DEF FilesType
<1>14. Lifecycle'
  BY <1>0, <1>1 DEF Lifecycle, Open, Step
<1>15. \A f \in File : (Live(f)' <=> Live(f)) /\ (Open(f)' <=> Open(f)) /\ file'[f] = file[f]
  BY <1>1 DEF Live, Open, Closing, Step
<1>16. call[g].new = 0 /\ \A i \in Range(op[g].own) : down \/ bound[i] = g
  BY <1>1, OwnBound DEF Walking, Cleaning
<1>17. /\ \A h \in Caller \ {g} : Held(h)' = Held(h)
       /\ \A i : i \in Held(g)' <=> i \in Held(g) \/ i = j
  <2>1. \A h \in Caller \ {g} : Held(h)' = Held(h)
    BY <1>1, <1>11 DEF Held
  <2>2. \A i : i \in Held(g)' <=> i \in Range(op[g].own) \/ i = j
    BY <1>1, <1>10, <1>11 DEF Held
  <2>3. \A i : i \in Held(g) <=> i \in Range(op[g].own)
    BY <1>16 DEF Held
  <2> QED
    BY <2>1, <2>2, <2>3
<1>18. Owned'
  <2>1. ASSUME NEW i, NEW l, NEW x, Has(l, x, i)'
        PROVE  IF i = j THEN l = "caller" /\ x = g ELSE Has(l, x, i)
    <3>1. CASE l = "caller" /\ x \in Caller /\ i \in Held(x)'
      <4>1. CASE x = g
        <5>1. i \in Range(op'[g].own) \cup ({call'[g].new} \ {0})
          BY <3>1, <4>1 DEF Held
        <5>2. i \in Held(g)'
          BY <5>1 DEF Held
        <5>3. i \in Held(g) \/ i = j
          BY <1>17, <5>2
        <5>4. i \in Held(g) => Has("caller", g, i)
          BY DEF Has
        <5> QED
          BY <3>1, <4>1, <5>3, <5>4
      <4>2. CASE x # g
        <5>1. i \in Held(x)
          BY <1>17, <3>1, <4>2
        <5> QED
          BY <1>8, <3>1, <5>1 DEF Has
      <4> QED
        BY <4>1, <4>2
    <3>2. CASE l = "file" /\ x \in File /\ Live(x)' /\ i = file'[x].fid
      BY <1>8, <1>15, <3>2 DEF Has
    <3>3. CASE l = "pool" /\ x = None /\ i \in Range(reuse')
      BY <1>4, <1>5, <3>3 DEF Has
    <3>4. CASE l = "late" /\ x = None /\ i \in late'
      BY <1>1, <1>8, <3>4 DEF Has
    <3>5. CASE l = "fresh" /\ x = None /\ i \in next' .. MaxFid
      BY <1>4, <1>5, <3>5 DEF Has
    <3> QED
      BY <2>1, <3>1, <3>2, <3>3, <3>4, <3>5 DEF Has
  <2>2. Gains(j, "caller", g)
    BY <2>1 DEF Gains
  <2>3. \A f \in File : Live(f)' => file'[f].fid \in Fid
    BY <1>0, <1>15 DEF Owned
  <2> QED
    BY <1>0, <2>2, <2>3, OneGains
<1>19. Step(g)' = Step(g) /\ Waiting(g)' /\ BaseFid(g)' = BaseFid(g)
  BY <1>1, <1>10, <1>11 DEF Step, Waiting, BaseFid
<1>20. Asks(g)'
  <2>1. /\ Step(g) = "walk" => call'[g].fids = BaseFid(g)
        /\ Step(g) = "walkOn" => call'[g].fids = {Head(op[g].own)}
        /\ Step(g) \notin Using /\ Step(g) \notin Cleaning
    BY <1>1, <1>10, <1>11 DEF fids, Walking, Using, Cleaning
  <2> QED
    BY <1>1, <1>10, <1>11, <1>19, <2>1 DEF Asks
<1>21. CallerBound(g)'
  <2>1. Step(g) \notin Cleaning
    BY <1>1 DEF Walking, Cleaning
  <2> QED
    BY <1>1, <1>9, <1>10, <1>11, <1>16, <1>19, <2>1 DEF CallerBound
<1>22. Placed(g)' /\ IsInjective(op'[g].own) /\ call'[g].new \notin Range(op'[g].own)
  <2>1. j \notin Range(op[g].own)
    BY <1>8 DEF Held
  <2> QED
    BY <1>0, <1>1, <1>10, <1>11, <2>1 DEF Placed, Mode, Distinct
<1>23. ASSUME NEW i \in Fid PROVE FidBound(i)'
  <2>0. FidBound(i)
    BY <1>0 DEF Bindings
  <2>1. ASSUME bound[i] \in Caller PROVE i \in Held(bound[i])'
    <3>1. i \in Held(bound[i])
      BY <2>0, <2>1 DEF FidBound
    <3>2. CASE bound[i] = g
      <4>1. i \in Range(op[g].own)
        BY <1>16, <3>1, <3>2 DEF Held
      <4> QED
        BY <1>1, <3>2, <4>1 DEF Held
    <3>3. CASE bound[i] # g
      <4>1. i \in Range(op[bound[i]].own) \cup ({call[bound[i]].new} \ {0})
        BY <3>1 DEF Held
      <4>2. call'[bound[i]] = call[bound[i]]
        BY <1>11, <2>1, <3>3
      <4> QED
        BY <1>1, <4>1, <4>2 DEF Held
    <3> QED
      BY <3>2, <3>3
  <2>2. bound[i] \in File => Live(bound[i])' /\ i = file'[bound[i]].fid
    BY <1>1, <1>15, <2>0 DEF FidBound
  <2>3. i \in Range(reuse') \/ i \in next' .. MaxFid => bound[i] \in Vacant
    BY <1>4, <2>0 DEF FidBound
  <2>4. down => bound[i] = None
    BY <2>0 DEF FidBound
  <2> QED
    BY <1>1, <2>1, <2>2, <2>3, <2>4 DEF FidBound
<1>24. \A f \in File : FileBound(f)'
  BY <1>0, <1>1, <1>15 DEF Bindings, FileBound
<1>25. ASSUME NEW h \in Caller \ {g} PROVE CallerBound(h)' /\ Asks(h)'
  <2>1. Step(h) = "clunk" => j # file[op[h].base].fid
    <3>1. ASSUME Step(h) = "clunk" PROVE op[h].base \in File /\ Live(op[h].base)
      BY <3>1, RetiredFacts DEF Cleaning
    <3> QED
      BY <1>8, <3>1
  <2> QED
    BY <1>1, <1>8, <1>12, <2>1, OthersBound
<1> QED
  BY <1>4, <1>12, <1>13, <1>14, <1>18, <1>20, <1>21, <1>22, <1>23, <1>24, <1>25, Assemble

-----------------------------------------------------------------------------
(* A number is given up *)

\* What g gives up: a number it has, or that of the File it clunks.
GivesUp(g, j) ==
  \/ j \in Held(g) /\ Mode(g) # "write"
  \/ Step(g) = "clunk" /\ j = file[op[g].base].fid

\* g goes on without number j, which goes to the stack, or to a Tclunk nobody
\* waits for, or is lost.
Frees(g, j, todo, own) ==
  /\ GivesUp(g, j)
  /\ Goto(g, todo, own) /\ Outline(todo, Len(own), Mode(g))
  /\ Step(g) = "clunk" => todo = <<"unlock">>
  /\ Quiet(g) /\ UNCHANGED <<next, file, readers, writer, down>>
  /\ \A i : i \in Range(own) <=> i \in Held(g) /\ i # j
  /\ IsInjective(own) /\ \A i \in Range(own) : down \/ bound[i] = g
  /\ bound' \in [Fid -> {None, "cancelled", "quarantined"} \cup Caller \cup File]
  /\ \A i \in Fid : i # j => bound'[i] = bound[i]
  /\ bound'[j] \in {None, "cancelled", "quarantined"} /\ (down => bound'[j] = None)

\* It becomes free to be handed out, or never is again.
Pooled(j) ==
  /\ reuse' = Append(reuse, j) /\ Len(reuse) < ReuseCap /\ bound'[j] \in Vacant
  /\ late' = late
Lost(j) == reuse' = reuse /\ (late' = late \/ late' = late \cup {j})

\* Nobody else has it.
LEMMA GivenUp ==
  ASSUME FilesInv, NEW g \in Caller, NEW j, GivesUp(g, j)
  PROVE  /\ j \in Fid
         /\ \A h \in Caller \ {g} : j \notin Held(h) /\ (Step(h) = "clunk" => j # file[op[h].base].fid)
         /\ \A f \in File : Open(f) => j # file[f].fid
         /\ \A f \in File : Live(f) /\ j = file[f].fid => Step(g) = "clunk" /\ f = op[g].base
         /\ j \notin Range(reuse) /\ j \notin late /\ j \notin next .. MaxFid
<1>0. FilesType /\ Owned
  BY DEF FilesInv
<1>1. CASE j \in Held(g)
  <2>1. /\ \A h \in Caller \ {g} : j \notin Held(h)
        /\ \A f \in File : Live(f) => j # file[f].fid
        /\ j \notin Range(reuse) /\ j \notin late /\ j \notin next .. MaxFid
    BY <1>0, <1>1, HeldApart
  <2>2. ASSUME NEW h \in Caller \ {g}, Step(h) = "clunk" PROVE j # file[op[h].base].fid
    <3>1. op[h].base \in File /\ Live(op[h].base)
      BY <2>2, RetiredFacts DEF Cleaning
    <3> QED
      BY <2>1, <3>1
  <2>3. j \in Fid
    BY <1>0, <1>1, HeldFid
  <2> QED
    BY <2>1, <2>2, <2>3 DEF Live
<1>2. CASE Step(g) = "clunk" /\ j = file[op[g].base].fid
  <2>1. /\ op[g].base \in File /\ Live(op[g].base) /\ ~Open(op[g].base) /\ writer[op[g].base] = g
        /\ j \in Fid
    BY <1>2, RetiredFacts DEF Cleaning
  <2>2. /\ \A h \in Caller : j \notin Held(h)
        /\ \A e \in File \ {op[g].base} : Live(e) => file[e].fid # j
        /\ j \notin Range(reuse) /\ j \notin late /\ j \notin next .. MaxFid
    BY <1>0, <1>2, <2>1, FileApart
  <2>3. ASSUME NEW h \in Caller \ {g}, Step(h) = "clunk" PROVE j # file[op[h].base].fid
    <3>1. op[h].base \in File /\ Live(op[h].base) /\ writer[op[h].base] = h
      BY <2>3, RetiredFacts DEF Cleaning
    <3>2. op[h].base # op[g].base
      BY <2>1, <3>1
    <3> QED
      BY <2>2, <3>1, <3>2
  <2>4. \A f \in File : Open(f) => j # file[f].fid
    BY <2>1, <2>2 DEF Live
  <2>5. \A f \in File : Live(f) /\ j = file[f].fid => f = op[g].base
    BY <2>2
  <2> QED
    BY <1>2, <2>1, <2>2, <2>3, <2>4, <2>5
<1> QED
  BY <1>1, <1>2 DEF GivesUp

\* Such a step keeps the invariant.
LEMMA FreeOn ==
  ASSUME FilesInv, NEW g \in Caller, NEW j, NEW todo \in Seq(Steps), NEW own \in Seq(Fid),
         Frees(g, j, todo, own), Pooled(j) \/ Lost(j)
  PROVE  FilesInv'
<1>0. FilesType /\ Placed(g) /\ Lifecycle /\ Owned /\ Distinct /\ Bindings
  BY DEF FilesInv, Places
<1>1. /\ next' = next /\ file' = file /\ readers' = readers /\ writer' = writer /\ down' = down
      /\ Goto(g, todo, own) /\ Outline(todo, Len(own), Mode(g))
      /\ Step(g) = "clunk" => todo = <<"unlock">>
      /\ GivesUp(g, j)
  BY DEF Frees
<1>2. /\ bound' \in [Fid -> {None, "cancelled", "quarantined"} \cup Caller \cup File]
      /\ \A i \in Fid : i # j => bound'[i] = bound[i]
      /\ bound'[j] \in {None, "cancelled", "quarantined"} /\ (down => bound'[j] = None)
  BY DEF Frees
<1>3. /\ \A i : i \in Range(own) <=> i \in Held(g) /\ i # j
      /\ IsInjective(own) /\ \A i \in Range(own) : down \/ bound[i] = g
  BY DEF Frees
<1>4. /\ call' \in [Caller -> CallType] /\ call'[g] = NoCall
      /\ \A h \in Caller \ {g} : call'[h] = call[h]
  BY <1>0, QuietCall DEF Frees
<1>5. /\ op' \in [Caller -> OpType]
      /\ op'[g].todo = todo /\ op'[g].own = own
      /\ op'[g].base = IF todo = <<>> THEN None ELSE op[g].base
      /\ \A h \in Caller \ {g} : op'[h] = op[h]
  BY <1>0, <1>1, GotoOp
<1>6. Turn(g)
  BY <1>1, <1>4, <1>5 DEF Turn
<1>7. /\ j \in Fid
      /\ \A h \in Caller \ {g} : j \notin Held(h) /\ (Step(h) = "clunk" => j # file[op[h].base].fid)
      /\ \A f \in File : Open(f) => j # file[f].fid
      /\ \A f \in File : Live(f) /\ j = file[f].fid => Step(g) = "clunk" /\ f = op[g].base
      /\ j \notin Range(reuse) /\ j \notin late /\ j \notin next .. MaxFid
  BY <1>1, GivenUp
<1>8. /\ reuse' \in Seq(Fid) /\ Len(reuse') <= ReuseCap /\ IsInjective(reuse')
      /\ \A i : i \in Range(reuse') => i \in Range(reuse) \/ (Pooled(j) /\ i = j)
  <2>0. reuse \in Seq(Fid) /\ Len(reuse) <= ReuseCap /\ IsInjective(reuse)
    BY <1>0 DEF FilesType, Distinct
  <2>1. CASE Pooled(j)
    <3>1. reuse' = Append(reuse, j) /\ Len(reuse) < ReuseCap
      BY <2>1 DEF Pooled
    <3>2. /\ Append(reuse, j) \in Seq(Fid) /\ Len(Append(reuse, j)) = Len(reuse) + 1 /\ Len(reuse) \in Nat
          /\ \A i : i \in Range(Append(reuse, j)) <=> i \in Range(reuse) \/ i = j
          /\ IsInjective(Append(reuse, j))
      BY <1>7, <2>0, AppendFids
    <3>3. Len(Append(reuse, j)) <= ReuseCap
      BY <3>1, <3>2, ClientFilesAssumption, SMT
    <3> QED
      BY <2>1, <3>1, <3>2, <3>3
  <2>2. CASE Lost(j)
    BY <2>0, <2>2 DEF Lost
  <2> QED
    BY <2>1, <2>2
<1>9. /\ late' \subseteq Fid
      /\ \A i : i \in late' => i \in late \/ (Lost(j) /\ i = j)
  BY <1>0, <1>7 DEF FilesType, Pooled, Lost
<1>10. FilesType'
  BY <1>0, <1>1, <1>2, <1>4, <1>5, <1>8, <1>9 DEF FilesType
<1>11. /\ Mode(g) = "write" => Step(g) = "clunk"
       /\ Step(g) = "clunk" => Mode(g) = "write"
       /\ Mode(g) \in Modes
  BY <1>0, <1>1, StepFacts DEF GivesUp
<1>12. todo = <<>> => Mode(g) \in {"none", "conn"} /\ own = <<>>
  BY <1>1, OutlineEmpty, FewFids
<1>13. <<"unlock">> # <<>> /\ Head(<<"unlock">>) = "unlock"
  BY SMT
<1>14. Step(g) = "clunk" => op'[g].base = op[g].base /\ Step(g)' = "unlock"
  BY <1>1, <1>5, <1>13 DEF Step
<1>15. Lifecycle'
  <2> SUFFICES ASSUME NEW f \in File
               PROVE  /\ \A h \in readers'[f] : op'[h].base = f
                      /\ readers'[f] # {} => Open(f)'
                      /\ writer'[f] # None =>
                           /\ op'[writer'[f]].base = f /\ readers'[f] = {} /\ ~Open(f)'
                           /\ Step(writer[f])' = "clunk" => Tail(op'[writer'[f]].todo) = <<"unlock">>
    BY DEF Lifecycle
  <2>1. Open(f)' <=> Open(f)
    BY <1>1 DEF Open
  <2>2. ASSUME NEW h \in Caller, op[h].base = f, Mode(h) \in {"read", "write"} PROVE op'[h].base = f
    <3>1. CASE h = g
      BY <1>5, <1>12, <2>2, <3>1
    <3>2. CASE h # g
      BY <1>5, <2>2, <3>2
    <3> QED
      BY <3>1, <3>2
  <2>3. ASSUME NEW h \in readers[f] PROVE op'[h].base = f
    <3>1. h \in Caller
      BY <1>0 DEF FilesType
    <3> QED
      BY <1>0, <2>2, <3>1, ReaderMode
  <2>4. ASSUME writer[f] # None
        PROVE  /\ op'[writer[f]].base = f
               /\ Step(writer[f])' = "clunk" => Tail(op'[writer[f]].todo) = <<"unlock">>
    <3>1. writer[f] \in Caller
      BY <1>0, <2>4 DEF FilesType
    <3>2. op[writer[f]].base = f /\ Mode(writer[f]) = "write"
      BY <1>0, <3>1, WriterMode
    <3>3. op'[writer[f]].base = f
      BY <2>2, <3>1, <3>2
    <3>4. CASE writer[f] = g
      <4>1. Step(g) = "clunk"
        BY <1>11, <3>2, <3>4
      <4>2. op'[writer'[f]].todo = <<"unlock">>
        BY <1>1, <1>5, <3>4, <4>1
      <4>3. Step(writer[f])' = "unlock"
        BY <1>13, <4>2 DEF Step
      <4> QED
        BY <3>3, <4>3
    <3>5. CASE writer[f] # g
      <4>1. op'[writer'[f]] = op[writer[f]]
        BY <1>1, <1>5, <3>1, <3>5
      <4>2. Step(writer[f])' = Step(writer[f])
        BY <4>1 DEF Step
      <4>3. Step(writer[f]) = "clunk" => Tail(op[writer[f]].todo) = <<"unlock">>
        BY <1>0, <2>4 DEF Lifecycle
      <4> QED
        BY <1>1, <3>3, <4>1, <4>2, <4>3
    <3> QED
      BY <3>4, <3>5
  <2>5. writer[f] # None => readers[f] = {} /\ ~Open(f)
    BY <1>0 DEF Lifecycle
  <2>6. readers[f] # {} => Open(f)
    BY <1>0 DEF Lifecycle
  <2> QED
    BY <1>1, <2>1, <2>3, <2>4, <2>5, <2>6
<1>16. Placed(g)'
  <2>1. CASE todo = <<>>
    <3>1. op'[g].base = None
      BY <1>5, <2>1
    <3>2. Mode(g)' = "conn"
      BY <3>1 DEF Mode
    <3>3. Len(own) = 0
      BY <1>12, <2>1, FewFids
    <3> QED
      BY <1>5, <2>1, <3>2, <3>3, OutlineEmpty DEF Placed
  <2>2. CASE todo # <<>>
    <3>1. Mode(g)' = Mode(g)
      BY <1>1, <1>5, <2>2 DEF Mode
    <3> QED
      BY <1>1, <1>5, <3>1 DEF Placed
  <2> QED
    BY <2>1, <2>2
<1>17. ~Waiting(g)' /\ call'[g].new = 0
  <2>1. ~Waiting(g)'
    BY <1>4 DEF Waiting
  <2>2. NoCall.new = 0
    BY DEF NoCall
  <2> QED
    BY <1>4, <2>1, <2>2
<1>18. Asks(g)'
  BY <1>17 DEF Asks
<1>19. CallerBound(g)'
  <2>1. \A i \in Range(own) : down \/ bound'[i] = g
    BY <1>2, <1>3, FewFids
  <2> QED
    BY <1>1, <1>5, <1>17, <2>1 DEF CallerBound
<1>20. IsInjective(op'[g].own) /\ call'[g].new \notin Range(op'[g].own)
  <2>1. 0 \notin Fid
    BY SMT DEF Fid
  <2>2. 0 \notin Range(own)
    BY <2>1, FewFids
  <2> QED
    BY <1>3, <1>5, <1>17, <2>2
<1>21. /\ \A h \in Caller \ {g} : Held(h)' = Held(h)
       /\ \A i : i \in Held(g)' <=> i \in Held(g) /\ i # j
  <2>1. \A h \in Caller \ {g} : Held(h)' = Held(h)
    BY <1>4, <1>5 DEF Held
  <2>2. \A i : i \in Held(g)' <=> i \in Range(own)
    BY <1>5, <1>17 DEF Held
  <2> QED
    BY <1>3, <2>1, <2>2
<1>22. ASSUME NEW f \in File
       PROVE  /\ Open(f)' <=> Open(f)
              /\ file'[f] = file[f]
              /\ Live(f)' <=> Live(f) /\ ~(Step(g) = "clunk" /\ f = op[g].base)
  <2>1. (Open(f)' <=> Open(f)) /\ file'[f] = file[f]
    BY <1>1 DEF Open
  <2>2. CASE writer[f] = g
    <3>1. op[g].base = f /\ Step(g) = "clunk"
      BY <1>0, <1>11, <2>2, WriterMode
    <3>2. ~Closing(f)'
      <4>1. op'[writer'[f]].todo = <<"unlock">>
        BY <1>1, <1>5, <2>2, <3>1
      <4>2. Step(writer[f])' = "unlock"
        BY <1>13, <4>1 DEF Step
      <4> QED
        BY <4>2 DEF Closing
    <3>3. ~Open(f)
      <4>1. g # None
        BY ClientFilesAssumption
      <4> QED
        BY <1>0, <2>2, <4>1 DEF Lifecycle
    <3> QED
      BY <2>1, <3>1, <3>2, <3>3 DEF Live
  <2>3. CASE writer[f] # g
    <3>1. ~(Step(g) = "clunk" /\ f = op[g].base)
      BY <1>0, <1>11, <2>3, WriterMode
    <3>2. Closing(f)' <=> Closing(f)
      <4>1. CASE writer[f] = None
        BY <1>1, <4>1 DEF Closing
      <4>2. CASE writer[f] # None
        <5>1. writer[f] \in Caller \ {g}
          BY <1>0, <2>3, <4>2 DEF FilesType
        <5>2. op'[writer'[f]] = op[writer[f]]
          BY <1>1, <1>5, <5>1
        <5>3. Step(writer[f])' = Step(writer[f])
          BY <5>2 DEF Step
        <5> QED
          BY <1>1, <5>3 DEF Closing
      <4> QED
        BY <4>1, <4>2
    <3> QED
      BY <2>1, <3>1, <3>2 DEF Live
  <2> QED
    BY <2>2, <2>3
<1>23. PICK k0 \in {"pool", "late"} : (Pooled(j) <=> k0 = "pool")
  BY DEF Pooled
<1>24. Owned'
  <2>1. ASSUME NEW i, NEW l, NEW x, Has(l, x, i)'
        PROVE  IF i = j THEN l = k0 /\ x = None ELSE Has(l, x, i)
    <3>1. CASE l = "caller" /\ x \in Caller /\ i \in Held(x)'
      <4>1. CASE x = g
        <5>1. i \in Range(op'[g].own) \cup ({call'[g].new} \ {0})
          BY <3>1, <4>1 DEF Held
        <5>2. i \in Held(g)'
          BY <5>1 DEF Held
        <5>3. i \in Held(g) /\ i # j
          BY <1>21, <5>2
        <5>4. Has("caller", g, i)
          BY <5>3 DEF Has
        <5> QED
          BY <3>1, <4>1, <5>3, <5>4
      <4>2. CASE x # g
        <5>1. i \in Held(x)
          BY <1>21, <3>1, <4>2
        <5>2. i # j
          BY <1>7, <3>1, <4>2, <5>1
        <5> QED
          BY <3>1, <5>1, <5>2 DEF Has
      <4> QED
        BY <4>1, <4>2
    <3>2. CASE l = "file" /\ x \in File /\ Live(x)' /\ i = file'[x].fid
      <4>1. Live(x) /\ i = file[x].fid /\ ~(Step(g) = "clunk" /\ x = op[g].base)
        BY <1>22, <3>2
      <4>2. i # j
        BY <1>7, <3>2, <4>1
      <4> QED
        BY <3>2, <4>1, <4>2 DEF Has
    <3>3. CASE l = "pool" /\ x = None /\ i \in Range(reuse')
      <4>1. i \in Range(reuse) \/ (k0 = "pool" /\ i = j)
        BY <1>8, <1>23, <3>3
      <4>2. i = j => k0 = "pool"
        BY <1>7, <4>1
      <4> QED
        BY <3>3, <4>1, <4>2 DEF Has
    <3>4. CASE l = "late" /\ x = None /\ i \in late'
      <4>1. i \in late \/ (Lost(j) /\ i = j)
        BY <1>9, <3>4
      <4>2. i = j => k0 = "late"
        <5>1. ASSUME i = j PROVE ~Pooled(j)
          BY <1>7, <3>4, <5>1 DEF Pooled
        <5> QED
          BY <1>23, <5>1
      <4> QED
        BY <3>4, <4>1, <4>2 DEF Has
    <3>5. CASE l = "fresh" /\ x = None /\ i \in next' .. MaxFid
      BY <1>1, <1>7, <3>5 DEF Has
    <3> QED
      BY <2>1, <3>1, <3>2, <3>3, <3>4, <3>5 DEF Has
  <2>2. Gains(j, k0, None)
    BY <2>1 DEF Gains
  <2>3. \A f \in File : Live(f)' => file'[f].fid \in Fid
    BY <1>0, <1>22 DEF Owned
  <2> QED
    BY <1>0, <2>2, <2>3, OneGains
<1>25. ASSUME NEW i \in Fid PROVE FidBound(i)'
  <2>0. FidBound(i)
    BY <1>0 DEF Bindings
  <2>1. CASE i = j
    <3>1. bound'[i] \notin Caller /\ bound'[i] \notin File /\ (down => bound'[i] = None)
      BY <1>2, <2>1, ClientFilesAssumption
    <3>2. i \in Range(reuse') => bound'[i] \in Vacant
      BY <1>7, <1>8, <2>1 DEF Pooled
    <3>3. i \notin next' .. MaxFid
      BY <1>1, <1>7, <2>1
    <3> QED
      BY <1>1, <3>1, <3>2, <3>3 DEF FidBound
  <2>2. CASE i # j
    <3>1. bound'[i] = bound[i]
      BY <1>2, <2>2
    <3>2. ASSUME NEW h \in Caller, bound[i] = h PROVE i \in Held(h)'
      <4>1. i \in Held(h)
        BY <2>0, <3>2 DEF FidBound
      <4>2. CASE h = g
        <5>1. i \in Held(g)
          BY <4>1, <4>2
        <5>2. i \in Held(g)'
          BY <1>21, <2>2, <5>1
        <5>3. i \in Range(op'[g].own) \cup ({call'[g].new} \ {0})
          BY <5>2 DEF Held
        <5> QED
          BY <4>2, <5>3 DEF Held
      <4>3. CASE h # g
        BY <1>21, <4>1, <4>3
      <4> QED
        BY <4>2, <4>3
    <3>3. ASSUME NEW f \in File, bound[i] = f PROVE Live(f)' /\ i = file'[f].fid
      <4>1. Live(f) /\ i = file[f].fid
        BY <2>0, <3>3 DEF FidBound
      <4>2. ~(Step(g) = "clunk" /\ f = op[g].base)
        BY <1>1, <1>11, <2>2, <4>1 DEF GivesUp
      <4> QED
        BY <1>22, <4>1, <4>2
    <3>4. i \in Range(reuse') \/ i \in next' .. MaxFid => bound[i] \in Vacant
      BY <1>1, <1>8, <2>0, <2>2 DEF FidBound
    <3>5. down => bound[i] = None
      BY <2>0 DEF FidBound
    <3>6. bound'[i] \in Caller => i \in Held(bound[i])'
      <4>1. ASSUME NEW h \in Caller, bound'[i] = h PROVE i \in Range(op'[bound'[i]].own) \cup ({call'[bound'[i]].new} \ {0})
        BY <3>1, <3>2, <4>1 DEF Held
      <4> QED
        BY <4>1 DEF Held
    <3>7. bound'[i] \in File => Live(bound[i])' /\ i = file'[bound'[i]].fid
      <4>1. ASSUME NEW f \in File, bound'[i] = f
            PROVE  /\ i = file'[bound'[i]].fid
                   /\ \/ ~file'[bound'[i]].closed
                      \/ Closing(bound[i])'
        BY <3>1, <3>3, <4>1 DEF Live, Open, Closing, Step
      <4> QED
        BY <4>1 DEF Live, Open
    <3> QED
      BY <1>1, <3>1, <3>4, <3>5, <3>6, <3>7 DEF FidBound
  <2> QED
    BY <2>1, <2>2
<1>26. ASSUME NEW f \in File PROVE FileBound(f)'
  <2>0. FileBound(f)
    BY <1>0 DEF Bindings
  <2>1. ASSUME Open(f) PROVE bound'[file[f].fid] = bound[file[f].fid]
    <3>1. file[f].fid \in Fid /\ file[f].fid # j
      BY <1>0, <1>7, <2>1 DEF Owned, Live
    <3> QED
      BY <1>2, <3>1
  <2> QED
    BY <1>1, <1>22, <2>0, <2>1 DEF FileBound
<1>27. ASSUME NEW h \in Caller \ {g} PROVE CallerBound(h)' /\ Asks(h)'
  BY <1>1, <1>2, <1>6, <1>7, OthersBound
<1> QED
  BY <1>6, <1>8, <1>10, <1>15, <1>16, <1>18, <1>19, <1>20, <1>24, <1>25, <1>26, <1>27, Assemble

\* A walk that failed or was cancelled gives its number up.
LEMMA WalkEnds ==
  ASSUME FilesInv, NEW g \in Caller, WalkFails(g) \/ CancelWalk(g)
  PROVE  FilesInv'
<1>0. FilesType /\ Placed(g) /\ Asks(g) /\ Distinct /\ CallerBound(g)
  BY DEF FilesInv, Places, Requests, Bindings
<1> DEFINE j == call[g].new
<1>1. /\ Step(g) \in Walking /\ Waiting(g) /\ Release(j) /\ Unwind(g) /\ Done(g)
      /\ file' = file /\ readers' = readers /\ writer' = writer /\ late' = late /\ down' = down
  BY DEF WalkFails, CancelWalk, Fails, Locks, Server
<1>2. Step(g) \notin Cleaning /\ Step(g) # "clunk"
  BY <1>1 DEF Walking, Cleaning
<1>3. op[g].own \in Seq(Fid) /\ Mode(g) \in {"read", "conn"}
  BY <1>0, <1>1, StepFacts
<1>4. Mode(g) # "write"
  BY <1>3
<1>5. PICK todo \in Seq(Steps) : Goto(g, todo, op[g].own) /\ Outline(todo, Len(op[g].own), Mode(g))
  BY <1>0, <1>1, <1>4, UnwindScript
<1>6. j # 0 /\ j \in Held(g)
  <2>1. j # 0
    BY <1>0, <1>1 DEF Asks
  <2> QED
    BY <2>1 DEF Held
<1>7. j \in Fid
  BY <1>0, <1>6, HeldFid
<1>8. FidBound(j)
  BY <1>7 DEF FilesInv, Bindings
<1>9. bound \in [Fid -> {None, "cancelled", "quarantined"} \cup Caller \cup File]
  BY <1>0 DEF FilesType
<1>10. /\ bound' \in [Fid -> {None, "cancelled", "quarantined"} \cup Caller \cup File]
       /\ \A i \in Fid : i # j => bound'[i] = bound[i]
       /\ bound'[j] \in Vacant /\ (down => bound'[j] = None)
  <2>1. down => bound[j] = None
    BY <1>8 DEF FidBound
  <2>2. call[g].st # "ok" => bound[j] \in Vacant
    BY <1>0, <1>1 DEF CallerBound
  <2>3. CASE WalkFails(g)
    <3>1. bound' = bound /\ (call[g].st = "err" \/ down)
      BY <2>3 DEF WalkFails, Fails, Server
    <3> QED
      BY <1>9, <2>1, <2>2, <3>1 DEF Vacant
  <2>4. CASE CancelWalk(g)
    <3>1. bound' = IF call[g].st = "ok" /\ bound[j] = g
                     THEN [bound EXCEPT ![j] = "cancelled"] ELSE bound
      BY <2>4 DEF CancelWalk, Succeeds
    <3>2. CASE call[g].st = "ok" /\ bound[j] = g
      <4>1. bound' = [bound EXCEPT ![j] = "cancelled"]
        BY <3>1, <3>2
      <4>2. g # None
        BY ClientFilesAssumption
      <4> QED
        BY <1>7, <1>9, <2>1, <3>2, <4>1, <4>2 DEF Vacant
    <3>3. CASE ~(call[g].st = "ok" /\ bound[j] = g)
      <4>1. bound' = bound
        BY <3>1, <3>3
      <4>2. call[g].st = "ok" => down
        BY <1>0, <1>1, <3>3 DEF CallerBound
      <4> QED
        BY <1>9, <2>1, <2>2, <4>1, <4>2 DEF Vacant
    <3> QED
      BY <3>2, <3>3
  <2> QED
    BY <2>3, <2>4
<1>11. \A i \in Range(op[g].own) : down \/ bound[i] = g
  BY <1>0, <1>2 DEF CallerBound
<1>12. \A i : i \in Range(op[g].own) <=> i \in Held(g) /\ i # j
  BY <1>0, <1>6 DEF Held, Distinct
<1>13. /\ next' = next /\ (reuse' = IF Len(reuse) < ReuseCap THEN Append(reuse, j) ELSE reuse)
  BY <1>1 DEF Release
<1>14. Pooled(j) \/ Lost(j)
  BY <1>1, <1>10, <1>13 DEF Pooled, Lost
<1>15. bound'[j] \in {None, "cancelled", "quarantined"} /\ IsInjective(op[g].own)
  BY <1>0, <1>10 DEF Vacant, Distinct
<1>16. GivesUp(g, j) /\ Quiet(g)
  BY <1>1, <1>4, <1>6 DEF GivesUp, Quiet
<1> HIDE DEF j
<1>17. Frees(g, j, todo, op[g].own)
  BY <1>1, <1>2, <1>5, <1>10, <1>11, <1>12, <1>13, <1>15, <1>16 DEF Frees
<1> QED
  BY <1>3, <1>14, <1>17, FreeOn

\* What a cleaning step takes from the operation.
LEMMA Cleaned ==
  ASSUME FilesInv, NEW g \in Caller, Step(g) \in Cleaning, Waiting(g),
         Advance(g, OwnAfterClean(g)), Done(g), UNCHANGED <<next, file, readers, writer, down>>,
         bound' \in [Fid -> {None, "cancelled", "quarantined"} \cup Caller \cup File],
         \A i \in Fid : i # Retired(g) => bound'[i] = bound[i],
         bound'[Retired(g)] \in {None, "cancelled", "quarantined"},
         down => bound'[Retired(g)] = None
  PROVE  /\ OwnAfterClean(g) \in Seq(Fid) /\ Tail(op[g].todo) \in Seq(Steps)
         /\ Frees(g, Retired(g), Tail(op[g].todo), OwnAfterClean(g))
<1>0. FilesType /\ Placed(g) /\ Lifecycle /\ Asks(g) /\ Distinct /\ CallerBound(g)
  BY DEF FilesInv, Places, Requests, Bindings
<1> DEFINE j == Retired(g)
           own == op[g].own
           todo == Tail(op[g].todo)
<1>1. Step(g) \notin Walking /\ Step(g) # "idle"
  BY DEF Walking, Cleaning
<1>2. /\ own \in Seq(Fid) /\ (op[g].todo # <<>> => todo \in Seq(Steps))
      /\ Step(g) = "idle" <=> op[g].todo = <<>>
      /\ Step(g) \in {"clean", "clean1"} => Mode(g) # "write" /\ own # <<>> /\ Outline(todo, Len(own) - 1, Mode(g))
      /\ Step(g) = "clunk" => own = <<>> /\ Mode(g) = "write" /\ Outline(todo, 0, "write")
  BY <1>0, StepFacts
<1>3. call[g].new = 0
  BY <1>0, <1>1 DEF Asks
<1>4. \A i : i \in Held(g) <=> i \in Range(own)
  BY <1>3 DEF Held
<1>5. IsInjective(own) /\ \A i \in Range(own) : i # j => down \/ bound[i] = g
  BY <1>0 DEF Distinct, CallerBound
<1>6. /\ OwnAfterClean(g) \in Seq(Fid) /\ IsInjective(OwnAfterClean(g))
      /\ \A i : i \in Range(OwnAfterClean(g)) <=> i \in Range(own) /\ i # j
      /\ Outline(todo, Len(OwnAfterClean(g)), Mode(g))
  <2>1. CASE Step(g) = "clean"
    <3>1. OwnAfterClean(g) = Front(own) /\ j = Last(own) /\ own # <<>>
      BY <1>2, <2>1 DEF OwnAfterClean, Retired
    <3>2. /\ Front(own) \in Seq(Fid) /\ Len(Front(own)) = Len(own) - 1
          /\ \A i \in Range(Front(own)) : i \in Range(own)
          /\ \A i \in Range(own) : i \in Range(Front(own)) \/ i = Last(own)
          /\ IsInjective(Front(own)) /\ Last(own) \notin Range(Front(own))
      BY <1>2, <1>5, <3>1, FrontFids
    <3> HIDE DEF j, own
    <3> QED
      BY <1>2, <2>1, <3>1, <3>2
  <2>2. CASE Step(g) = "clean1"
    <3>1. OwnAfterClean(g) = Tail(own) /\ j = Head(own) /\ own # <<>>
      BY <1>2, <2>2 DEF OwnAfterClean, Retired
    <3>2. /\ Tail(own) \in Seq(Fid) /\ Len(Tail(own)) = Len(own) - 1
          /\ \A i \in Range(Tail(own)) : i \in Range(own)
          /\ \A i \in Range(own) : i \in Range(Tail(own)) \/ i = Head(own)
          /\ IsInjective(Tail(own)) /\ Head(own) \notin Range(Tail(own))
      BY <1>2, <1>5, <3>1, TailFids
    <3> HIDE DEF j, own
    <3> QED
      BY <1>2, <2>2, <3>1, <3>2
  <2>3. CASE Step(g) = "clunk"
    <3>1. OwnAfterClean(g) = <<>> /\ own = <<>> /\ Mode(g) = "write"
      BY <1>2, <2>3 DEF OwnAfterClean
    <3>2. <<>> \in Seq(Fid) /\ Len(<<>>) = 0 /\ IsInjective(<<>>) /\ \A i : i \notin Range(<<>>)
      BY <1>2, FewFids
    <3> HIDE DEF j, own
    <3> QED
      BY <1>2, <2>3, <3>1, <3>2
  <2> QED
    BY <2>1, <2>2, <2>3 DEF Cleaning
<1>7. Step(g) = "clunk" => todo = <<"unlock">>
  <2>1. ASSUME Step(g) = "clunk" PROVE todo = <<"unlock">>
    <3>1. op[g].base \in File /\ writer[op[g].base] = g /\ g # None
      BY <2>1, RetiredFacts, ClientFilesAssumption
    <3> QED
      BY <1>0, <2>1, <3>1 DEF Lifecycle
  <2> QED
    BY <2>1
<1>8. GivesUp(g, j)
  BY <1>2, RetiredFacts DEF GivesUp, Cleaning
<1>9. Goto(g, todo, OwnAfterClean(g)) /\ Quiet(g)
  BY DEF Advance, Quiet
<1>10. \A i \in Range(OwnAfterClean(g)) : down \/ bound[i] = g
  BY <1>5, <1>6
<1>11. \A i : i \in Range(OwnAfterClean(g)) <=> i \in Held(g) /\ i # j
  BY <1>4, <1>6
<1>12. Frees(g, j, todo, OwnAfterClean(g))
  BY <1>6, <1>7, <1>8, <1>9, <1>10, <1>11 DEF Frees
<1> QED
  BY <1>1, <1>2, <1>6, <1>12

\* A Tclunk that is answered frees the number, one that is not loses it.
LEMMA CleanEnds ==
  ASSUME FilesInv, NEW g \in Caller, CleanReturns(g) \/ CleanTimeout(g)
  PROVE  FilesInv'
<1>0. FilesType /\ Bindings /\ CallerBound(g)
  BY DEF FilesInv, Bindings
<1> DEFINE j == Retired(g)
<1>1. /\ Step(g) \in Cleaning /\ Advance(g, OwnAfterClean(g)) /\ Done(g)
      /\ UNCHANGED <<next, file, readers, writer, down>>
  BY DEF CleanReturns, CleanTimeout, Release, Numbers, Locks, Server
<1>2. Waiting(g)
  <2>1. NoCall.st = "none"
    BY DEF NoCall
  <2> QED
    BY <2>1 DEF CleanReturns, CleanTimeout, Succeeds, Fails, Waiting
<1>3. j \in Fid
  BY <1>1, RetiredFacts
<1>4. down => bound[j] = None
  BY <1>0, <1>3 DEF Bindings, FidBound
<1>5. bound \in [Fid -> {None, "cancelled", "quarantined"} \cup Caller \cup File]
  BY <1>0 DEF FilesType
<1>6. CASE CleanReturns(g)
  <2>1. /\ bound' = bound /\ late' = late
        /\ reuse' = IF Len(reuse) < ReuseCap THEN Append(reuse, j) ELSE reuse
    BY <1>6 DEF CleanReturns, Release, Server
  <2>2. bound[j] = None
    <3>1. call[g].st = "ok" \/ call[g].st = "err" \/ down
      BY <1>6 DEF CleanReturns, Succeeds, Fails
    <3> QED
      BY <1>0, <1>1, <1>2, <1>4, <3>1 DEF CallerBound
  <2>3. Pooled(j) \/ Lost(j)
    BY <2>1, <2>2 DEF Pooled, Lost, Vacant
  <2>4. /\ OwnAfterClean(g) \in Seq(Fid) /\ Tail(op[g].todo) \in Seq(Steps)
        /\ Frees(g, j, Tail(op[g].todo), OwnAfterClean(g))
    BY <1>1, <1>2, <1>5, <2>1, <2>2, Cleaned
  <2> QED
    BY <2>3, <2>4, FreeOn
<1>7. CASE CleanTimeout(g)
  <2>1. /\ reuse' = reuse /\ (late' = late \/ late' = late \cup {j})
        /\ bound' = [bound EXCEPT ![j] = IF bound[j] = None THEN None ELSE "quarantined"]
    BY <1>7 DEF CleanTimeout, Numbers
  <2>2. /\ bound' \in [Fid -> {None, "cancelled", "quarantined"} \cup Caller \cup File]
        /\ \A i \in Fid : i # j => bound'[i] = bound[i]
        /\ bound'[j] \in {None, "cancelled", "quarantined"}
        /\ bound[j] = None => bound'[j] = None
    BY <1>3, <1>5, <2>1
  <2>3. Lost(j)
    BY <2>1 DEF Lost
  <2>4. /\ OwnAfterClean(g) \in Seq(Fid) /\ Tail(op[g].todo) \in Seq(Steps)
        /\ Frees(g, j, Tail(op[g].todo), OwnAfterClean(g))
    BY <1>1, <1>2, <1>4, <2>2, Cleaned
  <2> QED
    BY <2>3, <2>4, FreeOn
<1> QED
  BY <1>6, <1>7

-----------------------------------------------------------------------------
(* The server by itself *)

\* A late Tclunk unbinds a number nobody has.
LEMMA ServeLateStep ==
  ASSUME FilesInv, NEW j \in Fid, ServeLate(j)
  PROVE  FilesInv'
<1>0. FilesType /\ Places /\ Lifecycle /\ Owned /\ Distinct /\ Bindings
  BY DEF FilesInv
<1>1. /\ next' = next /\ reuse' = reuse /\ file' = file /\ readers' = readers
      /\ writer' = writer /\ op' = op /\ call' = call /\ down' = down
      /\ j \in late /\ ~down /\ bound' = [bound EXCEPT ![j] = None] /\ late' = late \ {j}
  BY DEF ServeLate, Numbers, Locks
<1>2. /\ bound' \in [Fid -> {None, "cancelled", "quarantined"} \cup Caller \cup File]
      /\ bound'[j] = None /\ \A i \in Fid : i # j => bound'[i] = bound[i]
  BY <1>0, <1>1 DEF FilesType
<1>3. Turn(None) /\ None \notin Caller /\ None \notin File
  BY <1>1, ClientFilesAssumption DEF Turn
<1>4. FilesType'
  BY <1>0, <1>1, <1>2 DEF FilesType
<1>5. Lifecycle' /\ IsInjective(reuse)'
  BY <1>0, <1>1 DEF Lifecycle, Open, Step, Distinct
<1>6. \A h \in Caller : Held(h)' = Held(h)
  BY <1>1 DEF Held
<1>7. \A f \in File : (Live(f)' <=> Live(f)) /\ (Open(f)' <=> Open(f)) /\ file'[f] = file[f]
  BY <1>1 DEF Live, Open, Closing, Step
<1>8. Owned'
  BY <1>0, <1>1, <1>6, <1>7, NobodyGains
<1>9. Has("late", None, j)
  BY <1>1 DEF Has
<1>10. \A k, x : Has(k, x, j) => k = "late"
  BY <1>0, <1>9 DEF Owned
<1>11. /\ \A h \in Caller : j \notin Held(h)
       /\ \A f \in File : Live(f) => j # file[f].fid
  <2>1. ASSUME NEW h \in Caller, j \in Held(h) PROVE FALSE
    <3>1. Has("caller", h, j)
      BY <2>1 DEF Has
    <3> QED
      BY <1>10, <3>1
  <2>2. ASSUME NEW f \in File, Live(f), j = file[f].fid PROVE FALSE
    <3>1. Has("file", f, j)
      BY <2>2 DEF Has
    <3> QED
      BY <1>10, <3>1
  <2> QED
    BY <2>1, <2>2
<1>12. ASSUME NEW i \in Fid PROVE FidBound(i)'
  <2>0. FidBound(i)
    BY <1>0 DEF Bindings
  <2>1. CASE i = j
    BY <1>2, <1>3, <2>1 DEF FidBound, Vacant
  <2>2. CASE i # j
    <3>1. bound'[i] = bound[i]
      BY <1>2, <2>2
    <3> QED
      BY <1>1, <1>6, <1>7, <2>0, <3>1 DEF FidBound
  <2> QED
    BY <2>1, <2>2
<1>13. ASSUME NEW f \in File PROVE FileBound(f)'
  <2>0. FileBound(f)
    BY <1>0 DEF Bindings
  <2>1. ASSUME Open(f) PROVE bound'[file[f].fid] = bound[file[f].fid]
    <3>1. file[f].fid \in Fid /\ file[f].fid # j
      BY <1>0, <1>11, <2>1 DEF Owned, Live
    <3> QED
      BY <1>2, <3>1
  <2> QED
    BY <1>1, <1>7, <2>0, <2>1 DEF FileBound
<1>14. ASSUME NEW h \in Caller \ {None} PROVE CallerBound(h)' /\ Asks(h)'
  <2>1. ASSUME Step(h) = "clunk" PROVE j # file[op[h].base].fid
    <3>1. op[h].base \in File /\ Live(op[h].base)
      BY <2>1, RetiredFacts DEF Cleaning
    <3> QED
      BY <1>11, <3>1
  <2> QED
    BY <1>1, <1>2, <1>3, <1>11, <2>1, OthersBound
<1> QED
  BY <1>3, <1>4, <1>5, <1>8, <1>12, <1>13, <1>14, Assemble

\* The connection shuts down.
LEMMA ShutdownStep ==
  ASSUME FilesInv, Shutdown
  PROVE  FilesInv'
<1>0. FilesType /\ Places /\ Lifecycle /\ Requests /\ Owned /\ Distinct /\ Bindings
  BY DEF FilesInv
<1>1. /\ next' = next /\ reuse' = reuse /\ file' = file /\ readers' = readers
      /\ writer' = writer /\ op' = op /\ call' = call /\ down' = TRUE
      /\ bound' = [i \in Fid |-> None] /\ late' = {}
  BY DEF Shutdown, Numbers, Locks
<1>2. /\ bound' \in [Fid -> {None, "cancelled", "quarantined"} \cup Caller \cup File]
      /\ \A i \in Fid : bound'[i] = None
  BY <1>1
<1>3. Turn(None) /\ None \notin Caller /\ None \notin File
  BY <1>1, ClientFilesAssumption DEF Turn
<1>4. FilesType'
  BY <1>0, <1>1, <1>2 DEF FilesType
<1>5. Lifecycle' /\ IsInjective(reuse)'
  BY <1>0, <1>1 DEF Lifecycle, Open, Step, Distinct
<1>6. \A h \in Caller : Held(h)' = Held(h)
  BY <1>1 DEF Held
<1>7. \A f \in File : (Live(f)' <=> Live(f)) /\ file'[f] = file[f]
  BY <1>1 DEF Live, Open, Closing, Step
<1>8. Owned'
  BY <1>0, <1>1, <1>6, <1>7, NobodyGains
<1>9. \A i \in Fid : FidBound(i)'
  BY <1>1, <1>2, <1>3 DEF FidBound, Vacant
<1>10. \A f \in File : FileBound(f)'
  BY <1>1 DEF FileBound
<1>11. ASSUME NEW h \in Caller \ {None} PROVE CallerBound(h)' /\ Asks(h)'
  <2>1. Asks(h)' /\ (Step(h) \in Cleaning => Retired(h)' = Retired(h))
    BY <1>0, <1>1, <1>3, OthersAsk
  <2>2. Step(h)' = Step(h) /\ (Waiting(h)' <=> Waiting(h)) /\ call'[h] = call[h]
    BY <1>0, <1>1, <1>3, OthersStay
  <2>3. Waiting(h) /\ Step(h) \in Walking => bound'[call[h].new] = None
    <3>1. Waiting(h) /\ Step(h) \in Walking => call[h].new # 0
      BY <1>0 DEF Requests, Asks
    <3>2. call[h].new # 0 => call[h].new \in Held(h)
      BY DEF Held
    <3>3. call[h].new # 0 => call[h].new \in Fid
      BY <1>0, <3>2, HeldFid
    <3> QED
      BY <1>2, <3>1, <3>3
  <2>4. Step(h) \in Cleaning => bound'[Retired(h)] = None
    BY <1>2, RetiredFacts
  <2>5. CallerBound(h)'
    BY <1>1, <2>1, <2>2, <2>3, <2>4 DEF CallerBound, Vacant
  <2> QED
    BY <2>1, <2>5
<1> QED
  BY <1>3, <1>4, <1>5, <1>8, <1>9, <1>10, <1>11, Assemble

-----------------------------------------------------------------------------
(* Files come and go *)

\* g has no number and moves none.
Empty(g) ==
  /\ op[g].own = <<>> /\ op'[g].own = <<>> /\ ~Waiting(g)
  /\ UNCHANGED <<next, reuse, call, bound, late, down>>
  /\ \A f \in File : /\ Live(f)' <=> Live(f)
                     /\ Live(f) => file'[f].fid = file[f].fid
                     /\ Open(f)' => Open(f)
  /\ \A h \in Caller \ {g} : Mode(h) \in {"read", "write"} => file'[op[h].base].fid = file[op[h].base].fid

\* Such a step leaves every number where it was.
LEMMA EmptyOn ==
  ASSUME FilesInv, NEW g \in Caller, Turn(g), FilesType', Lifecycle', Placed(g)', Empty(g)
  PROVE  FilesInv'
<1>0. FilesType /\ Places /\ Requests /\ Owned /\ Distinct /\ Bindings
  BY DEF FilesInv
<1>1. /\ op[g].own = <<>> /\ op'[g].own = <<>> /\ call[g] = NoCall /\ call' = call
      /\ next' = next /\ reuse' = reuse /\ bound' = bound /\ late' = late /\ down' = down
  BY DEF Empty, Waiting
<1>2. \A f \in File : /\ Live(f)' <=> Live(f)
                      /\ Live(f) => file'[f].fid = file[f].fid
                      /\ Open(f)' => Open(f)
  BY DEF Empty
<1>3. \A h \in Caller : op'[h].own = op[h].own
  BY <1>1 DEF Turn
<1>4. \A h \in Caller : Held(h)' = Held(h)
  BY <1>1, <1>3 DEF Held
<1>5. Owned'
  BY <1>0, <1>1, <1>2, <1>4, NobodyGains
<1>6. NoCall.new = 0
  BY DEF NoCall
<1>7. ~Waiting(g)' /\ call'[g].new = 0
  BY <1>1, <1>6 DEF Waiting
<1>8. Asks(g)'
  BY <1>7 DEF Asks
<1>9. /\ IsInjective(reuse)' /\ IsInjective(op'[g].own)
      /\ call'[g].new \notin Range(op'[g].own)
  BY <1>0, <1>1 DEF Distinct
<1>10. \A i : i \notin Range(<<>>)
  <2>1. op[g].own \in Seq(Fid)
    BY <1>0 DEF FilesType, OpType
  <2> QED
    BY <2>1, FewFids
<1>11. CallerBound(g)'
  BY <1>1, <1>7, <1>10 DEF CallerBound
<1>12. ASSUME NEW i \in Fid PROVE FidBound(i)'
  <2>0. FidBound(i)
    BY <1>0 DEF Bindings
  <2>1. bound[i] \in Caller => i \in Held(bound[i])'
    BY <1>1, <1>4, <2>0 DEF FidBound
  <2>2. bound[i] \in File => Live(bound[i])' /\ i = file'[bound[i]].fid
    BY <1>1, <1>2, <2>0 DEF FidBound
  <2> QED
    BY <1>1, <2>0, <2>1, <2>2 DEF FidBound
<1>13. ASSUME NEW f \in File PROVE FileBound(f)'
  <2>0. FileBound(f)
    BY <1>0 DEF Bindings
  <2>1. Open(f) => Live(f)
    BY DEF Live
  <2>2. Open(f)' => Open(f) /\ file'[f].fid = file[f].fid
    BY <1>2, <2>1
  <2> QED
    BY <1>1, <2>0, <2>2 DEF FileBound
<1>14. ASSUME NEW h \in Caller \ {g} PROVE CallerBound(h)' /\ Asks(h)'
  <2>1. 0 \notin Fid
    BY SMT DEF Fid
  <2>2. 0 \notin Held(h)
    BY <1>0, <2>1, HeldFid
  <2>3. Step(h) = "clunk" => 0 # file[op[h].base].fid
    <3>1. ASSUME Step(h) = "clunk" PROVE file[op[h].base].fid \in Fid
      BY <3>1, RetiredFacts DEF Cleaning
    <3> QED
      BY <2>1, <3>1
  <2>4. Mode(h) \in {"read", "write"} => file'[op[h].base].fid = file[op[h].base].fid
    BY DEF Empty
  <2> QED
    BY <1>1, <2>2, <2>3, <2>4, OthersBound
<1> QED
  BY <1>5, <1>8, <1>9, <1>11, <1>12, <1>13, <1>14, Assemble

\* Who does not close a File is not its writer, and other writers stay.
LEMMA WritersStay ==
  ASSUME FilesType, Lifecycle, NEW g \in Caller, NEW f \in File, writer[f] # g, writer'[f] = writer[f],
         \A h \in Caller \ {g} : op'[h] = op[h]
  PROVE  /\ Closing(f)' <=> Closing(f)
         /\ writer[f] # None =>
              /\ op'[writer'[f]].base = f
              /\ Step(writer[f])' = "clunk" => Tail(op'[writer'[f]].todo) = <<"unlock">>
<1>1. CASE writer[f] = None
  BY <1>1 DEF Closing
<1>2. CASE writer[f] # None
  <2>1. writer[f] \in Caller \ {g}
    BY <1>2 DEF FilesType
  <2>2. op'[writer'[f]] = op[writer[f]]
    BY <2>1
  <2>3. Step(writer[f])' = Step(writer[f])
    BY <2>2 DEF Step
  <2>4. /\ op[writer[f]].base = f
        /\ Step(writer[f]) = "clunk" => Tail(op[writer[f]].todo) = <<"unlock">>
    BY <1>2 DEF Lifecycle
  <2> QED
    BY <2>2, <2>3, <2>4 DEF Closing
<1> QED
  BY <1>1, <1>2

\* An operation starts.
LEMMA StartStep ==
  ASSUME FilesInv, NEW g \in Caller, NEW script \in Scripts, NEW b \in File \cup {None},
         Start(g, script, b)
  PROVE  FilesInv'
<1>0. FilesType /\ Places /\ Lifecycle /\ Asks(g)
  BY DEF FilesInv, Requests
<1>1. /\ op[g] = Idle
      /\ op' = [op EXCEPT ![g] = [todo |-> script, base |-> b, own |-> <<>>]]
      /\ next' = next /\ reuse' = reuse /\ file' = file /\ readers' = readers /\ writer' = writer
      /\ call' = call /\ bound' = bound /\ late' = late /\ down' = down
      /\ script = Attach <=> b = None
  <2>1. script = Attach <=> b = None
    <3>1. Attach \notin ConnScripts /\ Attach \notin FileScripts
      BY SMT DEF Attach, ConnScripts, FileScripts, OpenFile, Create, Mkdir, Symlink, Mknod, Rename, Link,
                 RemovePath, Walk, Clone, XattrGet, XattrSet, FileIO, FileCall, Lock, Close
    <3> QED
      BY <3>1 DEF Start
  <2> QED
    BY <2>1 DEF Start, Numbers, Server
<1>2. op[g].todo = <<>> /\ op[g].own = <<>> /\ op[g].base = None
  <2>1. Idle.todo = <<>> /\ Idle.own = <<>> /\ Idle.base = None
    BY DEF Idle
  <2> QED
    BY <1>1, <2>1
<1>3. Step(g) = "idle"
  BY <1>2 DEF Step
<1>4. ~Waiting(g)
  BY <1>0, <1>3 DEF Asks, Walking, Using, Cleaning
<1>5. script \in Seq(Steps) /\ Outline(script, 0, IF b = None THEN "conn" ELSE "none")
  BY <1>1, ScriptOutlines
<1>6. <<>> \in Seq(Fid) /\ Len(<<>>) = 0
  BY SMT
<1>7. /\ op' \in [Caller -> OpType] /\ op'[g].todo = script /\ op'[g].base = b /\ op'[g].own = <<>>
      /\ \A h \in Caller \ {g} : op'[h] = op[h]
  <2>1. [todo |-> script, base |-> b, own |-> <<>>] \in OpType
    BY <1>5, <1>6 DEF OpType
  <2> QED
    BY <1>0, <1>1, <2>1 DEF FilesType
<1>8. Turn(g)
  BY <1>1, <1>7 DEF Turn
<1>9. FilesType'
  BY <1>0, <1>1, <1>7 DEF FilesType
<1>10. \A f \in File : f # None /\ writer[f] # g /\ g \notin readers[f]
  <2>1. None \notin File /\ g # None
    BY ClientFilesAssumption
  <2> QED
    BY <1>0, <1>2, <2>1 DEF Lifecycle
<1>11. \A f \in File : (Open(f)' <=> Open(f)) /\ (Closing(f)' <=> Closing(f)) /\ file'[f] = file[f]
  BY <1>0, <1>1, <1>7, <1>10, WritersStay DEF Open
<1>12. Lifecycle'
  <2> SUFFICES ASSUME NEW f \in File
               PROVE  /\ \A h \in readers'[f] : op'[h].base = f
                      /\ readers'[f] # {} => Open(f)'
                      /\ writer'[f] # None =>
                           /\ op'[writer'[f]].base = f /\ readers'[f] = {} /\ ~Open(f)'
                           /\ Step(writer[f])' = "clunk" => Tail(op'[writer'[f]].todo) = <<"unlock">>
    BY DEF Lifecycle
  <2>1. writer[f] # None =>
          /\ op'[writer'[f]].base = f
          /\ Step(writer[f])' = "clunk" => Tail(op'[writer'[f]].todo) = <<"unlock">>
    BY <1>0, <1>1, <1>7, <1>10, WritersStay
  <2>2. ASSUME NEW h \in readers[f] PROVE op'[h].base = f
    <3>1. h \in Caller \ {g}
      BY <1>0, <1>10 DEF FilesType
    <3> QED
      BY <1>0, <1>7, <3>1 DEF Lifecycle
  <2>3. /\ readers[f] # {} => Open(f)
        /\ writer[f] # None => readers[f] = {} /\ ~Open(f)
    BY <1>0 DEF Lifecycle
  <2> QED
    BY <1>1, <1>11, <2>1, <2>2, <2>3
<1>13. Placed(g)'
  <2>1. Mode(g)' = IF b = None THEN "conn" ELSE "none"
    BY <1>1, <1>7, <1>10 DEF Mode
  <2> QED
    BY <1>5, <1>6, <1>7, <2>1 DEF Placed
<1>14. Empty(g)
  BY <1>1, <1>2, <1>4, <1>7, <1>11 DEF Empty, Live
<1> QED
  BY <1>8, <1>9, <1>12, <1>13, <1>14, EmptyOn

\* Close takes the lock: the File is no longer open, and its fid is still there
\* for the Tclunk.
LEMMA CloseLockStep ==
  ASSUME FilesInv, NEW g \in Caller, CloseLock(g)
  PROVE  FilesInv'
<1>0. FilesType /\ Placed(g) /\ Lifecycle
  BY DEF FilesInv, Places
<1> DEFINE b == op[g].base
           todo == IF file[b].closed THEN <<"unlock">> ELSE <<"clunk", "unlock">>
<1>1. /\ next' = next /\ reuse' = reuse /\ readers' = readers /\ call' = call
      /\ bound' = bound /\ late' = late /\ down' = down
      /\ Step(g) = "close" /\ call[g] = NoCall /\ readers[b] = {} /\ writer[b] = None
      /\ writer' = [writer EXCEPT ![b] = g] /\ file' = [file EXCEPT ![b].closed = TRUE]
      /\ Goto(g, todo, <<>>)
  BY DEF CloseLock, At, Numbers, Server
<1>2. op[g].own = <<>> /\ Mode(g) = "none"
  BY <1>0, <1>1, StepFacts
<1>3. b \in File /\ b # None /\ g # None
  BY <1>0, <1>2, ClientFilesAssumption DEF Mode, FilesType, OpType
<1>4. todo \in Seq(Steps) /\ todo # <<>> /\ Outline(todo, 0, "write")
  BY ScriptOutlines
<1>5. <<>> \in Seq(Fid) /\ Len(<<>>) = 0
  BY SMT
<1>6. /\ Head(<<"unlock">>) = "unlock" /\ Head(<<"clunk", "unlock">>) = "clunk"
      /\ Tail(<<"clunk", "unlock">>) = <<"unlock">>
  BY SMT
<1>7. Head(todo) = "clunk" <=> ~file[b].closed
  BY <1>6
<1>8. Head(todo) = "clunk" => Tail(todo) = <<"unlock">>
  BY <1>6
<1> HIDE DEF todo
<1>9. /\ op' \in [Caller -> OpType]
      /\ op'[g].todo = todo /\ op'[g].own = <<>> /\ op'[g].base = b
      /\ \A h \in Caller \ {g} : op'[h] = op[h]
  BY <1>0, <1>1, <1>4, <1>5, GotoOp
<1>10. /\ writer' \in [File -> Caller \cup {None}] /\ writer'[b] = g
       /\ \A f \in File : f # b => writer'[f] = writer[f]
  BY <1>0, <1>1, <1>3 DEF FilesType
<1>11. /\ file' \in [File -> [fid : 0 .. MaxFid, closed : BOOLEAN]]
       /\ file'[b].closed /\ file'[b].fid = file[b].fid
       /\ \A f \in File : f # b => file'[f] = file[f]
  <2>1. file \in [File -> [fid : 0 .. MaxFid, closed : BOOLEAN]]
    BY <1>0 DEF FilesType
  <2>2. file' = [file EXCEPT ![b] = [file[b] EXCEPT !.closed = TRUE]]
    BY <1>1, <1>3, <2>1
  <2>3. /\ [file[b] EXCEPT !.closed = TRUE] \in [fid : 0 .. MaxFid, closed : BOOLEAN]
        /\ [file[b] EXCEPT !.closed = TRUE].closed = TRUE
        /\ [file[b] EXCEPT !.closed = TRUE].fid = file[b].fid
    <3>1. file[b] \in [fid : 0 .. MaxFid, closed : BOOLEAN]
      BY <1>3, <2>1
    <3> QED
      BY <3>1
  <2> QED
    BY <1>3, <2>1, <2>2, <2>3
<1>12. Turn(g)
  <2>1. ASSUME NEW h \in Caller \ {g}, NEW f \in File PROVE writer'[f] = h <=> writer[f] = h
    <3>1. CASE f = b
      <4>1. h # None
        BY ClientFilesAssumption
      <4> QED
        BY <1>1, <1>10, <3>1, <4>1
    <3>2. CASE f # b
      BY <1>10, <3>2
    <3> QED
      BY <3>1, <3>2
  <2> QED
    BY <1>1, <1>9, <2>1 DEF Turn
<1>13. FilesType'
  BY <1>0, <1>1, <1>9, <1>10, <1>11 DEF FilesType
<1>14. \A f \in File : writer[f] # g
  BY <1>0, <1>2, WriterMode
<1>15. Step(g)' = Head(todo)
  BY <1>4, <1>9 DEF Step
<1>16. ASSUME NEW f \in File
       PROVE  /\ Live(f)' <=> Live(f)
              /\ file'[f].fid = file[f].fid
              /\ Open(f)' <=> Open(f) /\ f # b
  <2>1. CASE f = b
    <3>1. ~Closing(f)
      BY <1>1, <2>1 DEF Closing
    <3>2. ~Open(f)'
      BY <1>11, <2>1 DEF Open
    <3>3. op'[writer'[f]].todo = todo /\ writer'[f] # None
      BY <1>3, <1>9, <1>10, <2>1
    <3>4. Step(writer[f])' = Head(todo)
      BY <1>4, <3>3 DEF Step
    <3>5. Closing(f)' <=> ~file[f].closed
      BY <1>7, <2>1, <3>3, <3>4 DEF Closing
    <3> QED
      BY <1>11, <2>1, <3>1, <3>2, <3>5 DEF Live, Open
  <2>2. CASE f # b
    <3>1. writer'[f] = writer[f] /\ file'[f] = file[f] /\ writer[f] # g
      BY <1>10, <1>11, <1>14, <2>2
    <3>2. Closing(f)' <=> Closing(f)
      BY <1>0, <1>9, <3>1, WritersStay
    <3> QED
      BY <2>2, <3>1, <3>2 DEF Live, Open
  <2> QED
    BY <2>1, <2>2
<1>17. Lifecycle'
  <2> SUFFICES ASSUME NEW f \in File
               PROVE  /\ \A h \in readers'[f] : op'[h].base = f
                      /\ readers'[f] # {} => Open(f)'
                      /\ writer'[f] # None =>
                           /\ op'[writer'[f]].base = f /\ readers'[f] = {} /\ ~Open(f)'
                           /\ Step(writer[f])' = "clunk" => Tail(op'[writer'[f]].todo) = <<"unlock">>
    BY DEF Lifecycle
  <2>1. CASE f = b
    <3>1. readers'[f] = {} /\ ~Open(f)'
      BY <1>1, <1>16, <2>1
    <3>2. op'[writer'[f]].todo = todo /\ op'[writer'[f]].base = f
      BY <1>9, <1>10, <2>1
    <3>3. Step(writer[f])' = Head(todo)
      BY <1>4, <3>2 DEF Step
    <3> QED
      BY <1>8, <3>1, <3>2, <3>3
  <2>2. CASE f # b
    <3>1. writer'[f] = writer[f] /\ (Open(f)' <=> Open(f)) /\ readers'[f] = readers[f]
      BY <1>1, <1>10, <1>16, <2>2
    <3>2. writer[f] # None =>
            /\ op'[writer'[f]].base = f
            /\ Step(writer[f])' = "clunk" => Tail(op'[writer'[f]].todo) = <<"unlock">>
      BY <1>0, <1>9, <1>14, <3>1, WritersStay
    <3>3. ASSUME NEW h \in readers[f] PROVE op'[h].base = f
      <4>1. h \in Caller /\ op[h].base = f
        BY <1>0 DEF FilesType, Lifecycle
      <4> QED
        BY <1>9, <2>2, <4>1
    <3>4. /\ readers[f] # {} => Open(f)
          /\ writer[f] # None => readers[f] = {} /\ ~Open(f)
      BY <1>0 DEF Lifecycle
    <3> QED
      BY <3>1, <3>2, <3>3, <3>4
  <2> QED
    BY <2>1, <2>2
<1>18. Placed(g)'
  <2>1. Mode(g)' = "write"
    BY <1>1, <1>3, <1>9, <1>10 DEF Mode
  <2> QED
    BY <1>4, <1>5, <1>9, <2>1 DEF Placed
<1>19. \A h \in Caller \ {g} : Mode(h) \in {"read", "write"} => file'[op[h].base].fid = file[op[h].base].fid
  <2>1. \A h \in Caller : Mode(h) \in {"read", "write"} => op[h].base \in File
    BY <1>0 DEF FilesType, OpType, Mode
  <2> QED
    BY <1>16, <2>1
<1>20. ~Waiting(g)
  BY <1>1 DEF Waiting
<1>21. Empty(g)
  BY <1>1, <1>2, <1>9, <1>16, <1>19, <1>20 DEF Empty
<1> QED
  BY <1>12, <1>13, <1>17, <1>18, <1>21, EmptyOn

\* Close leaves: the File is gone.
LEMMA CloseUnlockStep ==
  ASSUME FilesInv, NEW g \in Caller, CloseUnlock(g)
  PROVE  FilesInv'
<1>0. FilesType /\ Placed(g) /\ Lifecycle
  BY DEF FilesInv, Places
<1> DEFINE b == op[g].base
           todo == Tail(op[g].todo)
<1>1. /\ next' = next /\ reuse' = reuse /\ readers' = readers /\ call' = call
      /\ bound' = bound /\ late' = late /\ down' = down
      /\ Step(g) = "unlock" /\ call[g] = NoCall
      /\ writer' = [writer EXCEPT ![b] = None] /\ file' = [file EXCEPT ![b] = NoFile]
      /\ Goto(g, todo, <<>>)
  BY DEF CloseUnlock, At, Numbers, Server, Advance
<1>2. /\ op[g].own = <<>> /\ Mode(g) = "write" /\ Outline(todo, 0, "none")
      /\ (op[g].todo # <<>> => todo \in Seq(Steps)) /\ (Step(g) = "idle" <=> op[g].todo = <<>>)
  BY <1>0, <1>1, StepFacts
<1>3. b \in File /\ b # None /\ g # None
  BY <1>0, <1>2, ClientFilesAssumption DEF Mode, FilesType, OpType
<1>4. todo \in Seq(Steps)
  BY <1>1, <1>2
<1>5. <<>> \in Seq(Fid) /\ Len(<<>>) = 0
  BY SMT
<1>6. writer[b] = g /\ readers[b] = {} /\ ~Open(b)
  <2>1. writer[b] = g
    BY <1>0, <1>2, <1>3, WriterMode
  <2> QED
    BY <1>0, <1>3, <2>1 DEF Lifecycle
<1>7. \A f \in File : f # b => writer[f] # g
  BY <1>0, WriterMode
<1> HIDE DEF todo
<1>9. /\ op' \in [Caller -> OpType]
      /\ op'[g].todo = todo /\ op'[g].own = <<>>
      /\ op'[g].base = IF todo = <<>> THEN None ELSE b
      /\ \A h \in Caller \ {g} : op'[h] = op[h]
  BY <1>0, <1>1, <1>2, <1>4, <1>5, GotoOp
<1>10. /\ writer' \in [File -> Caller \cup {None}] /\ writer'[b] = None
       /\ \A f \in File : f # b => writer'[f] = writer[f]
  BY <1>0, <1>1, <1>3 DEF FilesType
<1>11. /\ file' \in [File -> [fid : 0 .. MaxFid, closed : BOOLEAN]]
       /\ file'[b].closed
       /\ \A f \in File : f # b => file'[f] = file[f]
  <2>1. 0 \in 0 .. MaxFid
    BY ClientFilesAssumption, SMT
  <2>2. NoFile \in [fid : 0 .. MaxFid, closed : BOOLEAN] /\ NoFile.closed
    BY <2>1 DEF NoFile
  <2> QED
    BY <1>0, <1>1, <1>3, <2>2 DEF FilesType
<1>12. Turn(g)
  <2>1. ASSUME NEW h \in Caller \ {g}, NEW f \in File PROVE writer'[f] = h <=> writer[f] = h
    <3>1. CASE f = b
      <4>1. h # None
        BY ClientFilesAssumption
      <4> QED
        BY <1>6, <1>10, <3>1, <4>1
    <3>2. CASE f # b
      BY <1>10, <3>2
    <3> QED
      BY <3>1, <3>2
  <2> QED
    BY <1>1, <1>9, <2>1 DEF Turn
<1>13. FilesType'
  BY <1>0, <1>1, <1>9, <1>10, <1>11 DEF FilesType
<1>14. ~Live(b)
  BY <1>1, <1>6 DEF Live, Closing
<1>16. ASSUME NEW f \in File
       PROVE  /\ Live(f)' <=> Live(f)
              /\ f # b => file'[f] = file[f]
              /\ Open(f)' <=> Open(f)
              /\ f # b => writer'[f] = writer[f] /\ writer[f] # g
  <2>1. CASE f = b
    <3>1. ~Live(f) /\ ~Open(f)
      BY <1>6, <1>14, <2>1
    <3>2. ~Live(f)' /\ ~Open(f)'
      BY <1>10, <1>11, <2>1 DEF Live, Open, Closing
    <3> QED
      BY <2>1, <3>1, <3>2
  <2>2. CASE f # b
    <3>1. writer'[f] = writer[f] /\ file'[f] = file[f] /\ writer[f] # g
      BY <1>7, <1>10, <1>11, <2>2
    <3>2. Closing(f)' <=> Closing(f)
      BY <1>0, <1>9, <3>1, WritersStay
    <3> QED
      BY <2>2, <3>1, <3>2 DEF Live, Open
  <2> QED
    BY <2>1, <2>2
<1>17. Lifecycle'
  <2> SUFFICES ASSUME NEW f \in File
               PROVE  /\ \A h \in readers'[f] : op'[h].base = f
                      /\ readers'[f] # {} => Open(f)'
                      /\ writer'[f] # None =>
                           /\ op'[writer'[f]].base = f /\ readers'[f] = {} /\ ~Open(f)'
                           /\ Step(writer[f])' = "clunk" => Tail(op'[writer'[f]].todo) = <<"unlock">>
    BY DEF Lifecycle
  <2>1. CASE f = b
    BY <1>1, <1>6, <1>10, <2>1
  <2>2. CASE f # b
    <3>1. writer'[f] = writer[f] /\ (Open(f)' <=> Open(f)) /\ readers'[f] = readers[f]
      BY <1>1, <1>16, <2>2
    <3>2. writer[f] # None =>
            /\ op'[writer'[f]].base = f
            /\ Step(writer[f])' = "clunk" => Tail(op'[writer'[f]].todo) = <<"unlock">>
      BY <1>0, <1>7, <1>9, <2>2, <3>1, WritersStay
    <3>3. ASSUME NEW h \in readers[f] PROVE op'[h].base = f
      <4>1. h \in Caller /\ op[h].base = f
        BY <1>0 DEF FilesType, Lifecycle
      <4> QED
        BY <1>9, <2>2, <4>1
    <3>4. /\ readers[f] # {} => Open(f)
          /\ writer[f] # None => readers[f] = {} /\ ~Open(f)
      BY <1>0 DEF Lifecycle
    <3> QED
      BY <3>1, <3>2, <3>3, <3>4
  <2> QED
    BY <2>1, <2>2
<1>18. Placed(g)'
  <2>1. CASE todo = <<>>
    <3>1. op'[g].base = None
      BY <1>9, <2>1
    <3>2. Mode(g)' = "conn"
      BY <3>1 DEF Mode
    <3> QED
      BY <1>5, <1>9, <2>1, <3>2, OutlineEmpty DEF Placed
  <2>2. CASE todo # <<>>
    <3>1. Mode(g)' = "none"
      BY <1>1, <1>3, <1>6, <1>9, <1>10, <2>2 DEF Mode
    <3> QED
      BY <1>2, <1>5, <1>9, <3>1 DEF Placed
  <2> QED
    BY <2>1, <2>2
<1>19. ASSUME NEW h \in Caller \ {g}, Mode(h) \in {"read", "write"}
       PROVE  file'[op[h].base].fid = file[op[h].base].fid
  <2>1. op[h].base \in File
    BY <1>0, <1>19 DEF FilesType, OpType, Mode
  <2>2. h \in readers[op[h].base] \/ writer[op[h].base] = h
    BY <1>19 DEF Mode
  <2>3. op[h].base # b
    BY <1>6, <2>2
  <2> QED
    BY <1>11, <2>1, <2>3
<1>20. ~Waiting(g)
  BY <1>1 DEF Waiting
<1>21. \A f \in File : Live(f) => file'[f].fid = file[f].fid
  BY <1>11, <1>14
<1>22. Empty(g)
  BY <1>1, <1>2, <1>9, <1>16, <1>19, <1>20, <1>21 DEF Empty
<1> QED
  BY <1>12, <1>13, <1>17, <1>18, <1>22, EmptyOn

\* newFile: the own fid of the operation becomes that of a File.
LEMMA KeepStep ==
  ASSUME FilesInv, NEW g \in Caller, Keep(g)
  PROVE  FilesInv'
<1>0. FilesType /\ Placed(g) /\ Lifecycle /\ Owned /\ Distinct /\ Bindings
  BY DEF FilesInv, Places
<1> DEFINE f == CHOOSE f \in Free : TRUE
           j == Head(op[g].own)
           todo == Tail(op[g].todo)
<1>1. /\ next' = next /\ reuse' = reuse /\ readers' = readers /\ writer' = writer
      /\ call' = call /\ late' = late /\ down' = down
      /\ Step(g) = "keep" /\ call[g] = NoCall /\ Free # {}
      /\ file' = [file EXCEPT ![f] = [fid |-> j, closed |-> FALSE]]
      /\ bound' = IF bound[j] = g THEN [bound EXCEPT ![j] = f] ELSE bound
      /\ Goto(g, todo, <<>>)
  BY DEF Keep, At, Numbers, Locks, Advance
<1>2. f \in Free
  BY <1>1
<1> HIDE DEF f
<1>3. f \in File /\ file[f].closed /\ \A h \in Caller : op[h].base # f
  BY <1>2 DEF Free
<1>4. /\ op[g].own \in Seq(Fid) /\ Len(op[g].own) = 1 /\ Mode(g) \in {"read", "conn"}
      /\ Outline(todo, 0, Mode(g))
      /\ (op[g].todo # <<>> => todo \in Seq(Steps)) /\ (Step(g) = "idle" <=> op[g].todo = <<>>)
  BY <1>0, <1>1, StepFacts
<1>5. todo \in Seq(Steps) /\ <<>> \in Seq(Fid) /\ Len(<<>>) = 0 /\ \A i : i \notin Range(<<>>)
  BY <1>1, <1>4, FewFids
<1>6. Step(g) \notin Walking /\ Step(g) \notin Cleaning /\ ~Waiting(g)
  BY <1>1 DEF Walking, Cleaning, Waiting
<1>7. /\ call[g].new = 0
      /\ \A i : i \in Range(op[g].own) <=> i \in Held(g)
      /\ \A i \in Range(op[g].own) : down \/ bound[i] = g
  BY <1>6, OwnBound
<1>8. \A i : i \in Held(g) <=> i = j
  BY <1>4, <1>7, FewFids
<1>9. j \in Fid /\ (down \/ bound[j] = g)
  BY <1>0, <1>7, <1>8, HeldFid
<1> HIDE DEF j, todo
<1>10. down => bound[j] = None
  BY <1>0, <1>9 DEF Bindings, FidBound
<1>11. /\ bound' \in [Fid -> {None, "cancelled", "quarantined"} \cup Caller \cup File]
       /\ \A i \in Fid : i # j => bound'[i] = bound[i]
       /\ bound'[j] = f \/ (down /\ bound'[j] = None)
       /\ down => bound'[j] = None
  <2>1. bound \in [Fid -> {None, "cancelled", "quarantined"} \cup Caller \cup File] /\ g # None
    BY <1>0, ClientFilesAssumption DEF FilesType
  <2>2. CASE bound[j] = g
    <3>1. bound' = [bound EXCEPT ![j] = f]
      BY <1>1, <2>2
    <3> QED
      BY <1>3, <1>9, <1>10, <2>1, <2>2, <3>1
  <2>3. CASE bound[j] # g
    BY <1>1, <1>9, <1>10, <2>1, <2>3
  <2> QED
    BY <2>2, <2>3
<1>12. /\ op' \in [Caller -> OpType]
       /\ op'[g].todo = todo /\ op'[g].own = <<>>
       /\ op'[g].base = IF todo = <<>> THEN None ELSE op[g].base
       /\ \A h \in Caller \ {g} : op'[h] = op[h]
  BY <1>0, <1>1, <1>4, <1>5, GotoOp
<1>13. /\ file' \in [File -> [fid : 0 .. MaxFid, closed : BOOLEAN]]
       /\ ~file'[f].closed /\ file'[f].fid = j
       /\ \A e \in File : e # f => file'[e] = file[e]
  <2>1. j \in 0 .. MaxFid
    BY <1>9, ClientFilesAssumption, SMT DEF Fid
  <2>2. [fid |-> j, closed |-> FALSE] \in [fid : 0 .. MaxFid, closed : BOOLEAN]
    BY <2>1
  <2> QED
    BY <1>0, <1>1, <1>3, <2>2 DEF FilesType
<1>14. readers[f] = {} /\ writer[f] = None
  <2>1. \A h \in readers[f] : FALSE
    BY <1>0, <1>3 DEF FilesType, Lifecycle
  <2>2. writer[f] # None => writer[f] \in Caller /\ op[writer[f]].base = f
    BY <1>0, <1>3 DEF FilesType, Lifecycle
  <2> QED
    BY <1>3, <2>1, <2>2
<1>15. Turn(g)
  BY <1>1, <1>12 DEF Turn
<1>16. FilesType'
  BY <1>0, <1>1, <1>11, <1>12, <1>13 DEF FilesType
<1>17. \A e \in File : writer[e] # g
  BY <1>0, <1>4, WriterMode
<1>18. /\ \A e \in File : e # f => (Live(e)' <=> Live(e)) /\ (Open(e)' <=> Open(e)) /\ file'[e] = file[e]
       /\ \A e \in File : e = f => Live(e)' /\ Open(e)' /\ ~Live(e) /\ ~Open(e)
  <2>1. ASSUME NEW e \in File, e # f
        PROVE  (Live(e)' <=> Live(e)) /\ (Open(e)' <=> Open(e)) /\ file'[e] = file[e]
    <3>1. Closing(e)' <=> Closing(e)
      BY <1>0, <1>1, <1>12, <1>17, WritersStay
    <3> QED
      BY <1>13, <2>1, <3>1 DEF Live, Open
  <2>2. ASSUME NEW e \in File, e = f PROVE Live(e)' /\ Open(e)' /\ ~Live(e) /\ ~Open(e)
    <3>1. Open(e)' /\ ~Open(e)
      BY <1>3, <1>13, <2>2 DEF Open
    <3>2. ~Closing(e)
      BY <1>14, <2>2 DEF Closing
    <3> QED
      BY <3>1, <3>2 DEF Live
  <2> QED
    BY <2>1, <2>2
<1>19. todo = <<>> => Mode(g) = "conn"
  BY <1>4, OutlineEmpty
<1>20. Lifecycle'
  <2> SUFFICES ASSUME NEW e \in File
               PROVE  /\ \A h \in readers'[e] : op'[h].base = e
                      /\ readers'[e] # {} => Open(e)'
                      /\ writer'[e] # None =>
                           /\ op'[writer'[e]].base = e /\ readers'[e] = {} /\ ~Open(e)'
                           /\ Step(writer[e])' = "clunk" => Tail(op'[writer'[e]].todo) = <<"unlock">>
    BY DEF Lifecycle
  <2>1. CASE e = f
    BY <1>1, <1>14, <2>1
  <2>2. CASE e # f
    <3>1. writer'[e] = writer[e] /\ (Open(e)' <=> Open(e)) /\ readers'[e] = readers[e]
      BY <1>1, <1>18, <2>2
    <3>2. writer[e] # None =>
            /\ op'[writer'[e]].base = e
            /\ Step(writer[e])' = "clunk" => Tail(op'[writer'[e]].todo) = <<"unlock">>
      BY <1>0, <1>12, <1>17, <3>1, WritersStay
    <3>3. ASSUME NEW h \in readers[e] PROVE op'[h].base = e
      <4>1. h \in Caller /\ op[h].base = e
        BY <1>0 DEF FilesType, Lifecycle
      <4>2. CASE h = g
        <5>1. Mode(g) = "read"
          BY <1>0, <4>2, ReaderMode
        <5> QED
          BY <1>12, <1>19, <4>1, <4>2, <5>1
      <4>3. CASE h # g
        BY <1>12, <4>1, <4>3
      <4> QED
        BY <4>2, <4>3
    <3>4. /\ readers[e] # {} => Open(e)
          /\ writer[e] # None => readers[e] = {} /\ ~Open(e)
      BY <1>0 DEF Lifecycle
    <3> QED
      BY <3>1, <3>2, <3>3, <3>4
  <2> QED
    BY <2>1, <2>2
<1>21. Placed(g)'
  <2>1. CASE todo = <<>>
    <3>1. op'[g].base = None
      BY <1>12, <2>1
    <3>2. Mode(g)' = "conn"
      BY <3>1 DEF Mode
    <3> QED
      BY <1>5, <1>12, <2>1, <3>2, OutlineEmpty DEF Placed
  <2>2. CASE todo # <<>>
    <3>1. Mode(g)' = Mode(g)
      BY <1>1, <1>12, <2>2 DEF Mode
    <3> QED
      BY <1>4, <1>5, <1>12, <3>1 DEF Placed
  <2> QED
    BY <2>1, <2>2
<1>22. ~Waiting(g)' /\ call'[g].new = 0
  BY <1>1, <1>7 DEF Waiting
<1>23. Asks(g)'
  BY <1>22 DEF Asks
<1>24. CallerBound(g)'
  BY <1>5, <1>12, <1>22 DEF CallerBound
<1>25. IsInjective(reuse)' /\ IsInjective(op'[g].own) /\ call'[g].new \notin Range(op'[g].own)
  BY <1>0, <1>1, <1>4, <1>5, <1>12, FewFids DEF Distinct
<1>26. /\ \A h \in Caller \ {g} : Held(h)' = Held(h)
       /\ \A h \in Caller : \A i : h = g => i \notin Held(h)'
  <2>1. \A h \in Caller \ {g} : Held(h)' = Held(h)
    BY <1>1, <1>12 DEF Held
  <2>2. \A h \in Caller : \A i : h = g => i \notin Held(h)'
    BY <1>5, <1>12, <1>22 DEF Held
  <2> QED
    BY <2>1, <2>2
<1>27. /\ \A h \in Caller \ {g} : j \notin Held(h)
       /\ \A e \in File : Live(e) => j # file[e].fid
       /\ j \notin Range(reuse) /\ j \notin late /\ j \notin next .. MaxFid
  BY <1>0, <1>8, HeldApart
<1>28. Owned'
  <2>1. ASSUME NEW i, NEW l, NEW x, Has(l, x, i)'
        PROVE  IF i = j THEN l = "file" /\ x = f ELSE Has(l, x, i)
    <3>1. CASE l = "caller" /\ x \in Caller /\ i \in Held(x)'
      <4>1. x # g
        BY <1>26, <3>1
      <4>2. i \in Held(x)
        BY <1>26, <3>1, <4>1
      <4> QED
        BY <1>27, <3>1, <4>1, <4>2 DEF Has
    <3>2. CASE l = "file" /\ x \in File /\ Live(x)' /\ i = file'[x].fid
      <4>1. CASE x = f
        BY <1>13, <3>2, <4>1
      <4>2. CASE x # f
        <5>1. Live(x) /\ i = file[x].fid
          BY <1>18, <3>2, <4>2
        <5> QED
          BY <1>27, <3>2, <5>1 DEF Has
      <4> QED
        BY <4>1, <4>2
    <3>3. CASE l = "pool" /\ x = None /\ i \in Range(reuse')
      BY <1>1, <1>27, <3>3 DEF Has
    <3>4. CASE l = "late" /\ x = None /\ i \in late'
      BY <1>1, <1>27, <3>4 DEF Has
    <3>5. CASE l = "fresh" /\ x = None /\ i \in next' .. MaxFid
      BY <1>1, <1>27, <3>5 DEF Has
    <3> QED
      BY <2>1, <3>1, <3>2, <3>3, <3>4, <3>5 DEF Has
  <2>2. Gains(j, "file", f)
    BY <2>1 DEF Gains
  <2>3. \A e \in File : Live(e)' => file'[e].fid \in Fid
    BY <1>0, <1>9, <1>13, <1>18 DEF Owned
  <2> QED
    BY <1>0, <2>2, <2>3, OneGains
<1>29. ASSUME NEW i \in Fid PROVE FidBound(i)'
  <2>0. FidBound(i)
    BY <1>0 DEF Bindings
  <2>1. ASSUME NEW h \in Caller, bound'[i] = h PROVE i \in Held(h)'
    <3>1. i # j
      BY <1>3, <1>11, <2>1, ClientFilesAssumption
    <3>2. bound[i] = h
      BY <1>11, <2>1, <3>1
    <3>3. i \in Held(h)
      BY <2>0, <3>2 DEF FidBound
    <3>4. h # g
      BY <1>8, <3>1, <3>3
    <3> QED
      BY <1>26, <3>3, <3>4
  <2>2. ASSUME NEW e \in File, bound'[i] = e PROVE Live(e)' /\ i = file'[e].fid
    <3>1. CASE i = j
      <4>1. e = f
        BY <1>11, <2>2, <3>1, ClientFilesAssumption
      <4> QED
        BY <1>13, <1>18, <3>1, <4>1
    <3>2. CASE i # j
      <4>1. bound[i] = e
        BY <1>11, <2>2, <3>2
      <4>2. Live(e) /\ i = file[e].fid
        BY <2>0, <4>1 DEF FidBound
      <4>3. e # f
        BY <1>18, <4>2
      <4> QED
        BY <1>18, <4>2, <4>3
    <3> QED
      BY <3>1, <3>2
  <2>3. i \in Range(reuse') \/ i \in next' .. MaxFid => bound'[i] \in Vacant
    BY <1>1, <1>11, <1>27, <2>0 DEF FidBound
  <2>4. down' => bound'[i] = None
    BY <1>1, <1>11, <2>0 DEF FidBound
  <2>5. bound'[i] \in Caller => i \in Held(bound[i])'
    <3>1. ASSUME NEW h \in Caller, bound'[i] = h
          PROVE  i \in Range(op'[bound'[i]].own) \cup ({call'[bound'[i]].new} \ {0})
      BY <2>1, <3>1 DEF Held
    <3> QED
      BY <3>1 DEF Held
  <2>6. bound'[i] \in File => Live(bound[i])' /\ i = file'[bound'[i]].fid
    <3>1. ASSUME NEW e \in File, bound'[i] = e
          PROVE  /\ i = file'[bound'[i]].fid
                 /\ ~file'[bound'[i]].closed \/ Closing(bound[i])'
      BY <2>2, <3>1 DEF Live, Open, Closing, Step
    <3> QED
      BY <3>1 DEF Live, Open
  <2> QED
    BY <2>3, <2>4, <2>5, <2>6 DEF FidBound
<1>30. ASSUME NEW e \in File PROVE FileBound(e)'
  <2>0. FileBound(e)
    BY <1>0 DEF Bindings
  <2>1. CASE e = f
    BY <1>1, <1>11, <1>13, <2>1 DEF FileBound
  <2>2. CASE e # f
    <3>1. ASSUME Open(e) PROVE bound'[file[e].fid] = bound[file[e].fid]
      <4>1. file[e].fid \in Fid /\ file[e].fid # j
        BY <1>0, <1>27, <3>1 DEF Owned, Live
      <4> QED
        BY <1>11, <4>1
    <3> QED
      BY <1>1, <1>18, <2>0, <2>2, <3>1 DEF FileBound
  <2> QED
    BY <2>1, <2>2
<1>31. ASSUME NEW h \in Caller \ {g} PROVE CallerBound(h)' /\ Asks(h)'
  <2>1. Step(h) = "clunk" => j # file[op[h].base].fid
    <3>1. ASSUME Step(h) = "clunk" PROVE op[h].base \in File /\ Live(op[h].base)
      BY <3>1, RetiredFacts DEF Cleaning
    <3> QED
      BY <1>27, <3>1
  <2>2. Mode(h) \in {"read", "write"} => file'[op[h].base].fid = file[op[h].base].fid
    <3>1. Mode(h) \in {"read", "write"} => op[h].base \in File
      BY <1>0 DEF FilesType, OpType, Mode
    <3> QED
      BY <1>3, <1>13, <3>1
  <2> QED
    BY <1>1, <1>11, <1>15, <1>27, <2>1, <2>2, OthersBound
<1> QED
  BY <1>15, <1>16, <1>20, <1>21, <1>23, <1>24, <1>25, <1>28, <1>29, <1>30, <1>31, Assemble

-----------------------------------------------------------------------------
(* The invariant *)

\* At first nobody has a number and every number is fresh.
LEMMA FilesInit == Init => FilesInv
<1> SUFFICES ASSUME Init PROVE FilesInv
  OBVIOUS
<1>1. /\ next = 1 /\ reuse = <<>> /\ late = {} /\ down = FALSE
      /\ \A f \in File : file[f] = NoFile /\ readers[f] = {} /\ writer[f] = None
      /\ \A g \in Caller : op[g] = Idle /\ call[g] = NoCall
      /\ \A i \in Fid : bound[i] = None
  BY DEF Init
<1>2. /\ <<>> \in Seq(Steps) /\ <<>> \in Seq(Fid) /\ Len(<<>>) = 0
      /\ 0 \in 0 .. MaxFid /\ 1 \in 1 .. MaxFid + 1 /\ 0 <= ReuseCap
      /\ \A j \in DOMAIN <<>> : FALSE
  BY ClientFilesAssumption, SMT
<1>3. /\ \A i : i \notin Range(<<>>)
      /\ IsInjective(<<>>)
  BY <1>2 DEF Range, IsInjective
<1>4. /\ Idle.todo = <<>> /\ Idle.own = <<>> /\ Idle.base = None
      /\ NoCall.new = 0 /\ NoFile.closed
  BY DEF Idle, NoCall, NoFile
<1>5. FilesType
  <2>1. Idle \in OpType
    BY <1>2 DEF Idle, OpType
  <2>2. NoCall \in CallType
    BY <1>2 DEF NoCall, CallType
  <2>3. NoFile \in [fid : 0 .. MaxFid, closed : BOOLEAN]
    BY <1>2 DEF NoFile
  <2>4. /\ file \in [File -> [fid : 0 .. MaxFid, closed : BOOLEAN]]
        /\ op \in [Caller -> OpType] /\ call \in [Caller -> CallType]
    BY <2>1, <2>2, <2>3 DEF Init
  <2>5. /\ readers \in [File -> SUBSET Caller] /\ writer \in [File -> Caller \cup {None}]
        /\ bound \in [Fid -> {None, "cancelled", "quarantined"} \cup Caller \cup File]
    BY DEF Init
  <2> QED
    BY <1>1, <1>2, <2>4, <2>5 DEF FilesType
<1>6. \A f \in File : ~Open(f) /\ ~Closing(f) /\ ~Live(f)
  BY <1>1, <1>4 DEF Open, Closing, Live
<1>7. \A g \in Caller : Mode(g) = "conn" /\ ~Waiting(g)
  BY <1>1, <1>4 DEF Mode, Waiting
<1>8. Places
  BY <1>1, <1>2, <1>4, <1>7, OutlineEmpty DEF Places, Placed
<1>9. Lifecycle
  BY <1>1 DEF Lifecycle
<1>10. Requests
  BY <1>1, <1>4, <1>7 DEF Requests, Asks
<1>11. \A g \in Caller : \A i : i \notin Held(g)
  BY <1>1, <1>3, <1>4 DEF Held
<1>12. Owned
  <2>1. ASSUME NEW i, NEW k, NEW x, Has(k, x, i) PROVE k = "fresh" /\ x = None
    <3>1. /\ ~(x \in Caller /\ i \in Held(x)) /\ ~(x \in File /\ Live(x))
          /\ i \notin Range(reuse) /\ i \notin late
      BY <1>1, <1>3, <1>6, <1>11
    <3> QED
      BY <2>1, <3>1 DEF Has
  <2>2. ASSUME NEW i, NEW k, NEW l, NEW x, NEW y, Has(k, x, i), Has(l, y, i) PROVE k = l /\ x = y
    <3>1. k = "fresh" /\ x = None
      BY <2>1, <2>2
    <3>2. l = "fresh" /\ y = None
      BY <2>1, <2>2
    <3> QED
      BY <3>1, <3>2
  <2> QED
    BY <1>6, <2>2 DEF Owned
<1>13. Distinct
  BY <1>1, <1>3, <1>4 DEF Distinct
<1>14. \A i \in Fid : FidBound(i)
  BY <1>1, ClientFilesAssumption DEF FidBound, Vacant
<1>15. \A f \in File : FileBound(f)
  BY <1>6 DEF FileBound
<1>16. \A g \in Caller : CallerBound(g)
  BY <1>1, <1>3, <1>4, <1>7 DEF CallerBound
<1> QED
  BY <1>5, <1>8, <1>9, <1>10, <1>12, <1>13, <1>14, <1>15, <1>16 DEF FilesInv, Bindings

\* Every step of a caller, of the server and of the connection keeps the invariant.
LEMMA FilesNext == FilesInv /\ [Next]_vars => FilesInv'
<1> SUFFICES ASSUME FilesInv, [Next]_vars PROVE FilesInv'
  OBVIOUS
<1>1. ASSUME NEW g \in Caller, CallerStep(g) PROVE FilesInv'
  <2>1. CASE BeginOp(g)
    BY <2>1, BeginOpStep
  <2>2. CASE EndOp(g)
    BY <2>2, EndOpStep
  <2>3. CASE SendWalk(g)
    BY <2>3, SendWalkStep, CarryingSteps
  <2>4. CASE SendUse(g) \/ SendClean(g)
    BY <2>4, SendStep
  <2>5. CASE SkipMore(g) \/ UseReturns(g) \/ UseFails(g) \/ LockBlocked(g) \/ Backoff(g)
    BY <2>5, CarryingSteps
  <2>6. CASE WalkReturns(g)
    BY <2>6, WalkReturnsStep
  <2>7. CASE WalkFails(g)
    BY <2>7, WalkEnds
  <2>8. CASE CleanReturns(g)
    BY <2>8, CleanEnds
  <2>9. CASE Keep(g)
    BY <2>9, KeepStep
  <2>10. CASE CloseLock(g)
    BY <2>10, CloseLockStep
  <2>11. CASE CloseUnlock(g)
    BY <2>11, CloseUnlockStep
  <2> QED
    BY <1>1, <2>1, <2>2, <2>3, <2>4, <2>5, <2>6, <2>7, <2>8, <2>9, <2>10, <2>11 DEF CallerStep
<1>2. ASSUME NEW g \in Caller, CallEnds(g) PROVE FilesInv'
  BY <1>2, ServeStep, WalkEnds, CarryingSteps, CleanEnds DEF CallEnds
<1>3. ASSUME NEW g \in Caller, NEW script \in {Attach} \cup ConnScripts \cup FileScripts,
             NEW f \in File \cup {None}, Start(g, script, f)
      PROVE  FilesInv'
  BY <1>3, StartStep DEF Scripts
<1>4. ASSUME NEW i \in Fid, ServeLate(i) PROVE FilesInv'
  BY <1>4, ServeLateStep
<1>5. CASE Shutdown
  BY <1>5, ShutdownStep
<1>6. CASE UNCHANGED vars
  <2>1. /\ next' = next /\ reuse' = reuse /\ file' = file /\ readers' = readers /\ writer' = writer
        /\ op' = op /\ call' = call /\ bound' = bound /\ late' = late /\ down' = down
    BY <1>6 DEF vars
  <2>2. FilesType' /\ Places' /\ Lifecycle'
    BY <2>1 DEF FilesInv, FilesType, Places, Placed, Mode, Lifecycle, Open, Step
  <2>3. Requests' /\ Distinct'
    BY <2>1 DEF FilesInv, Requests, Asks, Waiting, Step, BaseFid, Retired, Distinct
  <2>4. \A h \in Caller : Held(h)' = Held(h)
    BY <2>1 DEF Held
  <2>5. \A f \in File : (Live(f)' <=> Live(f)) /\ (Open(f)' <=> Open(f)) /\ file'[f] = file[f]
    BY <2>1 DEF Live, Open, Closing, Step
  <2>6. Owned'
    BY <2>1, <2>4, <2>5, NobodyGains DEF FilesInv
  <2>7. \A i \in Fid : FidBound(i)'
    BY <2>1, <2>4, <2>5 DEF FilesInv, Bindings, FidBound
  <2>8. \A f \in File : FileBound(f)'
    BY <2>1, <2>5 DEF FilesInv, Bindings, FileBound
  <2>9. \A g \in Caller : CallerBound(g)'
    BY <2>1 DEF FilesInv, Bindings, CallerBound, Step, Waiting, Retired
  <2> QED
    BY <2>2, <2>3, <2>6, <2>7, <2>8, <2>9 DEF FilesInv, Bindings
<1> QED
  BY <1>1, <1>2, <1>3, <1>4, <1>5, <1>6 DEF Next

\* The invariant holds in every reachable state.
LEMMA FilesAlways == Spec => []FilesInv
  BY FilesInit, FilesNext, PTL DEF Spec

-----------------------------------------------------------------------------
(* Theorems *)

\* No request names a number that may be handed out.
LEMMA AskedApart ==
  ASSUME FilesInv, NEW g \in Caller, Waiting(g), NEW i \in call[g].fids
  PROVE  i \notin Range(reuse)
<1>0. FilesType /\ Placed(g) /\ Lifecycle /\ Owned /\ Asks(g)
  BY DEF FilesInv, Places, Requests
<1>1. /\ op[g].own \in Seq(Fid)
      /\ Step(g) \in Walking => Mode(g) \in {"read", "conn"}
      /\ Step(g) = "walkOn" => op[g].own # <<>>
      /\ Step(g) \in Using => (op[g].own = <<>> => Mode(g) = "read")
  BY <1>0, StepFacts
<1>2. ASSUME i \in Range(op[g].own) PROVE i \notin Range(reuse)
  <2>1. i \in Held(g)
    BY <1>2 DEF Held
  <2> QED
    BY <1>0, <2>1, HeldApart
<1>3. ASSUME i \in BaseFid(g), Mode(g) \in {"read", "conn"} PROVE i \notin Range(reuse)
  <2>1. op[g].base # None /\ i = file[op[g].base].fid
    BY <1>3 DEF BaseFid
  <2>2. op[g].base \in File /\ g \in readers[op[g].base]
    BY <1>0, <1>3, <2>1 DEF Mode, FilesType, OpType
  <2>3. Live(op[g].base)
    BY <1>0, <2>2 DEF Lifecycle, Live
  <2> QED
    BY <1>0, <2>1, <2>2, <2>3, FileApart
<1>4. CASE Step(g) \in Cleaning
  <2>1. i = Retired(g)
    BY <1>0, <1>4 DEF Asks
  <2>2. CASE Step(g) # "clunk"
    BY <1>2, <1>4, <2>1, <2>2, RetiredFacts
  <2>3. CASE Step(g) = "clunk"
    <3>1. op[g].base \in File /\ Live(op[g].base) /\ i = file[op[g].base].fid
      BY <1>4, <2>1, <2>3, RetiredFacts
    <3> QED
      BY <1>0, <3>1, FileApart
  <2> QED
    BY <2>2, <2>3
<1>5. CASE Step(g) = "walk"
  <2>1. i \in BaseFid(g) /\ Mode(g) \in {"read", "conn"}
    BY <1>0, <1>1, <1>5 DEF Asks, Walking
  <2> QED
    BY <1>3, <2>1
<1>6. CASE Step(g) = "walkOn"
  <2>1. i = Head(op[g].own) /\ op[g].own # <<>>
    BY <1>0, <1>1, <1>6 DEF Asks
  <2> QED
    BY <1>1, <1>2, <2>1, TailFids
<1>7. CASE Step(g) \in Using
  <2>1. i \in IF op[g].own = <<>> THEN BaseFid(g) ELSE Range(op[g].own)
    BY <1>0, <1>7 DEF Asks
  <2> QED
    BY <1>1, <1>2, <1>3, <1>7, <2>1
<1> QED
  BY <1>0, <1>4, <1>5, <1>6, <1>7 DEF Asks, Walking

\* At any time a fid number has one user: an operation, a File, the reuse stack, or
\* nobody so far. What an open File or an operation has is bound at the server to
\* what it walked to itself, as long as the connection is up (fidAllocator,
\* newFile, Close, cleanupFid).
THEOREM FilesFidOwned == Spec => []FidOwned
<1>1. FilesInv => FidOwned
  <2> SUFFICES ASSUME FilesInv PROVE FidOwned
    OBVIOUS
  <2>0. FilesType /\ Requests /\ Owned /\ Distinct /\ Bindings
    BY DEF FilesInv
  <2>1. ASSUME NEW g \in Caller
        PROVE  /\ Held(g) \cap Range(reuse) = {}
               /\ \A h \in Caller \ {g} : Held(g) \cap Held(h) = {}
               /\ \A f \in File : Live(f) => file[f].fid \notin Held(g)
               /\ \A i \in next .. MaxFid : i \notin Held(g)
    <3>1. ASSUME NEW i \in Held(g)
          PROVE  /\ \A h \in Caller \ {g} : i \notin Held(h)
                 /\ \A f \in File : Live(f) => i # file[f].fid
                 /\ i \notin Range(reuse) /\ i \notin next .. MaxFid
      BY <2>0, HeldApart
    <3> QED
      BY <3>1
  <2>2. ASSUME NEW f \in File, Live(f)
        PROVE  /\ file[f].fid \notin Range(reuse)
               /\ \A e \in File \ {f} : Live(e) => file[e].fid # file[f].fid
    BY <2>0, <2>2, FileApart
  <2>3. \A i \in next .. MaxFid : i \notin Range(reuse)
    <3>1. ASSUME NEW i \in next .. MaxFid, i \in Range(reuse) PROVE FALSE
      <4>1. Has("fresh", None, i) /\ Has("pool", None, i)
        BY <3>1 DEF Has
      <4>2. "fresh" = "pool"
        BY <2>0, <4>1 DEF Owned
      <4> QED
        BY <4>2
    <3> QED
      BY <3>1
  <2>4. FidOwnedOnce
    BY <2>0, <2>1, <2>2, <2>3 DEF FidOwnedOnce, Distinct, Live
  <2>5. ASSUME ~down, NEW g \in Caller, NEW i \in Range(op[g].own)
        PROVE  bound[i] = g \/ (Step(g) \in Cleaning /\ i \in call[g].fids)
    BY <2>0, <2>5 DEF Bindings, CallerBound, Requests, Asks
  <2>6. OwnBinding
    BY <2>0, <2>5 DEF OwnBinding, Bindings, FileBound
  <2> QED
    BY <2>4, <2>6 DEF FidOwned
<1> QED
  BY <1>1, FilesAlways, PTL

\* What the server has bound to a number for an operation or a File is still that
\* operation's or that File's, so it will be clunked: only a cancelled walk or an
\* unconfirmed Tclunk leaves a binding behind (Walk, cleanupFid, Close).
THEOREM FilesNoFidLeak == Spec => []NoFidLeakUnlessUnconfirmed
<1>1. FilesInv => NoFidLeakUnlessUnconfirmed
  BY DEF FilesInv, Bindings, FidBound, NoFidLeakUnlessUnconfirmed, Live
<1> QED
  BY <1>1, FilesAlways, PTL

\* A number that acquire may hand out again is in no request and in no Tclunk under
\* way, and is unbound at the server unless the walk onto it was cancelled
\* (fidAllocator.release after the Tclunk's answer).
THEOREM FilesReleasedIsIdle == Spec => []ReleasedIsIdleUnlessCancelled
<1>1. FilesInv => ReleasedIsIdleUnlessCancelled
  <2> SUFFICES ASSUME FilesInv PROVE ReleasedIsIdleUnlessCancelled
    OBVIOUS
  <2>0. FilesType /\ Owned /\ Bindings
    BY DEF FilesInv
  <2>1. ASSUME NEW g \in Caller, Waiting(g) PROVE call[g].fids \cap Range(reuse) = {}
    BY <2>1, AskedApart
  <2>2. ASSUME NEW i \in late, i \in Range(reuse) PROVE FALSE
    <3>1. Has("late", None, i) /\ Has("pool", None, i)
      BY <2>2 DEF Has
    <3>2. "late" = "pool"
      BY <2>0, <3>1 DEF Owned
    <3> QED
      BY <3>2
  <2>3. ASSUME NEW i \in Range(reuse) PROVE bound[i] \in {None, "cancelled"}
    <3>1. i \in Fid
      BY <2>0, FewFids DEF FilesType
    <3> QED
      BY <2>0, <3>1 DEF Bindings, FidBound, Vacant
  <2> QED
    BY <2>1, <2>2, <2>3 DEF ReleasedIsIdleUnlessCancelled, NoUseAfterRelease,
                            ReleasedMeansUnboundUnlessCancelled
<1> QED
  BY <1>1, FilesAlways, PTL

\* The other variables keep their types.
OtherType == pending \in [File -> SUBSET Caller] /\ root \in File \cup {None}

\* Only Start, Keep and CloseLock touch them.
LEMMA OtherNext == OtherType /\ [Next]_vars => OtherType'
<1> SUFFICES ASSUME OtherType, [Next]_vars PROVE OtherType'
  OBVIOUS
<1>0. pending \in [File -> SUBSET Caller] /\ root \in File \cup {None}
  BY DEF OtherType
<1>1. CASE UNCHANGED <<pending, root>>
  BY <1>0, <1>1 DEF OtherType
<1>2. ASSUME NEW g \in Caller, CloseLock(g) PROVE OtherType'
  BY <1>0, <1>2 DEF OtherType, CloseLock
<1>3. ASSUME NEW g \in Caller, Keep(g) PROVE OtherType'
  <2>1. /\ pending' = pending /\ Free # {}
        /\ root' = IF op[g].base = None THEN CHOOSE f \in Free : TRUE ELSE root
    BY <1>3 DEF Keep, Locks
  <2>2. (CHOOSE f \in Free : TRUE) \in Free
    BY <2>1
  <2>3. (CHOOSE f \in Free : TRUE) \in File
    BY <2>2 DEF Free
  <2> QED
    BY <1>0, <2>1, <2>3 DEF OtherType
<1>4. ASSUME NEW g \in Caller, NEW script, NEW f, Start(g, script, f) PROVE OtherType'
  <2>1. /\ pending' = IF script = Close THEN [pending EXCEPT ![f] = pending[f] \cup {g}] ELSE pending
        /\ root' = root
    BY <1>4 DEF Start
  <2>2. [pending EXCEPT ![f] = pending[f] \cup {g}] \in [File -> SUBSET Caller]
    BY <1>0
  <2> QED
    BY <1>0, <2>1, <2>2 DEF OtherType
<1>5. ASSUME NEW g \in Caller, CallerStep(g) PROVE OtherType'
  <2>1. CloseLock(g) \/ Keep(g) \/ UNCHANGED <<pending, root>>
    BY <1>5 DEF CallerStep, BeginOp, EndOp, SendWalk, SendUse, SkipMore, SendClean, WalkReturns,
                WalkFails, UseReturns, UseFails, LockBlocked, Backoff, CleanReturns, CloseUnlock, Locks
  <2> QED
    BY <1>1, <1>2, <1>3, <2>1
<1>6. ASSUME NEW g \in Caller, CallEnds(g) PROVE OtherType'
  <2>1. UNCHANGED <<pending, root>>
    BY <1>6 DEF CallEnds, Serve, CancelWalk, CancelUse, CleanTimeout, Locks
  <2> QED
    BY <1>1, <2>1
<1>7. ASSUME NEW i \in Fid, ServeLate(i) PROVE OtherType'
  BY <1>1, <1>7 DEF ServeLate, Locks
<1>8. CASE Shutdown
  BY <1>1, <1>8 DEF Shutdown, Locks
<1>9. CASE UNCHANGED vars
  BY <1>1, <1>9 DEF vars
<1> QED
  BY <1>4, <1>5, <1>6, <1>7, <1>8, <1>9 DEF Next

\* The fid numbers stay below NoFid, the reuse stack within its cap, and every
\* operation, request, lock and File keeps its shape (fidAllocator, File).
THEOREM FilesTypeOK == Spec => []TypeOK
<1>1. Init => OtherType
  BY DEF Init, OtherType
<1>2. Spec => []OtherType
  BY <1>1, OtherNext, PTL DEF Spec
<1>3. FilesInv /\ OtherType => TypeOK
  <2> SUFFICES ASSUME FilesInv, OtherType PROVE TypeOK
    OBVIOUS
  <2>1. FilesType
    BY DEF FilesInv
  <2>2. ASSUME NEW g \in Caller
        PROVE  /\ op[g].base \in File \cup {None}
               /\ op[g].own \in Seq(Fid)
               /\ call[g].st \in {"none", "sent", "ok", "err", "blocked"}
               /\ call[g].fids \subseteq Fid /\ call[g].new \in 0 .. MaxFid
    BY <2>1 DEF FilesType, OpType, CallType
  <2> QED
    BY <2>1, <2>2 DEF TypeOK, FilesType, OtherType
<1> QED
  BY <1>2, <1>3, FilesAlways, PTL
=============================================================================
