------------------------------ MODULE MCFiles ------------------------------
(***************************************************************************)
(* What is behind a descriptor, for TLC: names and inodes under the tests  *)
(* of usertests.c, the content of files, or the console, one of which is   *)
(* chosen at the start.                                                    *)
(***************************************************************************)
EXTENDS UserTests, FileData, Console, TLC

MCAlias == [n \in {n15} |-> n14]
MCTests == DOMAIN Scripts
FileSymmetry == Permutations(File)

VARIABLE part
allVars == <<vars, testVars, dataVars, consVars, part>>
DescInit ==
  /\ part \in {"names", "data", "console"}
  /\ TestInit /\ (part # "names" => test = "dirtest")
  /\ DataInit /\ (part # "data" => \A p, q \in Writer : fd[p] = fd[q])
  /\ ConsInit
DescNext ==
  /\ \/ part = "names" /\ TestNext
     \/ part # "names" /\ UNCHANGED <<vars, testVars>>
  /\ \/ part = "data" /\ DataNext
     \/ part # "data" /\ UNCHANGED dataVars
  /\ \/ part = "console" /\ ConsNext
     \/ part # "console" /\ UNCHANGED consVars
  /\ UNCHANGED part
DescSpec == DescInit /\ [][DescNext]_allVars

\* At every moment of every race of calls, ip->ref is the number of pointers to
\* the inode, a valid entry of the cache says what the disk says, and no name
\* leads to a free inode; and in the tests without directories, once no call is
\* under way, the link count is the number of names, also after link() has
\* rolled back.
CountsExact ==
  part = "names" => TypeOK /\ RefsExact /\ CacheFresh /\ NamedAlive /\ FlatLinksExact
=============================================================================
