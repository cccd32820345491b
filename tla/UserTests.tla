----------------------------- MODULE UserTests -----------------------------
(***************************************************************************)
(* The file system tests of usertests.c, run against Files.  A test is a   *)
(* script of calls with the results the test asks for; a test with several *)
(* processes is the set of calls they make, in every order and interleaving.*)
(***************************************************************************)
EXTENDS Files

CONSTANTS
  Tester,   \* the process that runs the scripts
  Tests,    \* the names of the tests to run
  MaxRace   \* how many calls the processes of a race make

VARIABLES test, at    \* the test, and the next call of its script
testVars == <<test, at>>

\* Calls.  "x/y" is Rel(<<"x", "y">>), "/x" is Abs(<<"x">>).
Rel(e) == [abs |-> FALSE, elems |-> e]
Abs(e) == [abs |-> TRUE, elems |-> e]
Open(path, w) == [op |-> "open", path |-> path, w |-> w]
Create(path) == [op |-> "create", path |-> path, w |-> TRUE]
On(op, path) == [op |-> op, path |-> path]
Link(old, new) == [op |-> "link", path |-> old, new |-> new]
Close(fd) == [op |-> "close", fd |-> fd]
Write(fd, v) == [op |-> "write", fd |-> fd, val |-> v]
Read(fd) == [op |-> "read", fd |-> fd]

\* What the test says of the result.
Ok(c) == [call |-> c, want |-> "ok"]
No(c) == [call |-> c, want |-> "fail"]
May(c) == [call |-> c, want |-> "any"]
Gets(c, data) == [call |-> c, want |-> data]
Good(res, want) ==
  CASE want = "any" -> TRUE
    [] want = "ok" -> res # -1
    [] want = "fail" -> res = -1
    [] OTHER -> res = want

F(n) == Rel(<<n>>)
MakeFile(n) == <<Ok(Create(F(n))), Ok(Close(1))>>

-----------------------------------------------------------------------------
opentest == MakeFile("echo") \o
  <<Ok(Open(F("echo"), FALSE)), Ok(Close(1)), No(Open(F("doesnotexist"), FALSE))>>

\* 100 rounds of two writes are one here.
writetest ==
  <<Ok(Create(F("small"))), Ok(Write(1, "a")), Ok(Write(1, "b")), Ok(Close(1)),
    Ok(Open(F("small"), FALSE)), Gets(Read(1), <<"a", "b">>), Ok(Close(1)), Ok(On("unlink", F("small")))>>

\* Two of the 52 files.
createtest == MakeFile("a0") \o MakeFile("a1") \o <<Ok(On("unlink", F("a0"))), Ok(On("unlink", F("a1")))>>

dirtest ==
  <<Ok(On("mkdir", F("dir0"))), Ok(On("chdir", F("dir0"))), Ok(On("chdir", F(".."))), Ok(On("unlink", F("dir0")))>>

unlinkread ==
  <<Ok(Create(F("unlinkread"))), Ok(Write(1, "hello")), Ok(Close(1)),
    Ok(Open(F("unlinkread"), TRUE)), Ok(On("unlink", F("unlinkread"))),
    Ok(Create(F("unlinkread"))), Ok(Write(2, "yyy")), Ok(Close(2)),
    Gets(Read(1), <<"hello">>), Ok(Write(1, "more")), Ok(Close(1)), Ok(On("unlink", F("unlinkread")))>>

linktest ==
  <<May(On("unlink", F("lf1"))), May(On("unlink", F("lf2"))),
    Ok(Create(F("lf1"))), Ok(Write(1, "hello")), Ok(Close(1)),
    Ok(Link(F("lf1"), F("lf2"))), Ok(On("unlink", F("lf1"))), No(Open(F("lf1"), FALSE)),
    Ok(Open(F("lf2"), FALSE)), Gets(Read(1), <<"hello">>), Ok(Close(1)),
    No(Link(F("lf2"), F("lf2"))), Ok(On("unlink", F("lf2"))), No(Link(F("lf2"), F("lf1"))),
    No(Link(F("."), F("lf1")))>>

\* Two of the 500 links.
bigdir == <<May(On("unlink", F("bd")))>> \o MakeFile("bd") \o
  <<Ok(Link(F("bd"), F("x00"))), Ok(Link(F("bd"), F("x01"))), Ok(On("unlink", F("bd"))),
    Ok(On("unlink", F("x00"))), Ok(On("unlink", F("x01")))>>

dd == "dd"
ff == "ff"
Sub(e) == Rel(<<dd>> \o e)
subdir ==
  <<May(On("unlink", F(ff))), Ok(On("mkdir", F(dd))),
    Ok(Create(Sub(<<ff>>))), Ok(Write(1, "ff")), Ok(Close(1)), No(On("unlink", F(dd))),
    Ok(On("mkdir", Abs(<<dd, dd>>))), Ok(Create(Sub(<<dd, ff>>))), Ok(Write(1, "FF")), Ok(Close(1)),
    Ok(Open(Sub(<<dd, "..", ff>>), FALSE)), Gets(Read(1), <<"ff">>), Ok(Close(1)),
    Ok(Link(Sub(<<dd, ff>>), Sub(<<dd, "ffff">>))), Ok(On("unlink", Sub(<<dd, ff>>))),
    No(Open(Sub(<<dd, ff>>), FALSE)),
    Ok(On("chdir", F(dd))), Ok(On("chdir", Sub(<<"..", "..", dd>>))),
    Ok(On("chdir", Sub(<<"..", "..", "..", dd>>))), Ok(On("chdir", Rel(<<".", "..">>))),
    Ok(Open(Sub(<<dd, "ffff">>), FALSE)), Gets(Read(1), <<"FF">>), Ok(Close(1))>>
subdirErrors ==
  <<No(Open(Sub(<<dd, ff>>), FALSE)), No(Create(Sub(<<ff, ff>>))), No(Create(Sub(<<"xx", ff>>))),
    No(Create(F(dd))), No(Open(F(dd), TRUE)),
    No(Link(Sub(<<ff, ff>>), Sub(<<dd, "xx">>))), No(Link(Sub(<<"xx", ff>>), Sub(<<dd, "xx">>))),
    No(Link(Sub(<<ff>>), Sub(<<dd, "ffff">>))),
    No(On("mkdir", Sub(<<ff, ff>>))), No(On("mkdir", Sub(<<"xx", ff>>))), No(On("mkdir", Sub(<<dd, "ffff">>))),
    No(On("unlink", Sub(<<"xx", ff>>))), No(On("unlink", Sub(<<ff, ff>>))),
    No(On("chdir", Sub(<<ff>>))), No(On("chdir", Sub(<<"xx">>))),
    Ok(On("unlink", Sub(<<dd, "ffff">>))), Ok(On("unlink", Sub(<<ff>>))), No(On("unlink", F(dd))),
    Ok(On("unlink", Sub(<<dd>>))), Ok(On("unlink", F(dd)))>>

\* Names of 14 and of 15 characters.
n14 == "12345678901234"
n15 == "123456789012345"
fourteen ==
  <<Ok(On("mkdir", F(n14))), Ok(On("mkdir", Rel(<<n14, n15>>))),
    Ok(Create(Rel(<<n15, n15, n15>>))), Ok(Close(1)), Ok(Open(Rel(<<n14, n14, n14>>), FALSE)), Ok(Close(1)),
    No(On("mkdir", Rel(<<n14, n14>>))), No(On("mkdir", Rel(<<n15, n14>>)))>>

rmdot ==
  <<Ok(On("mkdir", F("dots"))), Ok(On("chdir", F("dots"))), No(On("unlink", F("."))), No(On("unlink", F(".."))),
    Ok(On("chdir", Abs(<<>>))), No(On("unlink", Rel(<<"dots", ".">>))), No(On("unlink", Rel(<<"dots", "..">>))),
    Ok(On("unlink", F("dots")))>>

dirfile == MakeFile("README") \o MakeFile("dirfile") \o
  <<No(On("chdir", F("dirfile"))), No(Open(Rel(<<"dirfile", "xx">>), FALSE)), No(Create(Rel(<<"dirfile", "xx">>))),
    No(On("mkdir", Rel(<<"dirfile", "xx">>))), No(On("unlink", Rel(<<"dirfile", "xx">>))),
    No(Link(F("README"), Rel(<<"dirfile", "xx">>))), Ok(On("unlink", F("dirfile"))),
    No(Open(F("."), TRUE)), Ok(Open(F("."), FALSE)), No(Write(1, "x")), Ok(Close(1))>>

\* One of the 51 rounds.
iref == MakeFile("README") \o
  <<Ok(On("mkdir", F("irefd"))), Ok(On("chdir", F("irefd"))), May(On("mkdir", Rel(<<>>))),
    May(Link(F("README"), Rel(<<>>))), No(Create(Rel(<<>>))), Ok(Create(F("xx"))), Ok(Close(1)),
    Ok(On("unlink", F("xx"))), Ok(On("chdir", Abs(<<>>)))>>

iputtest ==
  <<Ok(On("mkdir", F("iputdir"))), Ok(On("chdir", F("iputdir"))), Ok(On("unlink", Rel(<<"..", "iputdir">>))),
    Ok(On("chdir", Abs(<<>>)))>>

exitiputtest ==
  <<Ok(On("mkdir", F("iputdir"))), Ok(On("chdir", F("iputdir"))), Ok(On("unlink", Rel(<<"..", "iputdir">>))),
    May([op |-> "exit"])>>

\* A device file, as init makes it for the console.
console ==
  <<No(Open(F("console"), TRUE)), Ok(On("mknod", F("console"))), Ok(Open(F("console"), TRUE)),
    No(Create(F("console"))), Ok(Close(1))>>

-----------------------------------------------------------------------------
\* Processes that race: linkunlink() and concreate(), on one name.
linkunlink == {Create(F("x")), Close(1), Link(F("cat"), F("x")), On("unlink", F("x"))}
concreate == {Create(F("C0")), Close(1), Link(F("C0"), F("C1")), On("unlink", F("C0")), On("unlink", F("C1"))}

\* Processes that create and delete different files of one directory.
createdelete == {Create(F("p0")), Create(F("p1")), Close(1), On("unlink", F("p0")), On("unlink", F("p1"))}

\* A directory that is opened while it is removed.
openiputtest == {Open(F("oidir"), TRUE), On("mkdir", F("oidir")), On("unlink", F("oidir"))}

\* Directories that are removed while one is the tester's current directory and
\* others work in them.
rmcwdSetup == <<Ok(On("mkdir", F("d"))), Ok(On("mkdir", Rel(<<"d", "e">>))), Ok(On("chdir", Rel(<<"d", "e">>)))>>
rmcwd == {On("unlink", Abs(<<"d", "e">>)), On("unlink", Abs(<<"d">>)), Open(F(".."), FALSE), Close(1),
          Create(Abs(<<"d", "e", "f">>)), Create(F(".")), On("chdir", F(".."))}

Scripts ==
  [opentest |-> opentest, writetest |-> writetest, createtest |-> createtest, dirtest |-> dirtest,
   unlinkread |-> unlinkread, linktest |-> linktest, bigdir |-> bigdir, subdir |-> subdir \o subdirErrors,
   fourteen |-> fourteen, rmdot |-> rmdot, dirfile |-> dirfile, iref |-> iref, iputtest |-> iputtest,
   exitiputtest |-> exitiputtest, console |-> console, linkunlink |-> MakeFile("cat"), concreate |-> <<>>,
   createdelete |-> <<>>, openiputtest |-> <<>>, rmcwd |-> rmcwdSetup]
Races ==
  [linkunlink |-> linkunlink, concreate |-> concreate, createdelete |-> createdelete,
   openiputtest |-> openiputtest, rmcwd |-> rmcwd]
Flat == {"linkunlink", "concreate", "createdelete"}
AllCalls == UNION {Races[t] : t \in DOMAIN Races}

-----------------------------------------------------------------------------
TestInit == Init /\ test \in Tests /\ at = 1

ScriptCall ==
  /\ at <= Len(Scripts[test])
  /\ Start(Tester, Scripts[test][at].call)
  /\ at' = at + 1 /\ UNCHANGED test

RaceCall(p) ==
  /\ test \in DOMAIN Races
  /\ at \in (Len(Scripts[test]) + 1)..(Len(Scripts[test]) + MaxRace)
  /\ at = Len(Scripts[test]) + 1 => th[Tester].pc = "user"
  /\ \E c \in Races[test] : Start(p, c)
  /\ at' = at + 1 /\ UNCHANGED test

TestNext == ScriptCall \/ \E p \in Proc : RaceCall(p) \/ (Step(p) /\ UNCHANGED testVars)
TestSpec == TestInit /\ [][TestNext]_<<vars, testVars>>

\* Every call of a script returns what the test in usertests.c asks for, no
\* script ends in panic(), and the races end in no other than the known ones and
\* in no other circles of waiting than those that an iput() closes.
TestsPass ==
  /\ at \in 2..(Len(Scripts[test]) + 1) /\ th[Tester].pc = "user" =>
       Good(th[Tester].res, Scripts[test][at - 1].want)
  /\ test \notin DOMAIN Races => panicked = "no"
  /\ PanicsKnown /\ OnlyIputCloses

\* LinksExact, in the tests without directories: the roll back of link() and the
\* order of the two updates of unlink() leave every link count right.
FlatLinksExact == test \in Flat => LinksExact
=============================================================================
