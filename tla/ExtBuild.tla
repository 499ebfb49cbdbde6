------------------------------ MODULE ExtBuild ------------------------------
(* The phases of main that depend on the host's files, which the three     *)
(* builders share: programs, scripts and source trees.  A builder adds     *)
(* files and directories in its own way, so each phase is given g, the     *)
(* state with the new file or directory, and full, which says that an      *)
(* allocation on the way there called sys.exit.                            *)
EXTENDS ExtImage

AddHost(path, n) == host' = (path :> n) @@ host

\* Main goes on with f in phase next, unless an allocation in between called
\* sys.exit, which ends the program before an image is written.
Phase(at, f, full, next) ==
    /\ pc = at
    /\ fs' = IF full THEN fs ELSE f
    /\ pc' = IF full THEN "exit" ELSE next

HasBin == bin.ino # 0

\* There is a shell binary (of n blocks; an empty one gives no inode) or,
\* with n = None, only a directory with other programs.
Shell == <<"bin", "zsh">>
StartBin(n, g, full) ==
    /\ Phase("bin", g, full, "extra")
    /\ bin' = [ino |-> fs.next_inode, must |-> n = None,
               es |-> IF n > 0 THEN <<Entry(fs.next_inode + 1, "zsh", FT_REG)>> ELSE <<>>]
    /\ host' = (IF n > 0 THEN Shell :> n ELSE <<>>) @@ (<<"bin">> :> Dir) @@ host
    /\ UNCHANGED <<kind, scripts, tree, roots, dirs, left>>

NoBin ==
    /\ Phase("bin", fs, FALSE, "scripts")
    /\ UNCHANGED <<kind, bin, scripts, tree, roots, dirs, left, host>>

\* The next of the other programs, in the order of their names.
NextBin == HostNames[Cardinality({j \in DOMAIN bin.es : bin.es[j].name # "zsh"}) + 1]
ExtraBin(n, g, full) ==
    /\ left > 0 /\ left' = left - 1
    /\ Phase("extra", g, full, "extra")
    /\ bin' = [bin EXCEPT !.es = Append(@, Entry(fs.next_inode, NextBin, FT_REG)),
                          !.must = FALSE]
    /\ AddHost(<<"bin", NextBin>>, n)
    /\ UNCHANGED <<kind, scripts, tree, roots, dirs>>

EndBin(f) ==
    /\ ~ bin.must
    /\ Phase("extra", f, FALSE, "scripts")
    /\ UNCHANGED <<kind, bin, scripts, tree, roots, dirs, left, host>>

NextScript == HostNames[Len(scripts) + 1]
Script(n, g, full) ==
    /\ left > 0 /\ left' = left - 1
    /\ Phase("scripts", g, full, "scripts")
    /\ scripts' = Append(scripts, Entry(fs.next_inode, NextScript, FT_REG))
    /\ AddHost(<<NextScript>>, n)
    /\ UNCHANGED <<kind, bin, tree, roots, dirs>>

EndScripts ==
    /\ Phase("scripts", fs, FALSE, "zig")
    /\ UNCHANGED <<kind, bin, scripts, tree, roots, dirs, left, host>>

\* The call of add_tree for a source tree, or the argument is missing.
StartTree(at, name, g, full) ==
    /\ Phase(at, g, full, "tree")
    /\ tree' = <<[ino |-> fs.next_inode, path |-> <<name>>, es |-> <<>>]>>
    /\ AddHost(<<name>>, Dir)
    /\ UNCHANGED <<kind, bin, scripts, roots, dirs, left>>

NoTree(at, next) ==
    /\ Phase(at, fs, FALSE, next)
    /\ UNCHANGED <<kind, bin, scripts, tree, roots, dirs, left, host>>

\* add_tree meets the next entry of the directory it lists.
Call == Last(tree)
NextName == HostNames[Len(Call.es) + 1]
NextPath == Append(Call.path, NextName)
Listing(e) == [tree EXCEPT ![Len(tree)].es = Append(@, e)]

\* A file.
TreeFile(n, g, full) ==
    /\ left > 0 /\ left' = left - 1
    /\ Phase("tree", g, full, "tree")
    /\ tree' = Listing(Entry(fs.next_inode, NextName, FT_REG))
    /\ AddHost(NextPath, n)
    /\ UNCHANGED <<kind, bin, scripts, roots, dirs>>

\* A directory: its inode is allocated before the recursive call.
TreeDir(g, full) ==
    /\ left > 0 /\ left' = left - 1
    /\ Phase("tree", g, full, "tree")
    /\ tree' = Append(tree, [ino |-> fs.next_inode, path |-> NextPath, es |-> <<>>])
    /\ AddHost(NextPath, Dir)
    /\ UNCHANGED <<kind, bin, scripts, roots, dirs>>

\* The directory that a call returns to.
Caller == IF Len(tree) > 1 THEN tree[Len(tree) - 1].ino ELSE 2

\* The recursive call returns: its caller writes the directory.
TreeReturn(g, full) ==
    LET up == Front(tree)
    IN  /\ Len(tree) > 1
        /\ Phase("tree", g, full, "tree")
        /\ tree' = [up EXCEPT ![Len(up)].es =
                       Append(@, Entry(Call.ino, Last(Call.path), FT_DIR))]
        /\ dirs' = dirs + 1
        /\ UNCHANGED <<kind, bin, scripts, roots, left, host>>

\* The outermost call returns to main.
TreeEnd(name, g, full, next) ==
    /\ Len(tree) = 1 /\ Call.path = <<name>>
    /\ Phase("tree", [g EXCEPT !.use_high_zone = FALSE], full, next)
    /\ tree' = <<>>
    /\ roots' = Append(roots, Entry(Call.ino, Call.path[1], FT_DIR))
    /\ UNCHANGED <<kind, bin, scripts, dirs, left, host>>

\* What main writes itself: files and directories of one block.  The last
\* entry of such a directory fills the block.
OneBlockFile(ino, path) == [ino |-> ino, ft |-> FT_REG, cell |-> Data(path, 0), nlink |-> 0]
OneBlockDir(ino, parent, es, nlink) ==
    LET all == Dots(ino, parent) \o es
        recs == [i \in DOMAIN all |-> Packed(all[i], MinSize(all[i].name))]
        used == RecSum(Front(recs))
    IN  [ino |-> ino, ft |-> FT_DIR, nlink |-> nlink,
         cell |-> [k |-> "dir", v |-> [recs EXCEPT ![Len(all)].rec = BLOCK_SIZE - used]]]

\* Each takes the next block.
PutItems(f, items) ==
    Put(Take(f, Len(items)),
        [b \in Base(f) .. Base(f) + Len(items) - 1 |-> items[b - Base(f) + 1].cell])
\* Their inodes, by number; inodes has them in the order of the items.
ItemInodes(items, inodes) ==
    [ino \in {items[i].ino : i \in DOMAIN items} |->
        inodes[CHOOSE i \in DOMAIN items : items[i].ino = ino]]

\* A phase of main that takes no input.
Fixed(at, f, full, next) ==
    /\ Phase(at, f, full, next)
    /\ UNCHANGED <<kind, bin, scripts, tree, roots, dirs, left, host>>

\* The program has ended.
Ended == pc \in {"done", "exit"} /\ UNCHANGED vars
=============================================================================
