# Memora in TLA+

Memora (`src/`) is a small TCP database server in C: one process per client,
users who own databases, and in each database a tree of paths whose nodes carry
key/value leaves. This directory models it: TLA+ modules translated from the C
sources, TLC configurations that check them on small instances, and TLAPS
proofs of what matters most for every instance.

Paths below such as `tree.c` are short for `src/src/tree.c`, headers are under
`src/include/`.

## 1. Inventory

| Component | Sources | State | Operations |
|---|---|---|---|
| Connections and dispatch | `memora.c`, `memora.h` | listening socket; per client a process with a `Client` (fd, username, role, logged_in, active_db) | `initserver`, `mainloop` (accept, fork), `child_loop` (read, split, dispatch), 19 handlers |
| Users | `users.c` | `database/users.db`: `name\|hash\|role` lines | `init`, `create_admin`, `create_user`, `delete_user`, `login`, `logout` |
| Database catalogue | `database.c` | `database/owners.db`: `user\|db` lines; one file per database | `create_database`, `delete_database`, `rename_database`, `list_databases`, `add_ownership`, `check_ownership` |
| Loading | `database.c` | -- | `use_database`, `load_tree` |
| Path tree and leaves | `tree.c`, `tree.h` | `root`; per node tag, uplink, left, sibling, leaves, path | `add_node`, `remove_node`, `find_node`, `add_leaf`, `update_leaf`, `remove_leaf`, `print_*`, `init_tree`, `reset_tree` |
| Path index | `hash_table.c`, `hash_table.h` | bucket array of doubly linked chains, capacity, count | `create_table`, `insert`, `delete`, `get_value`, `get_entry`, `exists`, `resize_table`, `free_table` |
| Line files | `utils.c` | a database's file; `temp-<pid>.db` during a rewrite | `add_to_file`, `add_leaf_to_file`, `remove_from_file`, `remove_leaf_from_file` |
| String helpers | `utils.c` | -- | `split`, `prepend`, `append`, `zero`, `prompt` |

**How they interact.** The parent process accepts and forks; the child owns the
connection and everything in memory. `use-database` checks the ownership file,
throws the old tree and index away and replays the database's file line by line
into new ones, calling the same `add_node` and `add_leaf` that serve the
commands. `add_node` asks the index for the parent, walks the parent's children,
inserts into the index and appends to the file; `remove_node` and the leaf
commands ask the index for the node, change the tree, and rewrite the file
(copy to a temporary file, remove, rename). All sharing between sessions is
through files; nothing is locked.

**What is hard.** Sequences of legal commands, not single ones: pointers that
outlive nodes (index entries, uplinks, list heads), lines that outlive the
nodes they stand for, two keys for one path, a hash table whose entries are
relinked while it grows. Between processes: read-modify-write of shared files,
and a process or the server dying between two file operations. The full list,
each with its line, is under `hazards` in `PROJECT.json`.

**What makes each component correct.**

* Index: it is a map. Every entry is in the chain its key hashes to, no key has
  two, a resize changes no binding.
* Tree: it stays a tree under every sequence of creates and removals; a removal
  frees the subtree and nothing else; a live node is reached by its path.
* Tree and file: what a later session loads is what this one holds. Nothing
  removed or overwritten comes back.
* Users: there is an admin, and it is created once; a name has one account.
* Catalogue: a database has one owner, the one who created it.
* Connections: a client's command is executed once and as it was sent; sessions
  do not outlive or block each other.

## 2. Plan

| Stage | Modules | Purpose |
|---|---|---|
| 1 (done) | `Dictionary`, `HashTable` | the index, shown to implement a map |
| 1 (done) | `PathStore`, `PathTree` | the core: tree, leaves, index and file of one session, shown to implement a path store |
| 1 (done) | `HashTableProofs`, `PathTreeProofs` | invariants and refinement for all constants |
| 2 (done) | `LineStore`, `DbFile` | several sessions rewriting one file step by step, a death between any two, replies before writes; shown to implement a store of lines |
| 2 (done) | `Accounts`, `Users` | bootstrap, accounts and login over `users.db`, restarts; shown to implement a set of accounts |
| 2 (done) | `Catalog` | ownership lines and files of several users, renames, deletes, descriptors |
| 2 (done) | `Connection` | accept and fork, commands cut and joined by reads, login gate, resources held |
| 2 (done) | `DbFileProofs`, `CatalogProofs` | their invariants and the refinement for all constants |
| 3 (done) | `Lines`, `LinesProofs` | what a rewrite of a file copies; induction over numbers and sequences |
| 3 (done) | `UsersProofs`, `ConnectionProofs` | their invariants and the refinement of `Accounts` for all constants |
| 3 (done) | `PathStoreProofs` | the tree, the index and the file agree; the refinement of `PathStore` |
| 4 | proofs | what of the path tree still holds with `Reuse`: nodes and index entries of sessions whose links were not yet misled |

`Lines` holds the one operator that `PathTree` and `Users` share, `Without`: the
lines a rewrite keeps.

How they compose. `PathTree` composes the index (as a `Dictionary`) with the
tree and the file, each command one step. `DbFile` is what justifies that step,
and says when it does not hold: `LineStoreSpec` shows that a command's file
operations, the drop and the append of `update_leaf` together, amount to one
step of the file until two commands collide or a process dies half way. `Catalog` takes over what those
operations do to the names of files (`AppendLine`, `RemoveFile`, `RenameFile`).
`Connection` leaves to the other modules what a command does, and says which
commands reach them.

## 3. The hash table (`HashTable`, `Dictionary`)

`HashTable` keeps `buckets`, `capacity` and `count` of `struct s_hash_table`; a
bucket is the sequence of its entries from the head of the chain. `Hash` reduces
the key's rolling sum `Sum[key]`, a constant, modulo a capacity, as `hash` does,
so proofs hold for every hash function of that form. `Insert` and `Delete` are
the whole functions; `insert` may end by starting a resize, and only when the
bucket was empty, since only that branch looks at the load factor.

`resize_table` is followed one loop turn at a time: `BeginResize` allocates
`fresh` (new_buckets), `MoveEntry` is a turn of the inner loop (the head of the
bucket being scanned becomes the head of its new chain), `NextBucket` of the
outer one, `FinishResize` swaps the arrays. No other operation comes in between:
a session is one thread. `Resize(c)` calls `resize_table` with any capacity from
1 up: the program's own call is unreachable (section 9), and the function
is meant to be right wherever it is called from.

*Abstract specification.* `Dictionary` is a map: a free key may be bound, a
bound one unbound. `Bindings` reads the map off the entries of both tables, and
`DictSpec` says that every step of the table is a step of the map or none. It
would accept a delete that unbinds another key than its own, which is what an
unlinking mistake does; `OperationsAgree` therefore ties each operation to the
map's operation on the same key, and the steps of a resize to no change.

*Run `hash_table`* (`MCHashTable`): four keys, two values, initial capacity 2,
resizes up to 4. The sums are computed as `hash` does from strings of small
characters, with the 32-bit width cut to 6 bits so that a sum wraps. With these
sums there are chains of one, two, three and four entries (a first, middle and last
entry to delete), and resizes that grow, shrink and keep the capacity. It checks
`Placed`, `KeysUnique`, `LookupAnswers`, `OperationsAgree` and the refinement `DictSpec`.
Keys and capacities beyond these bounds are what the proofs are for. That a
resize ends is not asked: a chain is a finite sequence here, and only a cyclic
`next` could keep the C loop going.

## 4. The path tree (`PathTree`, `PathStore`)

One session on one database. State and code:

| Variable | Code |
|---|---|
| `live`, `alloc` | the allocated nodes, the newest address |
| `tag`, `uplink`, `left`, `sibling`, `name` | the fields of `struct s_node` |
| `leaves`, `dangling` | a node's leaf list in order; nodes whose list head is a freed leaf |
| `index` | `hash_table`, as a `Dictionary` from paths to addresses |
| `file`, `pos` | the lines of `database/<name>.db`, those `load_tree` has read |
| `phase` | no database in use, loading, open, lost |
| `intact` | history variable: no session on the file has been lost |

A command is one action with everything it does to tree, index and file:
`CreateNode` is `add_node` and `add_to_file`; `RemoveNode` is `remove_node` with
`free_tree` and `remove_from_file`; `CreateLeaf`, `UpdateLeaf`, `DeleteLeaf`
likewise. `UseDatabase` is `reset_tree`, `create_table` and the start of
`load_tree`, which goes on line by line (`LoadMarker`, `LoadNode`, `LoadLeaf`,
`LoadDone`). `Exit` ends the session between two steps. A command that the code
refuses changes nothing and is no step.

**Freed memory.** The heap is modelled pointer by pointer. When a command follows
a pointer to a freed block, the behaviour is undefined: `Lose` makes the session
*lost*, its memory is no longer described, and the command's write to the file
may or may not happen. A lost session may go on to do any command's write
(`LostCommand`). `intact` remembers that a session was lost: from then on
nothing is promised. The properties below therefore speak of sessions that have
not yet stepped on freed memory, which is most of what a client sees, and of
whether they are sound up to that moment.

With `Reuse = FALSE` every allocation has a new address, so that a dangling
pointer is recognisable for good. With `Reuse = TRUE` malloc may hand a freed
block out again, and a dangling pointer may lead to a live node it was never
meant for.

**Paths.** `add_node` keys the index by the path as the client spelled it, looks
the parent up by the joined tokens, and splits at most sixteen tokens. A path is
therefore its segments and its spelling ("plain" or not); `MaxTokens` is the
sixteen.

**Walks.** The children of a node and its subtree are least sets closed under
the links a walk follows; `Resolve` descends a path segment by segment, and
`Replay` is the load of a file's lines one after the other. Both are recursive
functions, not RECURSIVE operators, so that they can be proved about. `TreeShape` guarantees the walks stay among live
nodes and end.

*Abstract specification.* `PathStore`: a session opens with the paths saved,
creates a path under a path that exists, removes a path with its subtree, and
both are saved with the command. `StoreSpec` maps `paths` to what the tree
resolves and `saved` to what `load_tree` would build from the file now. The file
is far from this: a removal deletes one line, the lines of descendants stay,
re-created paths are appended after their orphans. `CommandsAgree` adds that a
create or a removal does to its own path what the store promises: no command
does another one's work.

### Runs

| Run | Instance | What it asks |
|---|---|---|
| `path_tree_nodes` | five paths on two levels, three of them siblings; 5 addresses, 5 lines | `TreeShape`, `UplinkNotMisled`, `OneNodePerPath`, `IndexSound`, `StoreSpec`, `CommandsAgree`; under fairness of the load loop, `LoadEnds` |
| `path_tree_spelled` | two spellings of `/a` and of `/a/b`, a path cut at `MaxTokens` = 2 | `OneNodePerPath`, `IndexSound`, `StoreSpec`, `CommandsAgree` |
| `path_tree_leaves` | two paths, two keys, two values, lists up to 3, 5 lines | `NoLeafReturns`, `StoreSpec` |

Two more runs each show a disagreement between the code and what the repository
says of it (section 9 has the others):

| Run | Property | What happens |
|---|---|---|
| `path_tree_reuse` | `LinksLive`, with `Reuse` | create /a, /b, remove /a, create /c, remove /b: the uplink of /b leads to /c, /b is freed and stays linked |
| `path_tree_replay` | `ReplayOnlyReads` | replaying a leaf line appends it to the file being read |

`path_tree_reuse` and `path_tree_replay` were also reproduced on the built
server. The replay of leaf lines never ends as long as the disk lasts; in the
model `MaxLines` stops it, which is why `path_tree_leaves` reaches open sessions
with leaf lines only from commands of the same session and why `LoadEnds` is
asked of files without leaves.

**Bounds.** `MaxNodes` bounds the allocations of a session, `MaxLines` the file,
`MaxLeaves` a leaf list. Five addresses let a path be removed and created again
with its neighbours around it (first, middle and last sibling, a child under
each); five lines hold a path, its child, and their orphans and re-creations.
`CHECK_DEADLOCK` stays on: `Exit` and `UseDatabase` are always there.

**Fairness.** `FairSpec` assumes weak fairness of the load loop's turns only,
which wait for nothing and which no other process can disable. No command is assumed to be sent.

## 5. Sessions on one file (`DbFile`, `LineStore`)

Several processes run `add_to_file`, `add_leaf_to_file`, `remove_from_file` and
`remove_leaf_from_file` on one file, and `update_leaf`, which is the last and
then the second, one file operation at a time.

| Variable | Code |
|---|---|
| `exists`, `file` | `database/<name>.db` and the lines in it |
| `temp` | each process's `temp-<pid>.db`; it outlives the process |
| `pc` | where a process is: idle; with the file open for appending (`append`, for `update_leaf` `reopened`, or `stale` once the file it opened was removed); in a rewrite, `copied`, `removed`, and for `update_leaf` `renamed`; dead |
| `cmd` | what its command drops and adds |
| `acked`, `used`, `raced`, `lost` | history: answered lines, lines some command was given, two commands collided, a process died half way |

A command is `Adding` a line (`add_node`, `add_leaf`), `Dropping` a key
(`remove_node`, `remove_leaf`) or `Replacing` a leaf (`update_leaf`). `Add` and
`Write` are the two halves of an append; `Rewrite`, `Remove` and `Rename` those
of a rewrite, with `Reopen` and `Write` behind them for `update_leaf`.
`RewriteNothing` is the rewrite that finds no file: it closes a null pointer,
and the process dies. `Die` may come between any two operations; `Connect`
starts a process with the same pid and its leftovers.

Abstractions: a file is the *set* of its lines (their order is `PathTree`'s
subject), and a copy is one step: a file grows at its end or is replaced, so
that the copy holds what the file held when its last block was read. Which
commands a session gives is left open; a load only reads, and is not among them.

*Abstract specification.* In `LineStore` a session is given a command
(`Give`), which then drops its key's lines and adds its line in one step
(`Take`), or is given up before it had any effect (`Abandon`). `LineStoreSpec`
maps `pending` to the commands between their first file operation and the one
at which they take effect -- the write of an append, the remove of a rewrite --
and `lines` to `Lines`: the file, or the copy about to replace it while a
rewrite is in its gap, with the line that an `update_leaf` has still to append.
So an `update_leaf` is one step although it drops and adds, and a session that
loads the file in between is the only one to see its halves.

The store breaks only where two commands collide or a process dies half way.
Commands collide in a write between another's copy and rename; a remove or
rename while another has copied the file or has it open for appending; two
rewrites in their gaps at once; and a remove that drops the key of an
`update_leaf` between its rename and its append (`DropsNext`), which would have
come first and take effect last. Half way (`HalfDone`) is from the remove of
the old file to the last operation: for `remove_node` and `remove_leaf` the
rename, for `update_leaf` its append, since a death at `renamed` or `reopened`
has dropped the leaf and not added it. A death before the remove, a temporary
file left behind, a file created in the gap by an append that has not written
yet, and two copies made at once are harmless, which is what the run shows.
This is how far `PathTree`'s one-step `UpdateLeaf`, and its other writes, are
justified.

*Run `db_file`* (`MCDbFile`): two sessions, a node's key and a leaf's key, two
commands that may write each. Two sessions are enough for every collision that
the two flags distinguish, and both kinds of reply order are there; more sessions are what
the proofs are for. `AckedLeavesKept`: an answered leaf is in the file until a
command that drops its key is answered or is half way; it fails as soon as
leaves are answered before they are written, as nodes are. `FileReturns`, under
weak fairness of a process's next file operation: a missing file comes back,
unless a process died.

## 6. Users (`Users`, `Accounts`)

| Variable | Code |
|---|---|
| `server` | down; at the prompt of `create_admin`; granting (before the two lines of `owners.db`); serving |
| `file` | `users.db`, as what newlines cut it into; the empty sequence is no file |
| `owners` | who has the lines for users and owners in `owners.db` |
| `pc`, `as`, `target` | where a session is, `client->username` and `client->role`, the name of its command |
| `temp` | its `temp-<pid>.db` |
| `raced`, `hurt` | history: two commands collided; the file was lost, emptied or begun anew |

`Start` is `init`: no file, and it is created and the admin asked for; any
file, and it serves. `TypeAdmin` and `Grant` are `create_admin`. `CheckName`,
`OpenUsers`, `WriteUser` are `create_user`; `CopyUsers`, `RemoveUsers`,
`RenameUsers` are `delete_user`; `Login` reads the role the session keeps.
`LoseUsers` is what the catalogue's commands do to a database called users:
the admin owns it and may delete it, anybody may rename a database to it.
The cutting into lines is modelled by what it does, since it matters:
`create_admin` writes no newline, `create_user` writes one first, and
`delete_user` copies each line with the newline it has. Passwords are left out,
and a login stands for one with the right password; but a line keeps its hash,
so that two lines for one name are two accounts (`NewHash`: salts differ as
long as `Hash` has an unused one). `Stop` ends the server with its sessions, as
when it is interrupted from its terminal; `End` ends one session, at any moment.

*Abstract specification.* `Accounts`: once an admin has been asked for, users
are created under new names and deleted, and never the admin; a name has one
account. `AccountsSpec` shows the file operations of both commands to be such
steps, until two collide: a write or a rewrite that falls into another's
rewrite, or two sessions between the test and the write of one name
(`SameName`), which both append a line for it. Without that last clause the run
fails; with it, it says that overlap is the only way a name gets two lines.

*Run `users`* (`MCUsers`): two sessions, three names, two hashes, files of up to three
lines before a create (so four: the admin's, a first, a middle and a last one).
`LinesWhole`: no sequence of creates and deletes joins two accounts on a line.
`AdminKept`: however sessions collide and die, exactly one admin is in the file,
in every copy about to replace it and behind every session that holds the role
-- until the file was lost. It is about the role that sessions cache: `delete_user` compares with the session's own name, and only because all admins
are sessions of one account can none of them delete it. `UsersReturn`, under
weak fairness of a session's next file operation: a serving server gets its
`users.db` back.

*Run `users_bootstrap`*: `AdminAskedFor` is violated. A server stopped at the
prompt leaves an empty `users.db`; the next start takes it as it is, serves, and
nobody can log in. Reproduced on the built server.

## 7. Databases and their owners (`Catalog`)

| Variable | Code |
|---|---|
| `files` | the databases that have a file |
| `owners` | the lines of `owners.db` |
| `user`, `active`, `loaded` | `client->username`, `client->active_db`, whether `load_tree` found the file |
| `pc`, `target` | inside `create_database` (checked, opened), between `use_database` and the load, between a rewrite's remove and rename |
| `fds` | the descriptors the session has lost |
| `gone`, `spoilt`, `stray` | history: names once without their file; names given up, or created on top of a file; names whose file came to nobody |

`CheckCreate`, `OpenCreate`, `Own` are `create_database`, where another session may come
between test, `fopen` and the ownership line. `Delete` and `Rename` change
files and, as the code, not `owners.db`. `Use` and `Load` are `use_database`
and `load_tree`, which opens the file once more and may not find it.
`AppendLine`, `RemoveFile` and `RenameFile` are what the commands on the active
database do to its name, asking nobody: an append brings a deleted file back.
Every call of `check_ownership` costs a descriptor, a `use_database` two;
`Refuse` is the call that has no other effect.

*Run `catalog`* (`MCCatalog`): two users, two databases, two sessions, four
descriptors (enough for a use to be followed by another use, by a rename and a
create, or by a load that finds none left). `FileHasOwner`, `OneOwner`,
`EmptyTreeIsHarmless` say which accidents alone lead to a file of nobody's, a
name of two owners, and a session writing from an empty tree. Users, databases
and sessions are symmetric; the run checks safety only.

*Run `catalog_list`*: `ListedIsThere` is violated by create, then delete.
Reproduced on the built server, with rename as well.

The databases called `users` and `owners`, which the admin owns, are left out
here; what deleting or replacing `users` does is `LoseUsers` of `Users`.

## 8. Connections (`Connection`)

| Variable | Code |
|---|---|
| `parent`, `backlog` | the process in `mainloop`; connections not yet accepted |
| `fds`, `forked` | descriptors and children the parent holds: it never closes one nor waits for one |
| `client`, `child` | each client; the process that serves it, has ended, or could not be forked |
| `sent`, `unread` | how much of its script a client has sent, the pieces not yet read |
| `buffer`, `loggedIn` | `buffer` of `child_loop`, `client->logged_in` |
| `done`, `cut`, `ahead`, `answered` | history: what the child ran, in order; whether a read ended inside a command; whether the client sent one before it had its last answer; its answers until either happened |

A command is three pieces: its beginning, up to some point of its words, their
rest, and its newline. `Turn(c, n)` is a turn of `child_loop` whose read returns
the next n pieces, wherever that cuts: inside a word, before the newline, or
inside a later command. `buffer` is zeroed and read into, and whatever it holds
is split and dispatched, as the code does. `Spells` says what that may be:

* a command with or without its newline is that command, and a newline that the
  read before has left is skipped by `split` (`Words`);
* with anything behind it, it has arguments too many, and none of it runs;
* the beginning of a command may be that command with its last argument cut;
* what begins inside the arguments of a command may be any command at all,
  with or without the words of later ones behind it.

`Runs` asks the handler's login gate first; a cut login may succeed or not. A
run is recorded in `done` with the command it came from (`of`), the command it
was taken for (`cmd`) and whether these are one as it was sent (`whole`).
`RunsNothing` is every other turn, which the client gets an error for: no word,
no such command, no login, or not as many arguments. `Accept` is `accept` and
`fork`; with no child left, -1 passes for a child's pid and the client is served
by nobody. `Stop` ends the parent alone: its children go on.

*Run `connection`* (`MCConnection`): a client that sends a login and a command
that needs it, waiting for the replies or not, and two that come and go; reads
of up to four pieces (a command and the beginning of the next), three
descriptors, two children, so that fork fails for the last. A logout, a command
before its login and longer scripts are what the proof covers; in the run a
logout is what a cut command may be taken for. `CommandsAsSent`: whatever
cuts are taken for, a command runs whole at most once and in its turn, and then
no part of it runs; parts run only after a read has cut a command; nothing that
needs a login runs before one; and a client that waits and was never cut has
exactly its allowed commands run. `AllServed`: a client in the backlog gets its
process whatever the others do, until the parent is stopped or has no
descriptor left, or fork fails for want of children. `ChildEnds`: a process
outlives its client only for what the client had sent. `CHECK_DEADLOCK` is off:
when all clients are gone and the parent was stopped, nothing is left to happen.

**Fairness of these modules.** `DbFile` and `Users`: weak fairness of a
process's next file operation, which waits for no other process. `Connection`: weak
fairness of `Accept` and of each child's turn; the parent does nothing else,
and a child blocks only in `read`, which is when the turn is disabled. No
client, no command, no death and no restart is assumed to happen.

## 9. Known disagreements with what the repository says

Four are runs that expect a violation: `path_tree_reuse`, `path_tree_replay`,
`users_bootstrap`, `catalog_list` (and under `findings`, with the quoted lines).
The others follow from single definitions of the modules, which translate the code as it is:

* `count` stays 0: `insert` links an entry and never counts it
  (`hash_table.c:181`), so no insert resizes, against `hash_table.h:32`
  ("Number of entries") and `README.md:177`.
* `remove_node` deletes no entry of the hash table (`tree.c:449`), which then maps
  paths to freed nodes, against `hash_table.c:7` ("we will store path as key and
  node address as value").
* A promoted sibling keeps its uplink to the freed node (`tree.c:444`), against
  `tree.h:48` ("Points to the node layer above (parent)").
* Deleting the first of several leaves keeps the list head on it
  (`tree.c:661`), against `tree.h:51` ("Head of this node's Leaf list").
* Deleting one of two leaves of one key drops both lines (`tree.c:676`), against
  `tree.c:479` ("We will store the leaves as follows").
* `search-node` compares a whole path with single segments (`tree.c:137`), so that
  it finds no path of two, against `README.md:102` ("Check whether a path
  exists").
* Two sessions that create one name at the same time both append a line for it:
  nothing holds the name between the test (`users.c:106`) and the write
  (`users.c:143`), against `users.c:105` ("Check for a duplicate username
  first"). `AccountsSpec` says that nothing else gives a name two lines while
  the file is not being rewritten or hurt.
* `mainloop` is said to log a connection and close it (`memora.c:326`); the
  parent never closes its descriptor.

## 10. Proofs

Every invariant and every action property that a passing run checks is also a
theorem, for all values of the constants. Nothing is assumed but what the
modules assume by name: sums are natural numbers, capacities positive, `NULL` is
not a value; a path is a sequence of segments with at least one token, and its
parent is a path; `MaxTokens`, `MaxNodes`, `MaxLines` (of `PathTree`) and
`MaxRead` are positive and the other bounds natural numbers; `Reuse` is a truth
value; nodes' keys are keys; there is a name and there is a hash; a script is a sequence of commands
per client; `None` is neither a user nor a database. The path-tree theorems
marked below assume `~Reuse` besides.

### `LinesProofs`: induction over files

The library's induction theorems take a predicate as a parameter, which the
provers cannot instantiate. `LinesProofs` states induction with *sets* instead:
`LeastNumber` (a set of numbers that has a member has a least one, since `<` on
the naturals is well-founded), and from it `NumberInduction` and `SequenceInduction`.
`Iteration` says that a function with a given first value and given steps
exists, which is what a recursive function needs to be unfolded one line at a
time. `WithoutFacts` and `WithoutAppend` say what `Without` does: its lines are those
not dropped, no longer than before, and it goes on line by line. All proofs
about files rest on these.

### `PathTreeProofs`: the heap, the index and the paths

* `HeapTypeCorrect`, `TypeCorrect`: `Spec => []HeapType`, `Spec => []TypeOK`.
* assuming `~Reuse`, `Spec => []` of `TreeShape` (`TreeKeepsItsShape`),
  `UplinkNotMisled` (`UplinkNeverMisleads`), `IndexSound` (`EntriesStaySound`) and `OneNodePerPath` (`NodesAndPathsAgree`).

The first inductive invariant is `HeapInv`, of that module. `TreeShape` alone is not inductive:
`remove_node` relinks by `uplink[n]` and `tag[n]`, so that what it writes is the
link that led to `n` has to be known (`UplinkNotMisled`); and a new node must not
be anyone's neighbour yet, which takes `HeapBounds` (no live node or uplink is
newer than the newest allocation). The last is where `~Reuse` enters, and
`path_tree_reuse` shows that the tree goes wrong without it. The heart is
`AroundFreed`: no live node outside the subtree of `n` links into it after
`Unlink`. It is proved from the subtree being a *least* closed set: the subtree
minus a node nobody in it links to would be a smaller one.

`HeapInv` does not speak of paths, which the nodes do not store: a node has its
last segment only. The second invariant, `Placed(K)`, therefore says that there
is a labelling `K` of the nodes with paths such that

* a node's name is the last segment of its path (`Named`);
* a left link leads one level down and a sibling link stays on its level, under
  the same parent path (`LinksSpell`);
* every node is linked to by a live one, and the root has no sibling (`Reached`);
* no two nodes have the same tokens (`OneEach`);
* an index entry that is not dangling leads to the node labelled with its very
  key, and no entry is newer than the newest node (`Indexed`).

Its main consequence is `ResolvePlaced`: the walk along a path's segments finds
exactly the node labelled so, or nothing. `ChildrenFacts` is its step: the
children of a node are the nodes labelled one segment longer. A create extends
the labelling by the new node, and `OneEach` survives because `add_node` looks
at the parent's children first; a removal cuts the labelling down to the nodes
that stay, which are, by `SubtreeUnder`, those whose path is not under the
removed one.

### `PathStoreProofs`: the tree and its file

All assume `~Reuse`:

* `ImplementsPathStore`: `Spec => StoreSpec`.
* `CommandsDoTheirOwn`: `Spec => CommandsAgree`.
* `LeavesStayGone`: `Spec => []NoLeafReturns`.

`StoreInv` adds the file to `Placed(K)`. While no session was lost (`Filed(K)`):

* the labels are what a replay of the lines read so far builds
  (`Keys(K) = Replay(Loaded)`), all of the file once it is loaded;
* `Unclashed(file)`: whenever a replay meets the line of a path whose parent is
  there, the path itself is not there;
* while loading, every index entry leads to a live node and every node has one.

`Unclashed` is why a file full of orphans can be replayed: a removal drops one
line and leaves those of the descendants, and the lemma `RemovedReplays` shows
that a replay without that line builds exactly what is left after freeing the
subtree: every line under the removed path is refused, for want of its parent.
For that, no second line may be waiting to be accepted once the first is gone,
which is what `Unclashed` excludes. It holds because a path is created, and its
line appended, only when it is not there.
`StoreInv` gives `Agreed` (the paths of the tree are those saved), and each step of the
session is then a step of the store or none.

For the leaves, `HeldInv` says that each leaf line a replay would bring back
(`Returns`) stands for a leaf in memory. It needs `StoreInv`, since a leaf line
returns only if its node does. A deletion has to drop *all* the lines of a key
that could return, and a node re-created over the orphaned leaf lines of its
predecessor must find them refused; `LoadHolds` follows the load itself.

### The other modules

`HashTableProofs` (for all keys, sums, capacities):

* `TypeCorrect`, `EntriesStayPlaced`, `KeysStayUnique`: `Spec => []` of `TypeOK`,
  `Placed`, `KeysUnique`.
* `LookupsAreRight`: `Spec => []LookupAnswers`.
* `ImplementsDictionary`: `Spec => DictSpec`.
* `OperationsAreRight`: `Spec => OperationsAgree`.

The inductive invariant `HashInv` of that module says the same of both tables
in one form (`Sound`), that they have no key in common (`Apart`), and that the
buckets already scanned are empty (`Scanned`, without which `FinishResize` would
drop entries). Four lemmas say what appending, prepending and unlinking do to a
table's set of entries; the refinement follows because the bindings depend on
that set alone.

`DbFileProofs` (for all sets of sessions, keys and values):

* `TypeCorrect`: `Spec => []TypeOK`.
* `AckedLeaves`: `Spec => []AckedLeavesKept`.
* `ImplementsLineStore`: `Spec => LineStoreSpec`.

The inductive invariant `IInv` is `Shape` (types, and which command each state
of a process can be carrying out), and while the file is sound `SoundInv`: no
handle is stale, the file is there unless a rewrite is in its gap, at most one
session is in that gap (`OneRewrites`), every copy equals the file without the
key its command drops (`CopiesCurrent`), and `AckedLeavesKept` itself.
`CopiesCurrent` is what makes a remove the abstract step and a rename none; it
breaks exactly where `raced` is set. `StoreStepIsStore` sums the steps up: each
gives a command, takes one, abandons one, or changes neither lines nor pending
commands.

`UsersProofs` (for all sets of sessions, names and hashes, and any length of the file):

* `TypeCorrect`, `LinesStayWhole`, `AdminStays`: `Spec => []` of `TypeOK`,
  `LinesWhole`, `AdminKept`.
* `ImplementsAccounts`: `Spec => AccountsSpec`.

The inductive invariant is `Shape /\ OneAdmin /\ CopySound`. `Shape` says that
no line of `users.db`, nor of a copy of it, holds more than one account, and what
each state of the server and of a session implies of the file and the copy. `OneAdmin` names the one admin, of the file, of
every copy and of every session that holds the role, until the file was lost.
`CopySound` is the counterpart of `CopiesCurrent`: until two commands collide, a
copy holds the accounts of the file but one, and that one is not the admin's.
The refinement needs `NameFree` besides: until then a name that a session is
about to write has no account, because whoever would have written it in
between set `raced`.

`CatalogProofs` (for all users, databases, sessions and numbers of descriptors):

* `TypeCorrect`, `NameHasOneOwner`, `FilesHaveOwners`, `EmptyTreesAreHarmless`:
  `Spec => []` of `TypeOK`, `OneOwner`, `FileHasOwner`, `EmptyTreeIsHarmless`.

`OneOwner` speaks of lines of `owners.db`, which `create_database` writes after
looking at files only. The strengthening ties the two: a name with an owner, or
being created, has a file, or is in a rewrite's gap, or is spoilt
(`NamesPresent`), and no two sessions create an unspoilt name at once
(`CreatesAlone`). `EmptyTreeIsHarmless` needs that a session about to load has
had its file (`LoadsAFile`), so that not finding it puts the name in `gone`.

`ConnectionProofs` (for all clients, scripts of any length, read sizes and limits):

* `TypeCorrect`: `Spec => []TypeOK`.
* `CommandsRunAsSent`: `Spec => []CommandsAsSent`.

The inductive invariant is `Typed` and five parts for each client. `Stream`: the
unread pieces are the end of what was sent, and begin with a command unless a
read has cut one. `RunsFirst`: everything run is of a command that has
pieces read, whole ones entirely, so that a turn runs nothing a second time.
`InOrder`: what was run is in the order sent, and no command both whole and in
part. `Gated`: parts ran only after a cut, who is logged in has run a login, and
nothing that needs one came before it. `InStep`, for a client that waits and was
never cut: at most its last command is unread, and that whole; it is logged in
if and only if a login was among those answered; and the commands run are
exactly the answered ones that it was allowed.

### What stays with TLC

*Only model-checked:* liveness (`LoadEnds`, `FileReturns`,
`UsersReturn`, `AllServed`, `ChildEnds`), which needs ENABLED and is out of this
prover's reach.

The theorems that assume `~Reuse` say nothing of a malloc that hands a block out
again while an old pointer to it is still followed; there `path_tree_reuse`
shows `LinksLive` to be false. The four runs that expect a violation are
counterexamples, and nothing is proved about them.

## 11. Not modelled

* Write errors and full disks; `fclose` is taken to write all that was put.
* `|` inside names and values, lines over 255 characters, arguments over 63,
  format characters in names.
* A command that is sent a second time by a client that got no answer.
* The databases `users` and `owners` as databases with a tree of their own,
  beyond `LoseUsers`.
* The load loop racing another session's rewrite: `load_tree` reads a file it
  has open, which a rewrite replaces but never changes; appends of another
  session during a load are those of `DbFile`, at the end of what is read.
* Allocation failure, and the commands `tree`, `hash-table`, `search-node` before
  any `use-database`, which at worst end their own session (`Exit`, `Die`).
* `search-node`, `tree`, `hash-table`, `print-leaves` as answers: they only
  read; `PathTree` keeps the reads that step on freed memory.
* Formatting: `indent`, `print_node`, `print_entry_list`, the banner; socket
  set-up in `initserver`.
* The next/prev pointers of the hash chains: a chain is the sequence of its
  entries, and the unlinking of a first, middle or last one is `Unlinked`.
* `get_value_by_key`, which nothing calls.
