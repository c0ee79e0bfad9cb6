# iolsucker: models and proofs

iolsucker mirrors the course material of an IOL server (an intranet of ASP pages) into a local
directory, the *repository*. It logs in, makes each course of the user the current context, crawls
the course's material folders, and downloads what is missing. iolwizard is a GTK window that edits
`~/.iolrc` and starts iolsucker.

This directory models that program in TLA+. Modules are checked by TLC on small instances; theorems
are proved by TLAPS for all instances. Line numbers are of the files under `src/`, so that
`src/src/iol.c` is the file `src/iol.c` of the repository, written `iol.c` below.

## The system

| component | state | operations | meets | what is hard |
|---|---|---|---|---|
| **file download** `iol.c` `foreach_getfile`, `_transfer_page` | the files of the repository, `.download.tmp` of each directory | stat, fopen, write, fclose, rename, remove | called for every file of a resync; shares the disk with every other process | broken transfers, kills, full disks, two processes at once |
| **resync** `iol.c` `iol_resync_all`, `iol_resync`, `iol_resync_download`, `convertRepository`; `common.c`; `stringset.c` | the directory of each course, the list of its files, the xenofobe set | scan, rename or make the directory, cut the common folders, visit the files, report | uses session, crawl and download | what one run leaves is what the next starts from: options, course lists and common folders change in between |
| **crawl and cache** `iol.c` `get_file_list_from_current`, `link_files_fnc*`; `cache_db.c` | the queue of folders, the list of addresses, the cache in the repository | fetch a page, follow links, resolve file numbers | uses the link parser; its list goes to resync | cycles of links without a visited set; stale addresses; a failure half way |
| **session** `iol.h`, `iol.c`, `course.c` | logged in, the courses and their flags, the current course; on the server the session and its context | the public calls | main program | client and server may disagree after a lost answer |
| **courses of a page** `course.c` | – | find the entries of a page, cut out code and name, read the capabilities of a course | session, resync | links are recognised by text; names are the server's to choose |
| **forums and news** `forum.c`, `iol.c` | – | parts of a resync, a call of their own | session | a part that fails ends the others |
| **main program** `main.c` | the options, the exit status | `validate_opt()`, the table of settings, `suck()` | session | every exit has to log off; success has to mean something |
| **link parser** `link.c` | a state, two fixed buffers | one character at a time, end of page | crawl, courses, news | pages are written by people: links not closed, too long, one in another |
| **settings** `config.c`, `opt.c`, `main.c`; **wizard** `iolwizard/ui.c` | `~/.iolrc`, `~/.iolrc_`, `struct opt`, the window | load, save, the buttons, fork | the wizard and the runs it forks share the file and nothing else | a save that fails or is killed half way; a run that reads between two saves |
| **progress display** `progress.c` | dots and rows, or the bar, its buffer and its image | create, update, finish | libcurl's callback during a transfer | chunks of any size, totals that lie, a screen whose width changes between two calls |
| **URL helper** `urihelper.c` | – | split a link into base and parameters | crawl | which links are folders hangs on how parameters are counted |
| **password prompt** `getpass.c` | the echo of the terminal, the signals ignored | `getpass_r` | main program, the user | an interrupt while the echo is off |
| registry settings, launcher, demo, directory browser | – | – | – | – |

What makes each correct: a file under its final name is complete and never touched again
(download); a file of a course is in one directory, that of its course, under its own name, and a
report names what is foreign (resync); every file of every folder is found, no link
that changes the server is asked for, and the crawl ends (crawl); E_OK means the course was crawled in its own context, and the program logs off (session,
main); an interrupt leaves the terminal as it was (prompt); exactly the links of the page are reported (parser); a run works with what the window
showed, a killed wizard leaves a usable file, a clear leaves no secrets (settings);
what is displayed is what was received, in the space there is (progress).

`PROJECT.json` lists the hazards at their lines, and the properties that watch each.

## Modules

| module | models | its abstraction |
|---|---|---|
| `Repository` | what the repository promises: a file appears once, in one step, and stays | abstract specification |
| `Download` | `foreach_getfile` and the file half of `_transfer_page`, several processes, kills | a file is N stdio buffers; descriptors name inodes |
| `DownloadProofs` | theorems about `Download` | |
| `Courses` | what `course.c` reads out of the links of a page, and makes of names | a link is a sequence of characters and of the parameter names `strstr` looks for |
| `Selection`, `SelectionProofs` | the members of a sequence that are in a set, and what the definition gives | |
| `Resync` | runs of iolsucker over the courses, in a repository the user also uses | crawl and download of a file are one step; a file is a path |
| `ResyncProofs` | theorems about `Resync` | |
| `Session` | the calls of `iol.h`, any caller, any order | a transfer is answered, unsent or lost; a setting is good or bad |
| `Suck` | `main.c`: `Session` driven by `validate_opt()`, the prompt, the table of settings and `suck()`, and interrupted | of a password, whether it is right |
| `SuckProofs` | theorems about `Suck` | |
| `Crawl` | the queue of folders, the links followed, both passes over a page, the cache | a folder is the text of its address, a link its base and parameters, a file a number |
| `CrawlProofs` | theorems about `Crawl` | |
| `LinkParser` | the table of states of `link.c` and its functions | twelve kinds of characters, `space` one of them |
| `LinkPage` | an author who writes a page, and `LinkParser` reading it | |
| `LinkPageProofs` | theorems about `LinkPage` | |
| `Settings` | `config.c`, `opt.c`, the callbacks of the wizard, runs | a value is set or not, plain, raw or with markup |
| `SettingsProofs` | theorems about `Settings` | |
| `Progress` | `progress.c`: both meters, libcurl's callbacks | of an image, its lengths and numbers |
| `ProgressProofs` | theorems about `Progress` | |
| `MC*` | the constants of the runs | |

How they compose: `Download` implements `Repository` (`Promise == INSTANCE Repository`). `Suck`
extends `Session`, `LinkPage` extends `LinkParser`, `Session` and `Resync` extend `Courses`, which
takes the entries of a page, as `Crawl` the folders, with `Selection`.
`Resync` sees a download as `Download` shows it, absent or there; the file with the last buffer
short is not told apart. It sees a crawl as `Crawl` shows it: a set of the course's files that may
lack some, silently when a number was not resolved, or with an error.

State to code, where the names differ: in `Download` `name`, `tmp` and `data` are the directory
entries and contents, `todo[p]` the rest of the list `g_slist_foreach` walks, `pc` the place in
`foreach_getfile`. In `Resync` `dir` is `tmp.prefix`, `common` the length of `tmp.url_prefix` in
folders, `repfiles` the string set, and `name[c]` what `course.c` makes of the title of a course. In
`Session` `courses` is the list oldest entry first, `courses[current]` is `iol->current_course`,
`flags` the field of each entry, `taken` the settings `iol_set` has stored. In `Suck` `row` is the
place in `settings_table`. In `Crawl` `layout`, `numbers` and `version` are the server's, `pending`,
`last`, `files` are `t.pending`, `last_fid`, `t.files`. In `Settings` `temp` is `~/.iolrc_`; `wizard` is the place in a
callback, which GTK runs to its end before the next one. Variables marked history are read by
properties only. An action is one call or one stretch of code no other process can see inside.

Operators marked Mutant are variants with a plausible bug, one for each property, which TLC must
find when it stands in for the definition after it.

## Runs

Bounds are the constants of each `.cfg` and MC module.

**download_isolated** (`Download`): two processes, each in its own repository, three files of two
buffers, five inodes (three names, two temporaries: never one more). Failing `fopen`, transfers
and `fclose`, kills at any step, restarts. Two files in one directory share a temporary, which is
where a stale one would show; two buffers tell a partial file from one short by the buffer `fclose`
lost. Shows `FinalComplete`, `NeverReplaced`, `TemporaryAccounted`, that `Download` implements
`Repository`, that every run ends (`RunEnds`), and that restarting is enough (`Converges`): whatever
failures and kills came first, once downloads stop failing the repository fills up.

**download_shared** finds `DownloadsOnlyMissing` violated when two processes share a repository,
as two presses of the wizard's button make them: see Findings.

**resync** (`Resync`): two courses, one with two files of one name in two folders and another that
offers a file of that name at the top; runs with and without `--fancy`, with the report; files
published and withdrawn between runs, the user's own file under a name the courses use. That is the
smallest instance where common folders change without becoming fewer or more, names collide within a
course and across courses, and directories get renamed. (What a dry run does, one whose downloads
fail does too; a run without the report does what one that ends before it does.) Nothing tells the
two folders apart, hence the symmetry. The courses have two names, or one name in two
spellings, and then one directory under `--fancy`: what is said of each course by itself is said of
those whose name no other has (`Sole`); `Placement` and `NoLoss` hold of both. Shows `Placement`,
`OneDirectory`, `NoLoss`, `Delivered`, and for the xenofobe report `ReportsOnlyForeign` and
`ReportsEveryForeignInPlace`. `Delivered` and `ReportsOnlyForeign` are said of courses whose lists
had the same folders in common (`Stable`), not only as many: `gp/a` alone and then `tp/a` alone are
both stored as `a`. **resync_complete** and **resync_report** are its findings, for one course and
all options.

**suck** (`Suck`): two courses, one with material, a department, another whose code begins with 4,
a course whose code cannot name a directory; pages of one to three links to them, plain and as
scripts, with repetitions and with links that are no entry; options with and without a user, a
password (then asked for), a forum and a repository, and four settings of which the library may
refuse the value; every request answered, unsent or lost. Three links are two entries and a third
that fails, is repeated or is none. Shows `ResyncedIfOK`, `SuccessMeansSynced`, `EndsLoggedOff`,
`TerminalRestored`, `Terminates`; an interrupt may come at any moment, and leaves the session on the
server open. The program ends, hence `CHECK_DEADLOCK FALSE`. **session_retry** is the finding for
callers other than `suck()`: one login and a page of two entries are enough for it.

**crawl** (`Crawl`): folders `a`, one in `a` with a space in its name, and `ab`, whose name begins
with `a`'s; six ways to link them across besides the links down, up and to themselves, among links
that empty a folder, links to elsewhere and to other scripts; a number twice in a row and on two
pages, calls without a number; an address that changes once; every page and number may fail, and
the cache may fail to be written; runs with and without it and for two hosts, one after another.
Shows `Complete`, `NoCacheFresh`, `LooksOnly` (the server does what is asked of it: a link with a
parameter more deletes material), `Terminates`. The
space is there for the bug `NOTES` tells of 2.0.26 (escaped against unescaped addresses), the mutant
of `Terminates`. Layouts where the links that are followed go round are left out, and are the limit
of the code: the crawl of those does not end.

**links** (`LinkPage`): pages of any length (the state is finite), three addresses of which one is
longer than the buffers (Cap 4), four ways to write an anchor, two whose address the parser does not
find, other elements, links not closed or inside another. Shows `BuffersHold`, `ReportsAsWritten`,
`OpenLinkNotLost`.

**settings** (`Settings`): one run and the wizard, a secret and a flag that are edited, a user and
a repository given on the command line, every call of a save failing, kills between any two, runs
from the button and from a shell. One run is enough: runs do not meet. Values that cannot be read
back are among those typed. Shows `RunUsesShown`, `WizardRemembers`, `KillKeepsFile`, `Forgotten`.
**settings_priority** is its finding.

**progress** (`Progress`): dots of 2 bytes and rows of 3 dots, sizes up to two rows and a rest, so
that a callback brings nothing, less than a dot, and more than a row; for the bar, sizes of 1 to 13
characters, totals unknown, too small or too large and changing with every call, four times around
the 200 ms between images, five widths around the smallest the bar accepts, any number of
transfers. Shows `DotsAccount`, `SpeedsCover`, `ImageFits`, `NeverBeyond`, `LastImageTells`; the
asserts of `create_image` are among them. The clock does not go back: if it did, an assert of
`calc_rate` would end the program, which is listed as a hazard.

### Fairness

`Download` has weak fairness of each process's steps, kills apart: it has no locks and waits for the
server only. `Suck` has it for the program, `Crawl` for the crawl. All three take a transfer to
come to its end, well or badly; the code sets no time limit (`iol.c:335`), so that a server that
keeps a connection open in silence does hold the program, which is listed as a hazard. `Converges`
assumes, in its own statement, that failures stop and the program is started again.

## Findings

- **DownloadsOnlyMissing**: `stat` and the download are apart, and nothing keeps a second process
  out: a file brought in between is downloaded again and renamed over.
- **SyncComplete**: local names depend on the folders common to the list of each run. A file stored
  as `material/a` while it was alone in `tp` keeps the name of the `a` published later, which is
  then never downloaded. Lists with other folders in common, but as many, do the same.
- **ReportsEveryForeign**: the xenofobe scan comes before the renaming of the directory, and
  misses its files in the run that switches `--fancy`.
- **ResyncedIfOK** for a caller that tries again: the course is noted as current before the request
  that may fail, so a second call does nothing and returns E_OK.
- **CommandLinePrevails**: the manual gives the command line priority; the file is loaded over it.

Three limits of the code are stated in the properties, as exceptions without which TLC finds them
violated: a department whose code begins with 4 is taken for a course, as `strstr` finds `nivel=4`
in `snivel=4`, and is passed over with E_OK (`Told`); the files of two courses of one name get mixed
under `--fancy` (`Sole`); a link with a second space before `href` loses its address and, inside
another link, is reported with the address of that one (`WriteBareAnchor`).

## Proofs

`DownloadProofs`, for any sets of processes, directories and files and any number of buffers, under
`ConstantsAssumption` and `Isolated` (no two processes share a directory; without it
`FinalComplete` is not an invariant, two writers would share a temporary):

- `TypeCorrect`, `FinalsComplete`, `FinalsNeverReplaced`: `Spec => []TypeOK`, `[]FinalComplete`,
  `NeverReplaced`.
- `DownloadImplementsRepository`: `Spec => ImplementsRepository`.
- `TemporariesAccounted`: `Spec => []TemporaryAccounted`, without `Isolated`: whoever renames or
  removes a temporary leaves none, and whoever makes one is at work in its directory (`Accounted`).

`FinalComplete` is not inductive: that a rename shows a complete file depends on what the process
has written, and that nobody writes to it later on who has it open. `IInv` adds `Distinct` (no inode
has two names, final or temporary) and `Work`: a process with a file in hand works in its own
repository, on a name that is still absent (`InHand`); while writing it has the directory's
temporary open, with the right text up to its offset (`Written`); after a good transfer there is that
temporary, with the whole text (`Received`). `Apart` draws from `Isolated` that two
busy processes are in different directories; `WritesOwnIInv` uses it once for the four actions that
write. One lemma per action shows that `IInv` is preserved; `FinalStep` extracts what a step does to
final names, from which the action property and the refinement follow.

`SettingsProofs`, for any set of runs, any fields edited, any values typed and
any command lines (`Settings` itself fixes the names of the fields, which are the code's), under
`ConstantsAssumption`: the inputs are settings, a raw text is neither no text nor a plain one, and
`None` names no callback.

- `TypeCorrect`, `KillIsHarmless`, `ClearForgets`: `Spec => []TypeOK`, `[]KillKeepsFile`,
  `[]Forgotten`.
- `RunsUseWhatIsShown`, `WizardRecalls`: `Spec => []RunUsesShown`, `[]WizardRemembers`.

The first invariant, `IInv`, adds to `TypeOK` what happens while a save goes on. `Whole`: the
document about to be renamed is complete unless a write failed. `Written` and `Blank`: it has
nothing that `opt` has not, and during and after a clear `opt` holds no secret, nor does the window
after it; `Forgotten` alone is not inductive, the next save would write back what memory still had.
`Agree`: `opt` follows the window's flags through a save, as `TypeOK` claims of idle moments only.
The second, `RInv`, rests on `IInv` and is about one notion, `Faithful`: a file that parses and has
for each remembered setting what the window showed. A save produces such a file (`InStep`,
`Saving`); each run that is to read it (`Pending`) and a wizard that was left (`LeftBehind`) find it
still faithful because whatever replaces the file forgets them; and showing what was shown changes
nothing (`Normal`). `ReturnGives` and `ReturnRInv` prove once what follows a save, for the three
callbacks and for a save that failed.

`ProgressProofs`, for any `DOT_BYTES`, `DOTS_IN_LINE`, sizes, totals, times and widths:
`DotsAreBytes` (`DotsAccount`), `SpeedsAreOfAll` (`SpeedsCover`), `NothingBeyond` (`NeverBeyond`),
`LastImageOfAll` (`LastImageTells`), `TypeCorrect` (`TypeOK`). `Account` is the account between any
two dots, with the speeds printed so far those of the rows; `ShareNat` and `ShareBound` are the
arithmetic behind the percentage. `Drawing` says that the screen is at least as wide as the smallest
bar and the buffer as long as the bar in use.

- `ImagesFit` (`ImageFits`), under `FilesBelowTerabyte`. The hypothesis is a limit of the code: the
  number of bytes is the only part of a line without a fixed length, and with more than twelve digits
  the line is longer than a bar of 44 columns. That numbers below 10^12 have at most twelve is proved
  of the recursive `Digits` (`CountsExist`, `TenTimes`, `LegibleBelow`).

`LinkPageProofs`, for any `Cap` but 0 and any addresses, text and elements, under `CapAssumption`,
`NoneAssumption` and `PageAssumption`:

- `BuffersNeverOverrun` (`BuffersHold`), `TypeCorrect` (`TypeOK`). `PutHolds` is what the four
  functions that append share; `TableClosed`, state by state, and `TakenIsRow` keep the machine in its
  table.
- `ReportsTellThePage` (`ReportsAsWritten`), `OpenLinkReported` (`OpenLinkNotLost`): the parser
  understands every page made of the elements, not only the pages of the run.

The last two say something of the moments between two elements; `PInv` says it of every moment: what
is left of the element takes the parser from where it is (`Now`) to where it should be at its end
(`Final`). `After` is one character, `Reads` a string of them. `Taken...` read the table, one lemma
per state; `Quiet...`, `LinkSteps`, `CommentSteps`, `DoneSteps` are its steps; the elements are
strings of those (`AnchorRead`, `BareAnchorRead`, `TagPassed`, `TagInText`, `TagEnds`), put together
by `ReadsBoth`. That a buffer filled character by character is the whole cut to its size is
`CutPut`, `AddedIs`. `PageAssumption` says what a page is made of: addresses without quotes, spaces
and `>`; text without `<`; tags that are `<`, no bracket, `>`, of which those inside a link do not
begin with an `a` (`</a...` but for `</a>` may), nor have two spaces in a row, as the text of a link
has them made one. That limits the page, not the parser: addresses are cut at the first quote, and and a
tag like `<abbr>` inside a link puts `</ab` and a NUL into its text.

`ResyncProofs`, for any courses, paths, titles, options and directory names, under
`ConstantsAssumption` (a path has at most two folders, no name is both a folder's and a file's, no
code of a course is the name of one): `TypeCorrect`, `FilesStayPut` (`Placement`),
`NeverTwoDirectories` (`OneDirectory`), `NothingLost` (`NoLoss`), `DeliveredStays` (`Delivered`),
`OnlyForeignReported` (`ReportsOnlyForeign`), `EveryForeignReported` (`ReportsEveryForeignInPlace`).
They are not inductive: a rename replaces what is below the new name, and a run that goes on writes
where it was. `Housed` says that files are only in directories that exist, so that there is nothing
below the new name; `AtWork` that a run works in one of the two directories of its course, which
exists, and remembers what it cuts off. `MoveStep`, `MakeStep` and `QuietStep` are the three ways of
`Settle`; `WriteStep` is what a download and the user's own file share; `Kept` is `NoLoss` with the
course whose directory was renamed, from which `Delivered` follows. `CommonIsFolders` and
`BelowIsLocal` are what `TypeOK` needs of `get_common_startpath`: something of every path is left.
The report (`Reporting`) is an invariant of the run under way: of the courses visited so far there is
no directory but the one asked for (`Straight`), their files in the report are those still to be
visited (`KnownVisited`), and the unknown ones are all in it (`UnknownListed`).

`SuckProofs`, for any courses, pages, settings and passwords, under `ConstantsAssumption` of `Session`:

- `TerminalIsRestored` (`TerminalRestored`), `AlwaysLogsOff` (`EndsLoggedOff`). `TtyInv` ties the echo
  and the ignored signals to the places in `getpass_r`, `LoggedInv` the session to the places between
  the login and the end; `LogoutForgets` is what `Destroy` rests on.
- `SuckTypeCorrect` (`SuckTypeOK`), `ResyncTellsTheTruth` (`ResyncedIfOK`), `SuccessIsEarned`
  (`SuccessMeansSynced`).

The last two are false of `Session` by itself (see Findings), and true of it as `suck()` calls it.
`Sync` is why: before the login there is no course (`BeforeLogin`); while `foreach_resync` is at work
there is one page, one session, the current course is the server's context, its flags are the
sections of that context (`Current`), and every course before the one at hand is crawled (`Crawled`),
since the first failure ends the walk. It rests on what `course.c` reads: the code of an entry is the
text between `snivel=` and the first semicolon, and links to two contexts have two codes. The
assumptions on pages say what the server writes, a link with a code of a context links to it, and
nothing of how many there are, in which order, or what else a page links to.

`CrawlProofs`, for any pages, layouts, numbers, hosts and versions: `TypeCorrect` (`TypeOK`),
`WithoutCacheFresh` (`NoCacheFresh`), `OnlyLooks` (`LooksOnly`), `CrawlIsComplete` (`Complete`).
`Typed` has what is behind the first three: an address is in the cache or in the list only if the
server gave it (`Given`), and in the list of a run without the cache only if it is as new as the
crawl and of its host (`Good`). `Covered` is behind the last: as long as nothing failed, every page
was read, is being read, or is in the queue or below a folder in it (`Queued`), though links to
folders above, or whose address begins the page's, are not followed. That needs `FoldersAssumption`: from every
page one reaches the pages below it by links to longer addresses, which is how the server lays out
folders. `LinksAssumption` says that what is linked as a
folder is one, `SiteAssumption` only names types.

`SelectionProofs`: `SelectInSelects`, what `Courses` and `Crawl` need of a selection. Selections were
written with `SelectSeq`, of which nothing can be proved here; `SelectIn` is a recursive function,
and a set of numbers in the place of a predicate lets the library's induction be used
(`InductionSet`). `Digits` is treated in the same way.

Every invariant and every action property the runs check is so proved, under the assumptions named;
what the runs add is that the instances meet the assumptions, and the mutants. Liveness (`RunEnds`,
`Converges`, `Terminates`) is out of the prover's reach and model-checked only.

## Not modelled

- The drawing of the bar inside its brackets, rates and times left: `Progress` keeps their widths.
- What the forum and the news calls print; the parsing of the news is libxml's.
- `win32.c`: a Windows build keeps the settings in the registry, a value at a time, and reads texts
  only where the command line gave none, so that `Settings`, which is about `~/.iolrc`, does not hold
  of it. Read alone, it saves `no_cache` without reading it, and reads `socks5` back as `sock5`.
- The launcher, the offline demo, the directory browser, the layout of the window.
- Memory errors (a page of zero bytes, an address longer than its buffer, an empty course name):
  listed as hazards, with no state after them to speak of.
- A server that renames a course between two runs: `Resync` keeps a name for good.

## Plan

Done: `Repository`, `Download`, its proofs; `Courses`; `Resync` with equal names, its proofs;
`Session` and `Suck` with settings, options, the prompt, contexts and parts, proofs about `Suck`;
`LinkParser` and `LinkPage`, their proofs; `Crawl` with links and hosts; `Settings`, its proofs;
`Progress`, its proofs; `Selection`; the proofs about `Crawl`, the report of `Resync`, the success of
`Suck` and the pages of `LinkPage`. Next, in this order:

1. That `Resync` implements a specification of what a repository promises across courses: files
   appear, are kept, and move with their directory.
2. `Resync` with a server that renames courses between runs.
3. What `Terminates` rests on, as a safety property: a measure of the queue that every page read
   decreases where the links that are followed do not go round.
