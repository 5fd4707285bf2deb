# Formal models of hardware-license

The repository issues offline licenses that are bound to a machine's hardware
and verifies them on that machine, in Go (`internal/license`, `cmd/`) and in
TypeScript (`verifier-node/`). There is no server: what a device remembers
between two verifications is one file, `.watermark`, and what protects it are
the order of a few file operations and a handful of comparisons of times. These
modules model that protocol: what happens when verifications interleave, when
processes and machines die, when clocks move, when operators replace files.

## Inventory

| Component | State it keeps | Operations | What is hard | What makes it correct |
|---|---|---|---|---|
| Verifier (`verify.go`, `watermark.go`; `verify.ts`, `watermark.ts`) | `.watermark`; locals of a run | `Verify`: read license, collect hardware, load watermark, gate, save | no lock between load and save; ignored save errors; clock read long before it is used; two languages over one file | times accepted once are remembered, refusals that reached the disk last, ok is never answered on the strength of something unsaved |
| Atomic file replacement (`util.go`, `watermark.ts`) | a file, temporary files | create, write, sync, close, chmod, rename | kill and power loss between any two calls | readers find a whole document, old or new, and never none |
| Application (`instrumentation.ts`), Docker, PM2 | the running process, its timer, restart counters | `register`, the recheck, exit 78, restart | staleness between rechecks; a recheck is a verification and moves the watermark; giving up | it stops soon after the license does, and comes back by itself |
| Issuer (`cmd/issuer`, `issue.go`, `crypto.go`) | `private.pem`, `public.pem`, `hardware.json`, `license.json` | `keygen`, `sign`, `inspect` | several files written one after the other; look first, write later | the key files are a pair; what is signed verifies |
| Registry (`issue-and-store.sh`, `licensedb`) | a MySQL table, the files it reads again and again, shell variables | sign, inspect, store, migrate | sign succeeds and store fails; retries; runs that replace each other's files; concurrent migrations; a pooled connection that is lost with its `USE` | a row describes one license, done means stored, what is stored stays |
| Fingerprint (`fingerprint.go`, `fingerprint.ts`, `hwinfo`) | none; locals of a collection | resolve flags and environment, collect sources, hash | sources that come and go (GPU timeout, disks, permissions); four tools in two languages with a configuration of their own | same machine, same fingerprint, whoever asks |
| Canonical JSON (`canonical.go`, `canonical.ts`, `unmarshalStrict`) | none | decode, encode, hash | two implementations; Go hashes what it decoded, Node what it parsed | same document, same bytes; what is accepted is what was signed |
| Makefile, Dockerfile, `cross.test.js` | none | build, test | | |

How they interact: `hwinfo` makes `hardware.json`; `issuer sign` turns it into
`license.json`; the operator copies that and `public.pem` to the device; the
application calls `verifyLicense` at startup and every hour and exits with 78
when it is refused; the supervisor starts it again; the `verifier` CLI runs by
hand on the same directory. `docker-compose.yml` mounts one `./license` into
both, so that the Go and the TypeScript verifier share the watermark.

## Modules

| Module | Models | Used by |
|---|---|---|
| `License.tla` | the documents; each check of `Verify`, `AdvanceWatermark`, `Issue` as operators without state | all others that know licenses |
| `Verifier.tla` | verifications by any number of processes, Go or TypeScript, on one device | `MCVerifier`, `VerifierProofs` |
| `HighWater.tla` | abstract: a high-water mark with strikes, which decides what may be accepted | refined by `Verifier` |
| `AtomicFile.tla` | both ways to replace a file, call by call | `MCAtomicFile`, `AtomicFileProofs` |
| `FileCell.tla` | abstract: a cell replaced at once, which a power loss may set back | refined by `AtomicFile` |
| `Supervisor.tla` | the application over its life | `MCSupervisor`, `SupervisorProofs` |
| `Signing.tla` | `issuer keygen` and `issuer sign` | `MCSigning`, `SigningProofs` |
| `Registry.tla` | `issue-and-store.sh`, `issuer inspect` and `licensedb store`, by several runs on one database | `MCRegistry`, `RegistryProofs` |
| `Fingerprint.tla` | configuration and collection of `hwinfo`, `issuer sign -local`, `verifier` and the application on a changing machine | `MCFingerprint`, `FingerprintProofs` |
| `CanonicalText.tla` | both canonical encoders: strings, keys, and a value given what is in it | `Canonical`, `CanonicalTextProofs` |
| `Canonical.tla` | the strict decoder, and signed files that are edited | `MCCanonical`, `CanonicalProofs` |

**Data.** Cryptography is symbolic: a derived key is the pair (fingerprint,
license id) it is derived from, a MAC is its key, a ciphertext is the plaintext
with its key, a signature is the fact that it verifies. Times are ticks; 0 is
Go's zero time. Names, features and notes are left out. Licenses that the
instances install are made by `Issue`, or differ from such a one in one field.

**Steps.** `Verifier.tla` cuts a verification where it looks at the world:
`Start` reads the clock, `ReadLicense` the license, `CheckHardware` the hardware,
`LoadWatermark` the watermark; `SaveWatermark` replaces the watermark and
answers. Whatever the code computes between two of these is local and belongs to
the step. A save is one step here because `AtomicFile.tla` shows that a reader
cannot tell. A crash after a save and before the answer is a save whose answer
nobody heard; `Start` forgets answers. `Supervisor.tla` takes a whole
verification as one step, on unchanged hardware. It levels the rewind counter
past the limit and forgets `verifyCount` and `firstSeenAt`, which no gate reads
(`Essential`).

**The two languages.** `NodeProcs` are the processes that run the twin. It differs
where the model can tell: it takes any error of `stat` for a watermark that is absent
(`watermark.ts:11-15`) and goes on with a fresh one, where Go, which asks whether the
file exists, answers `watermark_tampered` for a directory it cannot enter, file or no
file (`watermark.go:32-36`); it answers `watermark_tampered` where Go answers
`malformed` when the last save fails; it leaves its temporary file unsynced; it
spells times with three digits of a second where Go drops trailing zeros (`text`,
`SpeltFor`, `Spellings`), and both make MACs over that text. Whether a time ends
in a zero is left to chance. The twin's laxer parsing of a license file is the
subject of `Canonical.tla`; its configuration is `AppConfig` of `Fingerprint.tla`.

**Verifier and its world.** Operators install any license, delete the watermark,
remount the disk in one of the ways `Disks` lists (writable, read-only, without
access, where `stat` still works for some and not for others: `MayMiss`, `MayRead`,
`MayRefuse`); the clock is set forward and, with
`ClockMayBeSetBack`, back; the hardware changes or cannot be collected; a process
is killed between any two steps.

**AtomicFile and its disk.** `onDisk` is the set of contents that a power loss now
may leave: a rename adds what it wrote, and a torn file if that was not synced;
the journal (`WriteBack`) reduces the set to what is visible. The directory is
never synced, as in the code, so an acknowledged write may be lost, and `FileCell`
says so. Temporary files left by failed or killed writers are counted as litter.

**Supervisor.** `timer` counts elapsed ticks, `clock` is what the license is compared
with. `Tick` happens only when nothing is due: starting, checking and exiting take
much less than a tick (an hour against seconds). Under PM2 `max_restarts` refused
starts in a row end in "errored", from which an operator restarts; a start that
serves resets the count, as PM2 counts only starts that die at once. `early` records
that the clock read less than the license's date of issue, or was set back before
its window had opened: in the first case the new watermark lies ahead of the clock,
in the second every refused start counts the rewind once more, and a small set-back
does use up the limit. Only `SmallRewindIsForgiven` reads it.

**Signing.** Each command stops where it looks at a file or writes one; a failing
call and a kill both leave what has been written (`Fail`). The key files are opened
with truncation and then written, `license.json` and `hardware.json` are replaced
at once. `-not-after` with a bare date lasts until the end of that day.

**Registry.** Each step of a run is what the script or `licensedb` does between two
looks at the world: `SignReads` and `SignWrites` (whose inner steps are `Signing`'s),
one `JqReads` for each variable taken from `license.json`, `Inspect`, `ReadWhole`,
then one step for each SQL statement. `disturbed` records that someone else wrote a
file between a run's first and last look at it, `faulted` that a fault hit it,
`mixed` the rows that disturbed runs wrote; only properties read them. A statement
whose answer is lost was executed and its run fails (`AnswerIsLost`). The table is
in one of five layouts, among them one that a release without `expires` left
behind and one between its two `ALTER`s. `spelt` is FALSE when the operator wrote
`-out=X`, which `issuer sign` understands and the script does not.

**Fingerprint.** A fingerprint is the function from source keys to values it is the
hash of. A part of the machine is a number that grows when the part is replaced, 0
what `addIfNonEmpty` drops. Sources that behave alike share a key. `Sees` is Docker:
host paths work on the host, `/host/...` paths in a container. The disk is chosen
in one step and read in the next, as in the code, and the machine may change
between the two and while `nvidia-smi` is waited for. `Station` is one documented
way to run one tool; `deploy` pairs the one that enrols with the one that verifies.

**Canonical.** A text is a sequence of code points; JavaScript strings are taken apart
into UTF-16 units and put together again as `for (const ch of s)` does. The encoders
and the decoder call themselves for what is in a value; a license is an object with
objects in it, so the model unrolls them to that depth (`Values \subseteq Flat`), and
needs no recursive operator. `GoDecode`
is `encoding/json` under `DisallowUnknownFields`: last member wins, keys in any
case, null leaves a field alone, an object decodes on top of what was there, times
lose trailing zeros. Field names are one letter, and a verifier is modelled up to
its signature check.

Ten integers `Num(0..9)` stand for all, 8 and 9 for one past 2^53 that a double holds
and a neighbour that no double holds. A `Real` is a number spelt as Go's encoder refuses
it (1.0, 1e2, beyond 64 bits, and 1.5). `Parse` is `JSON.parse`, which makes doubles of
both (`JsNumber`), so that the twin may encode what Go does not; an encoder that fails
gives `Failed`, which is no text. The signature is decoded by each language's own base64:
`GoSpellings` are what the issuer wrote and the same with line breaks, which `StdEncoding`
skips; `NodeSpellings` are also those without padding, in the URL alphabet or as an array
of bytes, all of which `Buffer.from` takes (`crypto.ts:90`).

Operators named `Bug...` are plausible mistakes in the operator that follows them.
Nothing uses them; they are put in its place to see that a property notices.

## Runs

All runs that pass check every property listed and explore the whole state space
of their instance.

| Run | Instance | Shows | States |
|---|---|---|---|
| `verifier_one` | one Go process, a capped license that starts later than it is issued and a permanent one, clock in 1..4 and set back, tolerance 1, limit 1, up to 4 verifications per watermark | the watermark only rises, times and refusals on disk hold (`GrantsAreRemembered`, `OkNeverGoesBack`, `RefusalsAreFinal`), and the abstract `HighWater` is implemented | 387 k |
| `verifier_two` | the application (TypeScript) and the CLI (Go) at once; the issued license, or one of seven that differ from it in one respect | what is left without a lock: ok is always backed by a watermark on disk and by the process's own clock (`OkIsBacked`), the watermark passes the program's own checks, and each check of the document is needed | 732 k |
| `atomic` | two Go writers and a Node writer, two documents | only the Node writer can leave a torn file (`OnlyNodeTears`), the file is never lost, refinement of `FileCell` with torn contents as contents | 97 k |
| `supervisor` | a license, its renewal (issued later, valid later still), no license; interval 3; up to 3 interventions; Docker and PM2 | bounded staleness, one small set-back forgiven, serving again, stopping | 665 k |
| `signing` | one command at a time, five orders including contradictory ones, an honest and an edited `hardware.json`, two key pairs | the key files stay a pair, what is reported as signed verifies and can be used (`SignedCanBeUsed`), nothing replaced without `-force` | 1.6 M |
| `registry` | two runs, two orders, two machines, three licenses, two faults or replaced files; no database, an empty one, or a table of an older version with a row | a row describes one license; `expires` agrees with `not_after` after any migration; done means stored; rows stay; once connected, `licensedb` fails only after a fault | 1.5 M |
| `fingerprint` | three kinds of machine (an ARM board, a server with DMI serials and an eMMC, one with nothing to read), the documented enrolments and verifications with and without a pinned disk and required GPU, two changes | a mismatch has a cause among the parts that count; ok is not given to a machine that had lost a part; the tools see the same; the twins resolve the same configuration | 0.7 M |
| `canonical` | two signed licenses (one name, with and without an end), two edits out of about two hundred each, among them a version of 4.0, an integer past 2^53 and two spellings of the signature | both encoders agree on every file whose numbers `JSON.parse` keeps; an unedited one passes both verifiers; an edited one that passes is still the signed license; Node is looser than Go in numbers, overridden members and the spelling of the signature, and in nothing else | 85 k |

**Why the bounds are enough.** Every comparison of the code is between two times
or between a counter and a limit. The clocks reach one tick before, at and after
each boundary (notBefore, notAfter, tolerance, cap, issuedAt), the limit of
rewinds is 1 so that four verifications pass it and go on after it, and two
processes are what it takes to lose an update. `MaxVerifyCount`, `MaxTime`,
`MaxLitter`, `MaxUpsets` and `MaxKeys` only cap what would count for ever. In
`Registry` two runs are enough for each to disturb the other and to meet in a
migration, three licenses for both to sign beside an old row, and two upsets for a
fault in each, or a fault after a replaced file. In `Fingerprint` two changes are
one between enrolment and verification and one while either collects; `nvidia-smi`
and the driver come and go without a bound. In `Canonical` two edits are what it
takes to remove a field and to put another spelling of it back. In
`Supervisor` the clock stops at its last value, after the end of the renewed
license is no longer reached (9), so that "from some time on" has a meaning.

**Deadlock** is checked except in `registry`, where a run of the script ends and is not
started again (another run is another member of `Runs`), and in `canonical`, where
edits run out.

**Fairness.** Only `Supervisor` assumes any: weak fairness of `Boot`,
`RecheckFires`, `Restart` and `Tick`. The event loop runs timers, Docker and PM2
restart what exits (`restart: unless-stopped`, `autorestart`), and time passes.
Operators and the outside world are not fair; `MaxUpsets` bounds them, and the
premises of `ServesAgain` and `StopsServing` (`<>[]Acceptable`, its negation) say
what they must have left behind.

**Runs that find a counterexample.** Each checks one sentence of a document or
comment, which the code does not keep:

| Run | The sentence | What happens |
|---|---|---|
| `two_lockout` | "The counter never resets" (`watermark.go:17`) | two processes load the same watermark; the later save undoes the lockout |
| `twins_disagree` | `watermark_tampered` means tampered with (`README.md:314`), the verifiers are twins | Go refuses times the way the twin spells them |
| `one_rewind` | "历史累计时间回拨次数 ≤ 3" (`README.md:295`) | one set-back is counted at every recheck |
| `atomic_torn` | "partial writes can never leave a half-baked file" (`util.go:38`), mirrored by the twin | the twin does not sync |

Other sentences the models contradict, for which no run is kept: the watermark is
created by refusals too, not only "首次验证成功后" (`README.md:252`); a device whose
clock is behind `issuedAt` and never set back ends in `time_rewind`; the third
rewind is accepted, against `watermark.go:16`; `offline_too_long` saves the
watermark, so that the cap is not between successes
(`docs/max-offline-days.md:13`, which says so itself at 214); two `sign` commands at once
replace each other's output without `-force`. A single process of the twin whose `stat`
fails, and whose directory is back before the save, writes a fresh watermark over the
old one and forgets its rewinds (`watermark.ts:11-15`, against `watermark.go:17`);
`two_lockout` keeps the disk writable, so that its counterexample is the lost update.
Further:

- Signing: "notAfter must be > notBefore" (`issue.go:63`) is not compared with a
  `notBefore` that defaults to now, so that a license may be signed that was never
  valid; `SignedCanBeUsed` says what holds. `-hardware-out -` is taken for no
  snapshot by `sign` and for a file named `-` by the script, which dies after signing.
- Registry: the script's usage promises "issuer sign flags", but it does not
  understand `-out=X` and then stores whatever `./license.json` holds; a run whose
  files were replaced meanwhile may report done for another license. After a failed
  store the license exists without a row, and only a second license (with `-force`)
  can be stored by the script.
- Fingerprint: "The verifier and hwinfo MUST share the exact same FingerprintConfig"
  (`fingerprint.go:32`), but `hwinfo` ignores `HW_CONTAINER`, `HW_REQUIRE_GPU` and
  `HW_NVIDIA_PROC` and honours path variables anywhere. An empty `HW_NIC`, `HW_DISK`
  or `HW_NVIDIA_SMI` is a default in Go and an empty value in the library of the
  twin. `HW_REQUIRE_GPU=yes` is true in Go, false in TypeScript; `true` is true in
  both libraries and false in `instrumentation.ts`. `-nvidia-smi ""` ("empty to
  skip") skips nothing in `issuer` and `verifier`. "Confirm the serial node is
  actually readable" (`fingerprint.go:406`) only calls Stat.
- Canonical: Go accepts an edited file that it decodes to the signed license (a
  zero-valued field removed, keys in another case, times with trailing zeros, null
  for a field already set); Node refuses it. Node accepts a file with an overwritten
  duplicate member of a wrong type or a version of 4.0, which Go calls malformed, and a
  signature without its padding or in the URL alphabet, which Go calls `signature_invalid`
  (`crypto.ts:90`, `crypto.go:213`). What either verifier goes on with is always what
  was signed. "The two implementations MUST stay byte-for-byte compatible"
  (`canonical.ts:1-3`) is not so of 1.0 and 1e2, which Go refuses and JavaScript writes as
  1 and 100, nor of 2^53 + 1, of which JavaScript loses a digit; the issuer writes none of them.

## Proofs

`tlapm` checks these for all values of the constants, from the named assumptions
of the modules (that constants have their types, that `NoFile`, `Garbage` and
`Torn` are no documents, that the orders of the registry are ones `issuer sign` accepts).

- `VerifierProofs`: `TypeCorrect`; then three inductive invariants.
  *For any number of processes*, everything in memory and on disk passes the
  checks of a watermark for the license it is for: a loaded copy was authentic,
  advancing keeps `lastSeenAt >= firstSeenAt` and counts at most one rewind per
  verification. From it `OwnWatermarkAlwaysSound` and `OkAlwaysBacked`. While the
  hardware stays as it is, a process past a check also holds a document that passes
  it (`FitsInv`), whatever was installed since it read its own: `OkIsForThisDevice`.
  *For one process* that never takes its watermark for absent (`OneProcess`: a process
  of Go, or of the twin where `Disks` has no `"denied"`), the copy it holds between load and save is
  what is on disk, unless the watermark was deleted meanwhile; without that fact
  the save could put back anything, and it is what a second process destroys, or the
  twin's reading of a failed `stat`.
  From it `WatermarkAlwaysRises`, `GrantsAlwaysRemembered`, `OkNeverBack`,
  `RefusalsAlwaysFinal`, and `VerifierImplementsHighWater`: the initial states
  map to initial states and each step to a step of `HighWater` or a stutter.
- `AtomicFileProofs`: `TypeCorrect`; `GoNeverHalfBaked` from "a Go writer that is
  about to rename has synced" and "no possible content of the disk is torn";
  `TornByNodeOnly`, the same step by step for any mix of writers;
  `FileIsNeverLost`; `WritersImplementFileCell`, with any mix of writers.
- `SupervisorProofs`: `StalenessIsBounded` from `TimerCovers`: while it serves,
  the ticks it has served stale and the ticks left on its timer fit in an interval.
  `TypeCorrect` needs that no timer runs where PM2 gave up. `SmallRewindForgiven`
  from `RewindInv`: a clock never set back is never behind the watermark
  (`NeverBehind`), and one set back once stays, counted in intervals, within the
  rewinds that are left (`CatchesUp`: the distance to the watermark is at most
  tolerance, timer and `Allowance`), since each check that counts one answers ok and
  so arms a whole interval.
- `FingerprintProofs`, for any set of cards, disks and parts, any deployment and any
  number of changes: `TypeCorrect`; `TwinsResolveAlike`; `ToolsSeeAlike`, which goes
  through the documented ways of telling a tool its paths (`Documented`). Then two
  inductive invariants. `PartsInv`: no disk will ever show a serial number that was
  recorded and that none shows now, since the serials of two disks stay `Apart`; so
  the rest of a collection cannot bring back a part that was lost when it began
  (`StaysLost`): from it `OkIsForTheEnrolledParts`. `CauseInv`: as long as two
  stations see alike and no cause that counts is on record, what was enrolled and what
  a verification has collected so far is what the machine has now (`Fresh`): from it
  `MismatchIsCaused`. They assume that the serial
  numbers of two disks stay apart within the bound on changes and that a setting
  left out is none of its values.
- `SigningProofs`: for any number of commands at once `TypeCorrect`, and
  `SignedIsUsable`, since whatever is about to be written is in `Made`, what `Issue`
  makes of a request it does not refuse. With `OneCommand`, `UnforcedAlwaysKeepsPair`
  and `SignedAlwaysVerifies` from `Paired` (what an unforced keygen has left in the
  two files at each of its steps, and that a license is signed with the key beside
  it), `NeverReplacesLicense` from `Unreplaced`. Two commands at once can mix pairs.
- `CanonicalTextProofs` is about the operators of `CanonicalText`, for all strings
  without lone surrogates: what JavaScript makes of a string by way of its UTF-16 units
  is the string (`RoundTrip`), both writers of strings agree (`StringAlike`), the order
  of sequences is one (`BeforeTotal` and its like), so that Go, which sorts strings by
  their units, and the twin, which sorts the units, put keys in the same order
  (`KeysAlike`). Then, that a text can be read in one way only: no two texts of strings,
  scalars, lists or objects begin alike (`StringApart`, `ScalarApart`, `ListApart`,
  `ObjectApart`, each "what begins with both has both the same"), since an escape is
  told by its first character and a comma or bracket is no part of what it closes.
- `CanonicalProofs`, for any names, values, foreign keys and number of edits:
  `TwinEncoders`, of files whose numbers `JSON.parse` keeps, from `Typed`, that every
  file an operator can make nests no deeper than the encoders do. `TypeCorrect` from
  `Signed` and `Genuinely`: the signed text is the text of a license as `Issue` makes it,
  and what is in one has a text without controls and errors (`Sound`, `IssuableSound`).
  `SignatureAlwaysCovers` rests on two arguments: two files with one text have the same
  keys and say the same (`FileKnown`, `SameContent`), so what Node accepts, as `Parse`
  reads it, says what was signed; and whatever the strict decoder does not refuse is a
  struct with every field once (`DecodedTyped`), which its text determines but for the
  signature (`GoCovers`). For `NodeNeverLooser` and `UneditedAlwaysAccepted` the decoder
  is followed member by member: a field is left with what its last member says
  (`FieldLast`), and the fields of an issued license are already as Go writes them
  (`Settled`), so it is decoded to itself. What `Parse` changes are numbers (`ParseIs`),
  and the only one in a license is its version: a file that Go decodes spells it 4
  (`VersionSpelt`), so that both hash one text, whatever `GoSpellings` its signature has
  (`Respelt`).
- `RegistryProofs`, for any number of runs, licenses and faults: `TypeCorrect` from
  what a run knows at each of its steps (`Knows`). `OnlyFaultsEverFail` from
  `Migrated`: a run at a statement has brought the table at least as far as that
  statement needs, and no other run takes it back; without a fault its connection
  has a database. `ExpiresAlwaysTellsNull` from `RowsFit`: before the column exists
  there are only rows with a `not_after`, so that the default TRUE is right.
  `RowsAreAlwaysWhole` and `DoneAlwaysMeansStored` from `Undisturbed`: what an
  undisturbed run has read is all of one license, first the file's and then its own
  copy's, and the hardware file stays the one `inspect` saw. `RowsAlwaysStay` also
  needs `OneDocument`: no two licenses anywhere share an identifier.

Only model-checked: `ServesAgain` and `StopsServing` (liveness is out of this
prover's reach); `OnlyTheIssuedIsAccepted`, which names the documents of one instance
(`OkIsForThisDevice` says for all of them what an accepted one must fulfil). That `Supervisor`'s one-step
verification is what `Verifier` does for one process is by construction: both
use `TimeVerdict` and `AdvanceWatermark` of `License.tla`.

## Not modelled, and why

- `issuer inspect -pub`, which only prints; the write of `hardware.json` by `hwinfo`,
  which truncates in place and enters `Signing` as a file that appears.
- `sign -local` inside the registry script (it is in `Signing`, and the script only
  reads the snapshot it leaves).
- Hashes, HKDF, AES-GCM and Ed25519, which are symbolic; the base64 of other fields than the
  license's signature, of which Node accepts more spellings than Go; in `Canonical` lone
  surrogates, and integers other than by their ten representatives (that JavaScript
  writes 10^21 as `1e+21`, for one).
- Parsing of flags and environment variables, except where `Fingerprint` compares
  them (in `LICENSE_RECHECK_MS`, for one, a word that is no number turns the recheck off).
- Build files, the cross-language test.

## Plan

1. Done: `License`, `Verifier` with `HighWater`, `AtomicFile` with `FileCell`,
   `Supervisor`, `Signing`, `Registry`, `Fingerprint`, `Canonical`, and the proofs above.
2. Hardware that is unavailable for a while under `Supervisor`.
