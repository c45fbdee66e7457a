# A TLA+ model of Guri

Guri (`README.md`, `SPEC.md` of the repository) is a rental market for one city: agencies publish homes, customers ask
for them, and a *deal* takes a home through viewing, identity documents, agreement and signing to a *lease*. This
directory models the NestJS API under `src/apps/api/src`, the transition tables under `src/packages/shared/src`, and of
the web application under `src/apps/web/src` what its pages show, offer and call. TLC checks the models on small
instances, TLAPS proves what matters most for every instance.

    tlc -workers 2 -config MCDealSteps.cfg MCDealSteps      # a run
    tlapm Deals_proofs.tla                                  # the proofs of a module

`DOC:67` and the like in this file are lines of the source; the abbreviations are those of the table of components.
`PROJECT.json` maps every definition to the lines it models and lists the hazards, the runs, and for each checked
property a plausible bug ("Mutant" in the modules) that breaks it.

## The system

One Node process per container serves HTTP and runs the timers; all of them share one PostgreSQL database (through
Prisma, at READ COMMITTED) and one object store. Nothing holds a lock across an `await`, and almost every write is
`update ... where id`, on the strength of a row read some awaits earlier. So the unit of atomicity is one statement, or
one `$transaction`, and the interesting question is always what another request, another container's timer or a crash
does between two of them.

| component | source (`apps/api/src/...`) | state it keeps | operations | module |
|---|---|---|---|---|
| transition tables | `packages/shared/src/transitions/{deal,lease,listing-status,intake}.ts` | none | legal moves, state sets, `deriveListingStatus` | `GuriTables` (leads: `Intakes`) |
| deal engine (DS) | `deals/deal-state.service.ts` | deals, deal events, leases | request, select, reschedule, decline, outcome, withdraw, expire, close, renew, move-out, ending soon | `DealLifecycle`, `DealSteps` |
| deal queries (DSV) | `deals/deals.service.ts` | none | my requests, the queue of a home, the inbox, a deal for its parties, the dashboard | `DealViews`, `Portals` |
| payments (LSV) | `leases/leases.service.ts` | payments | log a payment, list tenancies | `Books`, `DealViews` |
| owner portal (OWS) | `owner/owner.service.ts` | none | dashboard, properties, income ledger | `Portals`, `Books` |
| identity documents (DOC) | `deals/documents.service.ts` | customer_documents, files | upload, verify | `DealLifecycle`, `DealSteps`, `Files` |
| agreements (AGR) | `deals/agreements.service.ts` | agreements, PDF and scan | generate, uploadSigned | the same three |
| listings (LST) | `listings/listings.service.ts` | listings, photos, thumbnails, `status` | create, addPhotos, update, publish, recomputeStatus, the public list | `Listings`, `DealSteps`, `Market` |
| owner intakes (INT) | `intakes/intakes.service.ts` | intakes, drafts, ties of owners | submit, reassign, accept, decline, convert, expire; the directory of agencies | `Intakes`, `LeadPages` |
| staff (STF) | `staff/staff.service.ts`, `auth/agency.guard.ts` | agency_members, `deals.agent_id` | addAgent, patch with hand-over | `Staff` |
| accounts | `auth/clerk-auth.guard.ts` (CGD), `webhooks/clerk-sync.service.ts` (CSY), `owners/owners.service.ts` (OWN), `account/account.service.ts` (ACS) | users, owners | sign-in, webhook, invite, switch an owner off, leave | `Accounts` |
| onboarding | `agency-applications/...service.ts` (APP), `admin/admin.service.ts` (ADM) | agency_applications, agencies | apply, approve, decline, create, suspend; overview and metrics | `Onboarding`, `Market`, `Consoles`, `Portals`, `Books` |
| timers (JOB) | `jobs/jobs.service.ts`, `jobs/pgboss.service.ts` | none of their own | the 15-minute tick, the daily purge and the weekly sweep | `Notices`, `DealSteps`, `Intakes`, `Files` |
| notifications (NTF) | `notifications/notifications.service.ts` | notifications (unique dedupe key, read_at), SMS | notify, list, mark all read | `Notices`, `Intakes`, `Bell` |
| storage | `storage/storage.service.ts` | objects | put, delete, list | `Files`, `Listings` |
| web pages | `apps/web/src/app/[locale]/...`, `components`, `lib/api.ts` | kept answers, forms, the bell | draw a page from an answer, offer buttons, call, refresh | `DealViews`, `DealPages`, `LeadPages`, `Consoles`, `Market`, `Bell` |

How they meet: every change of a deal or a lease goes through DS, which calls `ListingsService.recomputeStatus` afterwards;
DOC and AGR call DS for the transition that goes with a file; JOB calls DS and INT for what is due and NTF to tell people;
`close()` withdraws the customer's other deals through DS again; `convert()` makes a listing from a lead, photos
included; STF rewrites the agents of deals; leaving the platform withdraws deals; approving an application calls ADM.
Clerk is outside: it signs people in, and repeats each webhook until it is answered. The pages keep an answer for a
minute, draw from it, and send calls that the API checks anew; a person acts on what was shown, not on what is.

What makes them hard, and what makes them correct:

* **deals and leases**: two agents, a customer and two timers act on one home. Correct means one deal in the home's active
  slot, one live lease, decisions that stay, a status that matches the two tables, a close with its paper trail, a queue
  emptied when the home is let.
* **intakes**: a lead changes agency while its old agency and the timer still hold it; `convert()` is three separate
  writes. Correct means that no draft is without its owner's tie, no conversion half done, no lead forgotten.
* **staff**: removal is a check, a hand-over and a write. Correct means never headless and no deal left behind.
* **listings and files**: two stores without a common transaction. Correct means no row without its object, no object
  deleted that a row needs, photos and thumbnails aligned, limits kept.
* **accounts**: three actors create and link the row of one email. Correct means one row per person, links that stay.
* **onboarding**: a review is two transactions. Correct means an approved application has its agency.
* **pages**: they repeat the engine's conditions, keep old answers and lose new ones. Correct means that a fresh button works,
  a repeated call is refused, no deal or lead is stranded for want of a link, and nobody approves what he did not see.
* **figures and lists**: the same homes and payments are counted by several queries, and the public list is paged while it
  changes. Correct means that the figures agree and that scrolling misses and repeats nothing that stayed put.
* **the bell**: it clears its badge ahead of the server. Correct means that it never hides what is unread and comes right.
* **timers**: ticks overlap, are retried and die. Correct means each notice once, with its row, and what is due gets done.

## The modules

Handlers are modelled in two ways. `DealLifecycle` has one action per handler: the behaviour when handlers run one
at a time and to the end; the modules about pages build on it. The others split a handler at its awaits: `job[w]` (`console`, `run`) is the request or
timer that worker `w` is in the middle of, `job[w].at` is the next step, and each step is one statement or transaction
of the handler. A step's guard and its error answers are those of the code; a refused step returns, leaving what earlier
steps wrote. `Crash` is what a dying process or a failed request leaves: the steps so far. `Duties` says which calls a
worker may make, so a configuration says which handlers *overlap*: calls of one worker run in turn (they may
still be cut short), calls of two workers interleave at every await.

| module | variables and what they are | actions |
|---|---|---|
| `GuriTables` | constants: the deal and lease tables, OPEN/RESERVING/TERMINAL states, `DeriveListingStatus` | |
| `DealLifecycle` | `deal` (deals.state), `doc` (its latest document), `agreement`, `lease` rows, `status` (listings.status) | one per handler; `Plain` is the six handlers and two timers that are only a transition; `Close` has the lease, the queue, the customer's other deals and the recomputes in it |
| `DealSteps` | the same tables, `docs` as the sequence of rows, `job` | the steps of the same handlers, the recompute as two counts and a write, the loops of the timers and of `autoWithdrawOtherDeals` |
| `DealStepsSerial` | `settled`: the tables when no call was half done last | composes the two: `DealSteps` with one worker implements `DealLifecycle` |
| `DealViews` | none of its own: what the API answers to each query, the links and buttons a page offers for what it shows, the handler behind each button | |
| `DealPages` | `user`, `cache` (kept answers by query), `swapped`, `lost` (history) | draw, drop, press a button with and without hearing the answer, beside everything else that happens |
| `Portals` | none of its own: the owner's, agency's and platform's counts of homes and tenancies over `DealLifecycle` | |
| `Intakes` | `status`, `agency`, `listing` of the lead, `draft`, `ties`, `active` agencies, `aged`/`waited` for time, `notices`/`told`/`prompted` | the steps of the six calls; publication, suspension and days going by around them |
| `LeadPages` | none of its own: wizard, tracker and the directory of a district over `Intakes` | |
| `Staff` | `row` (a person's rows per role), `deal`, `agent` | add, patch with `FindAdmin`, `FindDeals`, `FindAgent`, `FindHead`, `HandOver`, `Write`; select; the rest of a deal's life |
| `Listings` | `photos`, `thumbs`, `verified`, `published`, `owned` images | create, a converted draft, upload in two steps, update, publish in two steps |
| `Market` | composes `Listings` and `Onboarding`; `rent`, `let`, `news` (order of publication), `shopper` (the list loaded so far) | look and load more; let, free, reprice, publish, suspend and reactivate beside it; a desk works only while its agency is active |
| `Consoles` | none of its own: editor, public list, detail page, directory, dashboards and sitemap over `Market` | |
| `Books` | `signed` leases, `book` (payments: their month, and whether of its last day), `month`, and whether the server's clock runs ahead of UTC (`east`) | log a payment, close with deposit and first rent, a month passes; the six sums as operators |
| `Files` | `bucket`, `rows`, `docs`, `agreement`, one `deal`, `aged` | uploads (objects, then row, then transition), conversion, the sweep's five reads, lists and deletes, the purge's two deletes |
| `Accounts` | `user` and `owner` rows, `ties` of a person, `clerk` accounts, their email (`address`) and their unanswered `events`, each with the email of its moment | guard and webhook as one set of steps that differ where the code does; invite, switch an owner on or off, leave |
| `Onboarding` | `app`, `agency`, `console` | apply, approve in three steps, decline in two, create, suspend |
| `Notices` | `status` of what a timer looks after, `rows` (the bell), `sms` counts, `run` | a tick part by part, item by item, `notify` in three steps |
| `Bell` | `box`/`unread` rows, the page's `bell`, `poll` and `mark` calls under way, `known`/`drawn` (history) | a new row, the two reads of the list, mark all read, the answers and their losses, opening and shutting the panel |

Abstracted away: dates (a timer whose age condition can hold may fire at any moment, except where an age is the point:
`Intakes.aged`, `Files.aged`, `Notices.day`, `Books.month`), prices where only their presence counts, texts, file contents,
roles beyond what a guard asks, the audit log, a staff member's own leaving (`Accounts` is about customers and owners). What `Promise.all` reads side by side is split where the
reads concern tables that other modelled calls write (the two counts of a recompute, the five reads of the sweep); the three
counts of `leave` are one step.
Rows are never deleted unless the code does. Unique keys of the schema are part of the steps that could clash on them
(`leases.deal_id`, `renewed_from_lease_id`, `users.email`, `users.clerk_user_id`, `notifications.dedupe_key`).

## What the runs check

Every run is complete: TLC visits all states of the instance. Deadlock is checked except in the runs about deals: there
the finite set of rows runs out, and when every deal is decided and every lease is renewed or vacated nothing is left to do.

| run | instance | overlap and faults | what it shows |
|---|---|---|---|
| `lifecycle` | 4 deals (one a customer's second on the same home), 2 homes, 2 customers, 3 leases, 2 owners; and a person (a verifier or a customer) at a browser with 5 pages | handlers as wholes; old answers, lost answers | exclusive slot and lease, derived status, empty queue on a let home, paper trail, renewal chains, final decisions, only a move-out frees a home; buttons of fresh pages work and every open deal has a way on; a button of an old page does nothing that a fresh one would not offer; a call whose answer was lost is refused when repeated before its deal or lease is moved on; owners, agency and platform count the same |
| `lifecycle_twins` | 2 deals of one customer on one home | none | **finding 1**: two open deals of one customer on one home |
| `unseen` | the instance of `lifecycle` | the same | **finding 3**: a verifier approves a photo the page never showed |
| `serial` | 3 deals, 2 homes and the leases of `lifecycle`, 3 documents | one worker | `DealSteps` run in turn implements `DealLifecycle`: what one call does between its first read and last write is one abstract step or none, loops included |
| `steps` | 2 deals of 2 customers, 1 home, 2 leases, 2 documents | lease calls beside all other calls; crashes | slot and live lease stay exclusive, a closed deal has its one lease, an ended lease stays ended |
| `two_leases` | the same | move-out and close beside the ending-soon timer | **finding 2**: two live leases on a home |
| `intakes` | 1 lead, 2 agencies, 1 draft | people's calls beside the timer, or the owner's beside the agencies' and the timer's; crashes; suspension | no draft without its tie, no conversion without its draft, every lead is answered or expires; an agency's call writes to leads that agency still has, and no lead is handed on while an agency has it |
| `staff` | 3 people, 2 founding admins, 1 deal | calls in turn; crashes | an admin remains; a removal orphans no deal |
| `files` | a photo, two documents, two agreements | the purge beside uploads and the sweep; crashes; a failing bucket | rows have objects, a deal in review, approved or closed its document, the sweep takes only the unreferenced |
| `accounts` | 2 Clerk accounts with 2 emails that they change and exchange, 1 agency, 2 rows | an invite beside everything; crashes and lost answers; events in any order | nobody is given a row beside one that waits under their email, links are final, leavers have no ties |
| `notices` | two scenes: a nudged viewing, an ending lease, 2 people, 2 days; and the bell with 2 notices, a page of 1 row, 2 calls at once | two ticks, crashes, a refusing SMS provider; lost calls and answers | at most once, never without its row, what is due is moved; the badge hides nothing and comes right |
| `market` | four scenes: 2 applications of one founder, 3 agencies; a hand-made and a converted listing, 4 images, limit 3; 3 homes of 2 agencies, 2 rents, a page of 1 card; 3 leases of 2 owners and 2 agencies, 3 payments in 3 months, on a server that keeps UTC and on one ahead of it | two admins, crashes; uploads beside attesting and publishing, crashes, suspension; all that changes the list beside the shopper; payments of any date | an approved application names its agency; photos within the limit with their thumbnails; editor, directory, list and sitemap agree; scrolling is complete; six sums of the payments agree |

The scenes of `market` and `notices` are parts of one system of which one moves at a time: they share no row, or (the editor's
desk and the shopper) their product would only repeat the interleavings within each.

Why the bounds are enough. Two deals of two customers and one home are what a race for a slot needs, a third deal on a
second home is what `close()` withdraws; two lease rows make a home let, and three let it again after a renewal. The
properties speak of pairs (two deals, two leases, two rows, an old and a new agency), and each instance holds such a pair
and one actor more than it takes to disturb it. The other bounds:

* `MaxDocs`: uploads start only while there are fewer documents in all (two let both deals get that far, or one be rejected
  and upload again); `MAX_PHOTOS`, `MaxDay`, and the finite sets of rows, files, drafts and agencies that inserts draw from.
* `MaxEvents = 2` (`Accounts`): webhooks that wait for an answer, enough to overtake each other or to be delivered twice. Two
  scenes share the run: two emails with sign-ins, webhooks and invites, and one email with every call.
* `Users`, `MaxKept`, `NearDeals`, `NearLeases` (`DealPages`): one person, a verifier or a customer, keeps two answers at
  once, the page of the call and another that it renews or leaves behind. Beside a verifier others move two deals and a
  lease of one home; beside a customer they move his first deal there and a lease, and he himself may open a second one, so
  that a repeated request would find a row to insert. The dashboard is not among the pages: it has no buttons. While nobody
  sits at the browser three deals on two homes and all leases move. `PagesAgreeWithEngine` and `NoDealIsStranded` are about fresh pages and are
  checked there, for every person and every page.
* `BROWSE_PAGE_SIZE = 1` and `MaxMoved = 2` (the homes that come or leave while one list is read): three pages for three
  homes, of which one may come and one leave, or one do both.
* `LastMonth = 2`, `YearLength = 2`, `MaxPayments = 3`, amounts of 1 and 6 quarter dollars (one rounds down, one up): a turn of
  the year and a date ahead, a close and a payment more. Only the last day of a month tells the zones apart: the queries'
  bounds are local midnights (OWS:26, :173), sent for the `@db.Date` column as the UTC day they fall on, so on a server ahead
  of UTC the last day counts for the next month; the bars go by the payment's own date (OWS:188). `MonthlyTotal` is the
  ledger's bar when no month is picked: with a filter the bars cover the rows shown.
* `BELL_PAGE_SIZE = 1`, `MaxRows = 2`, two `Clicks`: a row that the list does not show, and two calls that cross.

Symmetry is used where rows are alike: the lease rows of a home, the two deals with their customers, the images; never
in a run with a liveness property.

Fairness. `Intakes!GoesOn` and `MCIntakes!MCSpec`: pg-boss or the fallback cron starts a tick every 15 minutes (weak
fairness of `BeginExpire`; strong where it shares its worker with the agencies' calls, since nothing in the code makes it wait for these), an event loop goes on with what it started (of `Step`), days pass, and a tick may be cut short now and
then but not each time it has come to the write (strong fairness of `Expire`). Owners and agencies are not assumed to
do anything. `Notices!TickFairness`: one container stays up in the end; its cron starts ticks and they go on, every other
runner may crash for ever. `Bell!BellFairness`: the page stays open and its interval keeps running, the server answers, and
from some time on the network loses nothing; nobody is assumed to open the panel. `Files!FairSpec`
(tasks go on) belongs to a liveness property below that has no run.

### Findings

1. `lifecycle_twins`: a customer requests a home, is shown it, uploads documents and is rejected. The deal is not open
   any more, so `createRequest` (DS:56) lets the customer request the home again; then `upload` (DOC:69) takes the old
   deal back to review, because it looks at the slot only. `SPEC.md:189`: "409 if customer already has an open deal here".
2. `two_leases`: `markLeaseEndingSoon` (DS:151) reads an active lease; the agency records the move-out and closes the
   next deal; the timer writes `ending_soon` by id. `deal-state.service.ts:420`: "one live lease per listing, ever".
3. `unseen`: a verifier has a deal open. The rejection's answer gets lost, or a colleague rejects; the customer takes a new
   photo. The page still shows the old photo and its button; `verify` (DOC:170) takes the deal's newest document and
   approves it. `id-capture.tsx:15`: "the human verifier judges quality".

### Promises that the code breaks

The modules end with properties that a text of the repository or the code's own intent states and that the code does not
keep under the overlap named here. TLC found each of these on the instances above with the duties changed; no run is
spent on them. The runs check what remains true, with the overlap each run names: that is why `steps` has one desk
for all calls that are not about leases, and why `staff` runs in turn. The rows about pages and figures need no overlap at
all, only a legal sequence of calls. For those that calls overlapping or a crash break it is mostly proved how little it takes to keep them (next section):
that the calls named in the assumption take turns, or that nothing is cut short, for any number of rows and whatever else overlaps.

| module, property | the text | overlap | steps that break it |
|---|---|---|---|
| `DealSteps` StatusDerivedWhenQuiet | `README.md:125` "can't drift" | two calls on one home, or a crash after a commit | A withdraws the reserving deal and counts none (LST:58); B selects another deal, counts and writes `reserved`; A writes `available` |
| `DealSteps` DecidedStaysDecided | `SPEC.md:99` terminal states | withdraw beside select | select reads `requested`, the customer withdraws, select writes `viewing_scheduled` by id (DS:120) |
| `DealSteps` ClosedDealHasScan | `SPEC.md:337` | generate beside close | close sees the scan (DS:427), generate voids it, close commits |
| `DealSteps` OneReservingDeal | DS:308 | two selects | both find the slot free (DS:313), both move their deal |
| `Intakes` ConvertedIsFinal, ConversionIsWhole | INT:197 | decline, a second convert or the timer beside convert | decline reads `accepted`, convert finishes, decline writes `declined` by id (INT:181) |
| `Intakes` PublishedOnce | the same | none, a crash | convert dies between the draft and the link (INT:217, 235) and is repeated: two drafts of one house |
| `Intakes` FiveDaysToAnswer | `SPEC.md:367` | none | a lead expires and is reassigned; `createdAt` is kept (INT:127), so the next tick expires it again |
| `Intakes` OwnerIsPrompted | `SPEC.md:367` | none | the second expiry of a lead has the dedupe key of the first (INT:276) |
| `Intakes` AgencyIsTold | `SPEC.md:364` | none | a lead declined and sent to the same agency again has the key of the first time (INT:296) |
| `Staff` NeverHeadless | STF:119 | two patches | two admins deactivate each other, each check finds the other (STF:128) |
| `Staff` NoOrphanDeal | STF:136 | none | an agent with a `docs_rejected` deal is removed, the hand-over skips it (STF:141), its customer uploads again |
| `Listings` ThumbsMatch | LST:231, `schema.prisma:276` | none | a converted draft has photos and no thumbnails (INT:231); the first added photo's thumbnail gets index 0 |
| `Listings` PublishedOnAttestation | LST:452 | attesting beside publishing | publish sees the attestation, update takes it back, publish writes |
| `Listings` PhotoLimit | LST:214 | two uploads | both count before either pushes |
| `Files` RowsHaveObjects | JOB:286 | the sweep beside an upload | the sweep reads the rows, the upload stores its object, the sweep lists and deletes it, the upload writes its row |
| `Accounts` ClaimedWhenLinked | OWN:47 | an invite of a second agency beside a sign-in | the invite reads the row unlinked, the person signs in and claims, the invite writes `invited` |
| `Accounts` SameGuardAsLeave | OWN:102 | none | an owner who is a tenant elsewhere is switched off (OWN:111 counts leases on own homes) |
| `Accounts` ActiveNotScheduled | `schema.prisma`, mark of leaving | none | who left changes the profile in Clerk: `user.updated` switches the row on and keeps the mark (CSY:62) |
| `Accounts` DeletedIsInactive | CSY:88 | none (Clerk promises no order of its events) | `user.deleted` comes first, a late `user.created` makes an active row |
| `Accounts` NeverASecond | CSY:80, "one account for every role, never a second" | none | an agency invites the new email of somebody who has an account, or to which they change afterwards: the update of `user.updated` conflicts with the waiting row and is swallowed (CSY:64); also a token without the email claim (CGD:38, fault `no_email`) makes a row beside the invited one |
| `Accounts` InvitesCanBeClaimed | OWN:28, "the claim flow … links to Clerk later" | none | an owner invited without an email: only an email links a row, and nothing gives one to a row without an account |
| `Accounts` LinkIsFinal | CSY:77 | a webhook beside a sign-in of the second account | both read the row as unlinked, the later link wins |
| `Accounts` LeaversHaveNoTies | ACS:48 | deals beside leave | a deal of the leaver closes after leave counted the leases (ACS:22) |
| `Onboarding` OneAgencyEach, ReviewedOnce, NoAgencyUnapproved | `SPEC.md:508` | two admins, or a crash and a retry | both read `pending` (APP:50) and provision; or a crash comes before the stamp (APP:61); or a decline (APP:85) overwrites an approval |
| `Notices` NobodyForgotten | `SPEC.md:367` and the like | none, a crash | the move commits, the process dies before `notify` (JOB:73), the next tick does not find the row |
| `DealViews` RejectedCanRecapture | `requests/[id]/page.tsx:32` | none | the tracker of a rejected deal has the camera, but the list of requests links to it in `awaiting_docs` only (`requests/page.tsx:92`); the notice's link or a bookmark is the way there |
| `DealViews` ClosedCanDownload | `SPEC.md:146` | none | the same list has no link to a closed deal, whose tracker has the contract |
| `DealViews` CloseButtonWorks | `console/deals/[id]/page.tsx:442` | none | a deal is rejected, its home let to another customer, and the first one uploads again: upload (DOC:68) asks for the slot and not for a lease, so the deal gets as far as the close, which is refused; the card names every precondition but that one |
| `DealPages` OwnCallsShow | `sw.ts:20` | none | an answer that was up to date is not after the person's own call: select renews the queue and the dashboard, not the kept page of its deal; the deal page not the queue; a request not the list of requests |
| `Portals` RenewalCountIsTenancys | `en.json:253` | none | a tenant renews and moves out, another moves in: the count is of all leases of the home (OWS:105); found with three lease rows for one home |
| `Portals` EachTenancyCountsOnce | `en.json:780` | none | a renewal is a lease row, and the chart counts rows (ADM:282) |
| `Market` SkipsNothing | LST:329 | none | a home before the second page is let, and the one after it moves up unseen; or one is published, and the last card comes again |
| `Consoles` ActiveListingsIsOneFigure | `en.json:511`, `:775` | none | a home is let: the agency's figure leaves it out, the platform's counts every published home |
| `Consoles` OpenConsoleServes | `console/layout.tsx:43` | none | the agency is suspended: the console opens for its staff, every query in it is refused |
| `Books` LedgerAddsUp | `owner.service.ts:14` | none | two payments with cents: rounded rows add up to another total than the rounded sum of the month |
| `Books` BarIsTheFigure | `owner/page.tsx:76` | none; a server whose clock runs ahead of UTC (`LAUNCH.md` deploys to a host without setting a zone) | a payment dated the last day of last month is in this month's figure (OWS:26) and in last month's bar (OWS:188) |
| `Books` SameMonthForAll | `en.json:514`, `:777` | none | a payment dated next month: owners see it then, agency and platform now (their month has no end) |
| `Bell` ReadWasDrawn | `notification-bell.tsx:41` | none | a notice comes after the list was loaded and before the panel opens: it is marked read with the rest |
| `LeadPages` FreeUntilConverted | `SPEC.md:374` | none | an agency accepts a lead and is suspended: it cannot act, the owner cannot send the lead on, no timer looks at it |
| `LeadPages` OwnerCanChooseAgain | `SPEC.md:367` | none | the lead expires or is declined and no active agency serves its district: the owner is asked to choose from an empty list (`agencies-directory.service.ts:18`); INT:123 would take any active agency |
| `LeadPages` PickedFromDirectory | `SPEC.md:378` | none | the wizard starts with the agency of `?agency=` (`list-house/page.tsx:53`) and keeps it through the choice of a district (:322): it may serve elsewhere, which INT:57 does not ask, or be suspended, which it refuses |
| `LeadPages` ListingCanBeViewed | `owner/intakes` tracker, `page.tsx:127` | none | the lead is converted to a draft; its page is found only once it is published |
| `LeadPages` NoDraftSentOn | `intakes.service.ts:196` | the timer beside people | the tick read the lead as submitted; it is accepted and converted; the tick writes `expired`, and the owner is offered to send it on |

Held in the exploration, without a run of its own: `Files!OrphansGo` (an orphaned object is swept in the end) with uploads and sweep in turn.

## What is proved

Each theorem holds for all values of the constants under the module's assumption (types of the constants, and that null
values are not rows) and the one named here. The pattern is the same: an inductive `IInv`, `Init => IInv`, one lemma per
action, and temporal logic; an action property follows from `IInv` and the step. TLC's runs check the same properties on
instances.

| module | theorems | inductive invariant and why it is needed |
|---|---|---|
| `Deals_proofs` (engine) | TypeCorrect, ActiveSlotIsExclusive, LiveLeaseIsExclusive, StatusNeverDrifts, LetHomeHasNoQueue | all five together: that a let home has no queue rests on the derived status, which keeps requests out, and the exclusive slot, which `close` relies on when it empties the queue |
| (past of a deal) | PaperworkAgrees, ClosedDealKeepsItsLease, RenewalsFormChains, DecisionsStay, HomesAreFreedByMoveOut | on top of the former: the three invariants, and that a row not yet inserted is blank and nobody's renewal; that the close of a deal makes its first lease rests on the state, that only a move-out frees a home on the derived status |
| (pages) | PagesRunTheEngine (`PagesSpec => Spec`), OldPagesDoNoMore, LostCallsAreRefused, NoDealIsLeftBehind, OfferedPapersAreThere, OfferedCallsAreTaken | what kinds of rows a kept answer shows, however old, and that what a lost call has done still stands while it is remembered; since each step of the pages is a step of the engine, every theorem above holds beside any browser. OldPagesDoNoMore goes through the pages and shows that the guard of each call implies the page's condition; LostCallsAreRefused is for a call repeated before its own row is moved (after a decline, a rejection or a re-upload it is a new call and served as one). NoDealIsLeftBehind goes through the states one by one; OfferedCallsAreTaken names the next state of the engine for each button, see below |
| (figures) | NumbersAlwaysAgree | the invariant of the engine; the recursive sums of the dashboards are shown equal to cardinalities for every finite set, see below |
| `DealSteps_proofs` | TypeCorrect, ClosedDealKeepsItsLease for any duties, overlap and crashes; ActiveSlotIsExclusive under `OneSlotDesk`; LiveLeaseIsExclusive, EndedLeasesStayEnded under `OneLeaseDesk`; SerialImplementsLifecycle under `Serial`; ClosedDealsHaveScans under `OnePaperDesk`, DealsMoveByTheTable and DecisionsStand under `OneDealDesk`, StatusIsDerived under `OneCountDesk` without crashes | what the worker in the middle of a lease call has read of the lease table and still holds, since nobody else writes it; likewise, of the worker about to take a deal to a state that reserves, that no other deal reserves the home, which all other calls can only make truer. For the last four: that a scan looked at is still there, that a deal is in the state its call read, and that a home whose status is not the derived one is being recounted by somebody whose counts so far are right. For the refinement: the story of the call in flight, see below |
| `Intakes_proofs` | TypeCorrect, DraftAlwaysHasTie; AnswersStayInHand, ConvertedStaysConverted, ConversionsAreWhole under `TwoDesks`; HousesArePublishedOnce under the same without crashes | what a conversion in flight knows: at `draft` the tie is there, at `converted` the draft is; nothing ever deletes either, whatever overlaps. For two desks: that each lead in hand (of the timer's batch: in the whole rest of it) is as its call read it, with the agency that has it, in a status in which the other desk leaves it alone; and, without crashes, that a lead not converted has a draft only while its conversion is at the last write |
| `Market_proofs` | EditorTypeCorrect, ThumbsAlwaysComplete; PhotosWithinLimit under `OneUploader`, PublicOnAttestation under `OneAttester`; OnboardingTypeCorrect, ApprovedNamesAgency; ReviewsAreFinal under `OneConsole`, ApplicationsMakeOneAgency under the same without crashes; MarketImplementsParts (`MarketSpec => Spec /\ OnboardingSpec`), MarketKeepsParts; MarketTypeCorrect, ScrollsAreComplete, ConsolesAlwaysAgree, FiguresAlwaysAgree | that jobs are about existing listings, that what an upload counted and is to push still fits; that a console about to stamp holds an agency made from its application. The market composes the two: each of its steps is one of theirs or none |
| `Files_proofs` | RowsKeepTheirObjects, ReviewsHaveTheirDocument, SweepSparesReferenced under `SweepsApart`; TypeCorrect whatever overlaps | what a sweep has learnt: of every table it has read it knows all keys, but for photos that wait to be read in the other table that refers to them; a purge holds documents past their retention only, and the newest document of a deal in review is not among them |
| `Accounts_proofs` | TypeCorrect; OneAccountEach, LinksAreFinal under `OneDoor`; LeaversAreFree under `LeavingApart`; NoInviteWaits under `OneRegister` without crashes | what each step of a sign-in looked up and still finds when it writes, and emails differ, so that whoever is given a row leaves none waiting under the email of the call; past its count a leaver has open requests at most; an invite at its write remembers rightly whether its person is linked, and an invite of a linked person is about to be claimed |
| `Notices_proofs` | TypeCorrect, NoticeToldOnce, BellIsHonest; EverybodyIsTold without crashes | that of all runners about to send one key there is one, that its row exists and its text did not go out: the unique key lets one insert through. For the bell: a poll that counted nothing saw no unread row up to the one it read, and a call keeps the badge it cleared |
| `Staff_proofs` | TypeCorrect whatever overlaps; AnAdminRemains under `OnePatcher`; RemovalsHandOver under `InTurn` (one worker makes all calls, any of which may be cut short) | what a removal in flight has found: another active admin from the check on, which only another removal could undo; an heir who works there, and from the hand-over on that no open deal is with the removed person |

The named assumptions say which calls take turns; everything else may overlap and be cut short, for any number of workers.
They are the assignments of the runs, and the code has no lock that would enforce them: what breaks without them is in the
table of divergences above, or a run that expects a violation has it.

| assumption | who takes turns | what else would happen |
|---|---|---|
| `OneLeaseDesk` | calls that write leases | run `two_leases` |
| `OneSlotDesk` | select, upload, verify, reschedule and proceed; run `steps` has one worker for these and more | two selects both find the slot free and both write (the hazard at DS:313) |
| `OneUploader` | additions of photos | two uploads count the same photos (the hazard at LST:214) |
| `OneAttester` | edits and publications of listings | an attestation is taken back behind the look at it (`PublishedOnAttestation` above) |
| `OnePaperDesk` | new agreements and closes | a new agreement voids the scan close looked at (`ClosedDealHasScan` above) |
| `OneDealDesk` | calls that move a deal; requests, papers and lease calls overlap them | a write by id of what was read before (`DecidedStaysDecided` above) |
| `OneCountDesk` | calls that write deals or leases; and no crash | two recounts cross, or one is never made (`StatusDerivedWhenQuiet` above) |
| `TwoDesks` | the agencies' calls about leads and the timer; and, apart from these, reassigns; and for HousesArePublishedOnce no crash | the timer expires a lead that is being answered, it is handed on, and the draft is made for the agency that had it; a decline lands on a conversion, a repeated convert makes a second draft (`ConvertedIsFinal`, `PublishedOnce` above) |
| `OneConsole` | the platform's admins; and for ApplicationsMakeOneAgency no crash | two admins approve one application, or one does twice (`OneAgencyEach` above) |
| `OneRegister` | invites, sign-ins and webhooks; and no crash | an invite is written behind a claim, or the claim is never made (`ClaimedWhenLinked` above) |
| `SweepsApart` | uploads and the weekly sweep, which runs on Sunday at midnight | the upload loses its object (`RowsHaveObjects` above) |
| `OneDoor` | sign-ins and deliveries of webhooks | a row that changes hands (`LinkIsFinal` above) |
| `LeavingApart` | requests to leave, and deals | a deal closes behind the count (`LeaversHaveNoTies` above) |
| `OnePatcher` | removals and changes of staff; hiring, selections and deals overlap them | two admins remove each other (`NeverHeadless` above) |
| `InTurn` | all calls on an agency's staff and on its deals | a select of the removed worker lands between the search for their deals and the write (and breaks `NoOrphanDeal`) |
| `Serial` | all calls of `DealSteps`, each to its end (the run `serial`) | the hazards at DS:120, LST:58 and DS:541 |

The refinement. `SerialImplementsLifecycle` is shown by the history variable `settled`, the tables as they were when no call
was half done. The inductive invariant `SerialInv` adds to the types, for the step the call in flight is at, its story: what it
has read of the settled tables, which therefore still holds, and what it has written since, as a relation of the tables now to the
settled ones. One lemma per step tells the story on; where a call ends, the story makes of it a whole step of `DealLifecycle`, or
none when a check failed. The hard part is `close`, whose loop withdraws the customer's other deals one by one and recounts their
homes: its story keeps which of them are done, and that the homes of these have the derived status and all others the settled one.

Scrolling. The list the shopper pages through changes under him, so the invariant of ScrollsAreComplete counts the homes ahead of
each: as long as none has left, what he began with is on a card or has at least as many homes ahead of it as the pages he has
hold; as long as none has come, no card is there twice and what is on one has fewer ahead. All that editors, admins and owners do
is then a home that comes or one that leaves.

Sums over sets are recursive functions in the modules. That two of them agree on every finite set cannot be shown with the
library's induction rules, which need an operator as a parameter; the lemma `SetRecursionIsUnique` of `Deals_proofs` shows it by a
smallest counterexample, since strict inclusion is well-founded on finite sets, and a closed form is the witness. The money of
`Books` is counted in pebbles, one for each quarter dollar of each payment: a sum over parts is a sum over the whole since both count the same
pebbles, and each rounded part is off by at most half a dollar.

Only model-checked: liveness (`DueIsMoved`, `BadgeComesRight`, `LeadIsAnswered`), which needs fairness, and that every offered
button is taken as `PagesAgreeWithEngine` states it, with ENABLED.
The content of that property is proved: OfferedPapersAreThere, and OfferedCallsAreTaken, which shows for each button the next state
(`Outcome`) and that the action of the API, guards and recounts included, holds from the present state to that one. What is left
to TLC is the step from a witness to ENABLED, for which the provers have no rule.

## Not modelled, and why

* **Deals of a suspended agency.** `SPEC.md:458-461` wants them frozen. The guard refuses every call of the agency, but a
  customer's request, withdrawal and upload (DS:44, DOC:57) and the timers do not look at the agency, so a model of it
  would say what the code plainly does; suspension is modelled where the code meets it, for leads and listings.
* **Data**: names, texts, districts and the other fields and filters of a listing, bank details, the wording of notices, the
  layout of PDFs, thumbnails' pixels, signed URLs and encryption of objects.
* **Audit log, backup, throttling, logging, health**: append-only or pure I/O; nothing reads them back to decide.
* **Request schemas**: shapes and ranges; the models draw inputs that pass them.
* **Pages without a decision**: legal pages, sign-in (Clerk's), account and team forms, the service worker, layout, language.
* **Homes published at the very same instant** (the order of `newest` is then the id's), two browsers of one person, and
  reads of one query at different instants where nothing of the property depends on it.
* **Seeds, scripts, the video, the test suite**: the tests were read as statements about the code.
