# ArtShare-BE: specifications, model checking and proofs

ArtShare-BE (`src/`) is the NestJS backend of an art-sharing site: posts, blogs,
comments and follows over PostgreSQL (Prisma), AI features paid with credits,
subscriptions sold through Stripe, and automation projects whose posts are
published by an n8n workflow. Everything runs in one Node process: the steps of
concurrent requests, cron jobs and event handlers interleave at every `await`, and
PostgreSQL runs transactions at READ COMMITTED. The repository has no unit tests
of this logic (its one test file asks for the greeting), so what is true of those
interleavings is what this directory is about.

The modules are translated from the code, not from its comments. `PROJECT.json`
names for every definition the file and lines it stands for, for every run its
question, for every property a mutation of the code that breaks it, and the
hazards the properties are aimed at.

## 1. Inventory

| Part | State | Operations | Interacts with | What is hard | What makes it correct |
|---|---|---|---|---|---|
| Credit meter (`usage`) | `UserUsage` | `handleCreditUsage`, `resetUsageForNewCycle` | requests that use AI, webhooks, daily job | read, read, conditional write; resets in between | no cycle overcharged; no charge lost or doubled |
| Subscription info, anniversary job (`subscription`) | reads `UserAccess` | `getSubscriptionInfo`, `handleAnniversaryResets` | credit meter | two readers reset the same cycle; stale rows | a period has its cycle |
| Stripe billing (`stripe`) | `UserAccess`, `User.stripeCustomerId` | checkout, portal, webhook, three processors | Stripe, credit meter | at-least-once, unordered events, acknowledged before they are processed; crash | nobody has what was not paid; the row says what Stripe says |
| Scheduled posting (`auto-post`, `auto-project`) | `AutoProject`, `AutoPost` | cron job, status reports, edits, start, pause | n8n | the job overlaps itself and n8n; lost answers; stale edits | a post is published once and says so; a project ends with its posts |
| Likes, shares, comments (`likes`, `shares`, `comment`) | rows and counters beside them | create, remove | posts, accounts | cascades; two removals; an account being deleted | counters are those of the rows |
| Follows (`user.follow`, `notification`) | `Follow`, two counts per user | follow, unfollow, two event handlers | event emitter | events in memory: late, reordered, lost | counts settle to the rows |
| Ratings (`blog`) | `Rating`, average and count | `rateBlog` | accounts | two raters aggregate without each other | the average is that of the ratings |
| Account deletion (`user.admin`) | everything that names the user | `deleteUserById` | all of the above | reads first, lowers later, cascades last | counters still agree |
| Notifications (`notification`), reports (`report`) | `Notification`, sockets in memory, `Report` | push, mark, connect, resolve | event emitter | a connection opens or closes while something is pushed; restarts | an open connection misses nothing; resolutions are told |
| Posts, blogs, categories, vectors (`posts`, `blog`, `categories`, `embedding`, `storage`) | rows; points in Qdrant; objects in a bucket | create, update, delete, by authors and administrators; synchronise an index | Qdrant, embedding model, bucket, accounts | background writes race updates, deletions and synchronisations; a failure between two stores | no vector or file without its row; rows found by what they say |
| Accounts (`auth`, `user`) | Firebase, `User` | sign up, sign in, change, create and delete by administrators | Firebase, every table | two stores, one after the other | both or neither, or an error says so |
| Platforms (`platform`, `auth/facebook`, `auto-project`) | `FacebookAccount`, `Platform`, `AutoProject` | OAuth callback, synchronise, update a config, create, update and remove a project | Facebook, accounts, scheduled posting | overlapping synchronisations, stale configs, accounts that change hands, an update that checks no platform | projects keep a platform, and of their user's own unless that update moved them |
| Library (`blog`, `collection`) | `Bookmark`, `Collection`, join table, protection | toggle, protect, keep, remove | posts, blogs, accounts | read, then write, of two requests | what the answers said |
| Trending, chat (`trending`, `infastructure`) | a cache | get, set, sweep; a turn | Gemini | none: single synchronous steps | not modelled |
| The rest | none of its own, or single-row writes | | | | see `PROJECT.json`, "components" |

## 2. Modules

```
CreditUsage  <-- StripeBilling <-- MCStripeBilling        CreditMeter (abstract)
                      ^                                        ^
                      +---- StripeBilling_proofs <-- CreditMeter_proofs
AutoPosting  <-- MCAutoPosting,  AutoPosting_proofs              PostDelivery (abstract)
Engagement   <-- MCEngagement,   Engagement_proofs
Notifications <-- MCNotifications, Notifications_proofs
VectorIndex  <-- Content <-- MCContent,  Content_proofs <-- ContentIndex_proofs
Accounts <-- Platforms, Library <-- Services <-- MCServices, Services_proofs
```

### CreditUsage and StripeBilling

`CreditUsage` holds the two tables the meter works on and everything that reads or
writes usage: a request is a record of its local variables with a program counter,
one action per `await` of `handleCreditUsage` and `getSubscriptionInfo`; the daily job
is a query followed by one reset per user. `(user, feature, cycleStartedAt)` is the
unique index, so `UserUsage` is two functions of the user and the start of a cycle.
It has no specification of its own: `StripeBilling` EXTENDS it and adds Stripe and
the webhooks, because the processors write both tables.

A webhook is acknowledged (`Deliver`), then processed step by step: resolve the user,
fetch the subscription from Stripe, write the access, reset the usage. `HandlerFails`
is any of these throwing (the controller logs it), `Crash` a restart. Stripe is the
environment: subscriptions are paid, renewed, fail to renew, are cancelled; it
delivers an event that was sent once or more, in any order. Time is an abstract
calendar (`AddMonth`, `StartOfDay`, ...), about which the proofs assume nothing but its type and its order;
`NextMonth` is the code's `setMonth(getMonth() + 1)`, which runs past the end of a shorter month where `AddMonth`
(date-fns) stops at it.

Left out: simulated activations (development), guest checkouts, the income summary.
The invoice processor compares an id with the prefix `sub_` that an invoice id never
has; it is modelled as what it does, which is to return.

`CreditMeter` is the abstract meter: a charge is taken whole from an opened cycle
and stays within some plan's quota; otherwise cycles are only opened, or started
again from zero. `StripeBilling` implements it (`MeterSpec`).

### AutoPosting

The job (`tick`) copies the due posts with the status of their projects and works
through them in any order; each post is one update, one HTTP request and, when
something is wrong, `failPost`. n8n (external) starts an execution or not, publishes
or not, and reports `POSTED` or `FAILED`; the request, its answer and the report can be
lost (`CallN8n`, `ExecutionLost`). `updateAutoPostStatus` is four steps, since the
project is read and completed between two writes of the status. A user's call reads
the post, then its project, then writes. `post.due` says that `scheduledAt` has passed.

Assumptions: the status DTO would accept any status, n8n sends the two; a row's id
is not used again; `n8nTriggeredAt` is written and never read, so it is left out;
the text, images and platform of a post are data.

`PostDelivery` is the promise of the whole: a post waits, is picked when it is due, pending and of an active
project, is handed to n8n, and is published or waits again; its row says so from the report on, and a deleted
row stays deleted. `AutoPosting` implements it (`DeliverySpec`): the place of a post is read off the runs of the job,
the executions of n8n and the publications (`PlaceOf`), and most steps of a report or a call are stutters. The
promise is about the pick: a post that is edited, or whose project is paused, while it is in a batch is handed over all the
same. What is triggered twice or edited while reported, and what a lost answer or a restart concerns, is
`disturbed`, from which the abstract post does not come back.

### Engagement

Rows and the counters beside them: likes of posts, blogs and comments, shares,
the tree of comments, ratings, follows. `Targets` are posts and blogs alike (only
`Blogs` are rated). What is one transaction whose statements do not depend on what
an earlier one read is one step. Three are not:

* `CommentService.remove` deletes the replies, then the comment: `BeginRemove` notes the
  replies and locks them (another transaction that wants them waits), `FinishRemove`
  deletes the comment with all that the foreign key cascades to and subtracts one and
  the number of replies it had deleted. `AbortRemove` covers its error paths.
* `rateBlog` writes a row and aggregates before it commits: `BeginRate` and `FinishRate`,
  between which others rate. One user's ratings of one blog are serialised by the
  row they write; the model gives each user one call at a time. The foreign keys of
  the new row keep the user and the blog in place until the end (`RatedBy`).
* `deleteUserById` reads five lists, lowers counters by them, and deletes the user, and
  with it what names it: `BeginDeleteUser` is the reads, `DeleteUserById` the rest. The
  five reads are one step: each list is used for its own counters only.

The two count handlers of `NotificationService` are actions on a bag of pending events
(`followed`, `unfollowed`): handled in any order, or lost.

A counter of a deleted row means nothing, so the properties are about rows that exist.
`drifted`, `cascaded` and `stale` are history variables: what was engaged with by a
user while that user was being deleted, what lost rows to a cascade nobody subtracts,
and which averages were last written by a call that another one overlapped. They
name, precisely, the cases in which the code does not keep a counter right.

View counts and the text of comments are not in the module; bookmarks are in Library.

### Notifications

A `handler` is a run of `createAndPush` and what leads to it: `createReport` waiting for
the administrators (`NotifyAdmins`), `handleReportResolved` checking for a duplicate, the
insert, and the push, which is synchronous once the insert is done. What triggers a
notification elsewhere (a like, a comment, a follow, a post) is `PushNotification`
with any sender and recipient. A `socket` is a run of `handleConnection` with the
connection itself: verify the token, register, query, send; `got` is what that
connection was sent. `connectedClients` is the gateway's map. A client may go at any
time, and `handleDisconnect` runs then, whether or not it was registered; `Crash`
ends handlers, map and connections. `SendToUser` includes the removal of closed
connections from the map.

`dropped` is a history variable: reports whose resolution was lost to an error or a
restart, since the event is in memory only. The update of a report and its event are
one step: an event is lost in between exactly as it is before its first query. A
connection that is over is reset, and so is a deleted row, for nothing reads them
again. Left out: the text of notifications, emission to a recipient that is
undefined (dropped by `shouldSendNotification`), and `cleanupConnections`, which
nothing calls.

### VectorIndex and Content

`VectorIndex` holds the rows of `Post`, `Blog` and `Category` as far as they are embedded,
the points of the three collections, and the operations of Qdrant on them at the
moment Qdrant performs them; a vector is represented by what it was computed from. A
synchronisation is a state machine of its own: it clears the collection, reads all rows,
and upserts those whose embedding succeeded.

`Content` adds the services: a `call` is a run of `createPost`, `updatePost`, `deletePost`,
`updateBlog` and the like, with its local variables (`seen` is the row it read) and one
step per `await`, including what it leaves running after its answer. `updatePost` has up
to six: thumbnail, images, upload, video, row, vectors, of which those with nothing to do
are skipped (`AfterRead` to `AfterVideo`). `object` is the bucket; `deleteFiles` refuses all
URLs when one is not in it (`InBucket`). The methods of administrators, and the cascade of
an account, are one statement each. Embeddings are started with `void` and caught by
nobody: an error in one ends the process (Node's default for an unhandled rejection,
for which `src/` installs no handler), so `PointMissing` is a `Crash`.

History variables name the cases in which the code parts two stores: `stale` (vectors
behind their row: an overlap, an error, an administrator's edit; a synchronisation that
meets no write repairs it), `forgotten` (deleted without their vectors), `torn` (a
thumbnail that went before the row was written), `leaked` (images whose row and object
parted on an error or a cascade).

The title of a post may be emptied by an update (the DTO only asks for a string; blogs and
categories ask for more): the row takes it, no vector is computed of it, and `deleteVectors` is not
told of it, so the vector of the old title stays for as long as the title is empty. `FieldFollows` makes this one
exception, of this one field, in `VectorsFollowRows` and `IndexSettles`.

A call that throws although the bucket, Qdrant or the database did what it was asked is that step
followed by a failure at the next one. What S3 reports in `Errors` of a batch it answered is ignored by the code and left
out here. Assumptions: clients upload a new object for every change of the
thumbnail and name it, one image comes with a call (a partial upload of several is not
modelled), one synchronisation at a time. The two deletions `updatePost` runs in parallel
are one step with any outcome of each. Crop data, categories and the publication flag
are data; the images of automation posts belong to AutoPosting.

### Accounts, Platforms, Library and Services

`Accounts` has the users in Firebase and in the database, and the requests that create,
change, sign in and delete them. The email stands for both unique fields. A user signs
up with a Firebase account; a deletion removes that account first and then runs the
transaction (`DeleteFromFirebase`, `DeleteRow`), and either may fail. `deleteUsers` goes on
to the next one after an error. An access token outlives the row (`signedIn`).

`Platforms` has the OAuth callback: upsert the Facebook account, fetch its pages, then
`synchronizePlatforms`, which reads and later writes at READ COMMITTED; `updatePlatformConfig`
and the creation and the update of a project, each of which reads before it writes. `create` checks
that the platform is the user's; `update` writes the one it is given (`WriteProject`), which only the foreign key checks.
`Library` has
bookmarks, protection and collections in the same manner. Both EXTEND Accounts.
A row that is made again has a new `id`, so a request that holds the old one
fails, as the code's does.

`Services` composes the three: the deletion of a user's row is one step of all of them, for
the foreign keys cascade in the statement that deletes it (Facebook accounts, their
platforms, projects, blogs, posts, bookmarks, collections), and so is a restart; every other step
belongs to one module and leaves the variables of the others alone.

Here the history variables are `stranded` (a deletion that failed after Firebase), `byAdmin`,
`moved` (a Facebook account that changed hands), `crossed` (synchronisations that
overlapped), `reverted` (a config that overwrote a newer token), `strayed` (a project that an update put on
a platform of another user, until one puts it back), `crossing` (toggles that
overlapped), and `expected`, `latest`, `toggled`, `flipped`, which record what was answered.

Left out: names, roles and the text of collections; the daily job that expires
platforms, which finds none since `tokenExpiresAt` is null in every row written; an answer of the database
that is lost after its commit. The commit and the answer to the user are one step in `Library`, so what it says of answers is
said of those that arrive or that the server was about to give.

## 3. Runs

| Run | Question | Bounds | Result |
|---|---|---|---|
| `billing_webhooks` | after the events of a user were processed, is the access row what Stripe says, is it paid, does the period have a cycle that is paid for? | one user, two subscriptions, one handler, monthly and yearly, three event types, days 1..2 | holds |
| `billing_liveness` | does a paid checkout end in a paid access? | one user, one subscription, two overlapping handlers, two plans, failures and restarts | holds |
| `credit_metering` | is a cycle ever overcharged, does one outlast what was paid; is the meter implemented? | two requests, one handler, the last days of three months, of which the second has no 31st; the daily job on the last two | holds |
| `midcycle_reset` | do credits return only with a new cycle? | one request | violated |
| `posting` | do post, project and what was published agree; is the abstract delivery implemented? | one project of two posts, two runs of the job, two reports, one user's call, a restart | holds |
| `posting_liveness` | does a due post reach n8n? | two posts, one run of the job at a time, one user's call | holds |
| `engagement` | do the counters agree with the rows? | three users, one post that can be rated, three comments, two transactions or events at a time | holds |
| `notifications` | does a connection miss anything, is the map right, is a resolution told? | one user, one administrator, two connections, two handlers, two notifications, two reports | holds |
| `notification_liveness` | does what stays unread arrive? | as above, one connection, no reports | holds |
| `content` | do rows, bucket and index agree? | one post, blog or category, two calls, two texts and an empty title, two images, two thumbnails, two videos of which the bucket refuses one | holds |
| `content_liveness` | does the index settle? | one post, two calls, one image; an update empties the title, changes the text and drops the image | holds |
| `services` | do rows agree with Firebase, with the pages, with the answers? | two users, two emails, two requests of each kind, one Facebook user with two pages, one project, blog, post and collection | holds |

Why the bounds are enough. Each hazard needs two actors and one row they share; the
runs have two of the actors in question (requests, handlers, runs of the job, reports,
transactions) and one user or target for them to meet on. Three users in `engagement`
are the owner, one being deleted and one who replies; three comments are the smallest
tree with a reply to a reply. Two posts make a project end with the second report.
Two subscriptions are what two open Checkout sessions can give one user. Two connections of one user are
needed for one to disturb the other's entry in the map, two reports of one reporter for
one resolution to hide the other. Two calls on one item of `content` are an update and what races it: another
update, a deletion, or the embedding of its creation; a second item shares nothing with the first but the
synchronisation, which works item by item. In `services` one Facebook user moves between
two users, and two pages are needed for a synchronisation to keep one and drop the other;
tokens are issued twice and rows made twice (`MaxToken`, `MaxId`), so that an old one can be written over a new one. The bounds of
time (`LastDay`, `Forever`) allow one renewal. In `credit_metering` a subscriber of the 31st is skipped in the short month: a
just-in-time reset opens a cycle until the end of the year, and the next anniversary another beside it.

State constraints end a behaviour when it has entered a case that the property
excludes anyway: `NobodyDisturbed`, `NoDisturbance` and `drifted = {}` stop at the first
disturbance, which would make every property checked afterwards hold trivially for
the rows in question. `OneArea` lets likes, shares, comments, ratings and follows occur
in separate behaviours: what they share is the users, the posts and the deletions,
which are in all of them; the `OneArea` of `notifications` separates connections and reports
in the same way, and `TestsApart` the test notifications, which differ from others in their type only. `NoScheduledCancellation` keeps the toggle of the portal,
which `billing_webhooks` explores, out of the metering run: usage does not depend on it. In `content`,
`OneItem` and `OneArea` let words with synchronisations, images, and videos occur in separate behaviours, for a
call about several of them takes the same steps one after the other, and stop when a thumbnail is torn or a post
has lost an image; `OneBesideSync` allows one call beside a synchronisation. In `services`, `OneArea` separates platforms, blogs, posts and busy accounts: they meet
in the deletion of a user, which is in all four, one at a time (`Quiet`). `OnePlatformArea` separates projects and
configs, with one page, from overlapping connections, with two; and projects that stray, and overlapping connections, from accounts
that change hands. `SignedInFirst` has both users sign in before there are platforms. The proofs use none of these.
Deadlock is not checked: when the clock has stopped or everything was deleted the
bounded system may stop.

Symmetry is used in runs without liveness, over sets whose members no definition
tells apart.

### Fairness

`StripeBilling`: strong fairness of the delivery of a pending event (Stripe retries
for days, and the server accepts any number of webhooks; strong because `Handlers`
bounds how many are in progress), weak fairness of the processing steps (the event
loop runs what is ready). Nothing is assumed of users, of Stripe's renewals or of
the absence of failures. `AutoPosting`: weak fairness of the job, which cron starts
every minute, and of its steps; this includes that an HTTP request to n8n fails or
is answered in the end, for which the code sets no timeout. `Engagement` has no
liveness property: nothing repeats a lost event. `Notifications`: weak fairness of the
steps of a connection and of a push whose row is written; nothing of creation, which may fail.
`Content`: weak fairness of the steps of each call, failing included, and of a synchronisation: the
event loop runs what is ready, and a request to Qdrant, the bucket or the database returns or throws.
`Services` states no fairness: its promises are about what is there when a request has answered, and
nothing in it is repeated.

### Divergences

`midcycle_reset` shows what the code does against a sentence of the repository, in a trace of
a dozen steps: an event of an active subscription that is delivered again, or any change in the
portal, zeroes the usage of the running cycle.

The others need no run, for one reading shows them; `PROJECT.json` quotes the lines.

* The posting job tests the project's status in the copy it started with, so a project paused
  meanwhile still has its posts triggered. An edit of a post is checked against a status read two awaits earlier.
* The replies of others to a deleted user's comments vanish by cascade and stay counted
  (`cascaded` in Engagement).
* A duplicate follow raises P2002, and the code tests for P2010.
* The processor of `invoice.paid` compares the id of the invoice with the prefix of a subscription and returns.
* The check for a duplicate notification of a resolution looks for a type under another
  spelling than the one it creates.
* The job that expires platforms looks for an expiry that is never stored.
* `update` of a project takes the platform of another user, which `create` refuses (`strayed` in Platforms).
* An update that empties the title of a post leaves the vector of its old title (`FieldFollows` in Content).
* A second collection of the same name is refused by an error the database cannot raise.
* A conversation that is not found is replaced by an empty one before the test for it.

## 4. Proofs

Everything is proved for any number of users, subscriptions, posts, comments, jobs and
handlers. None of the history bounds or state constraints of the runs is assumed. What
is assumed are the ASSUMEs of the modules: the types of the constants, that `Users` and
`Comments` are finite (for counting), that `None` and `Gone` are none of the ids, that the ids of posts,
blogs and categories are told apart, that texts are no sets of images, that no URL is both of an image and of a thumbnail, and of the
calendar that a day starts no later than any of its instants, which is no later than a month after
it (either way of adding one), which is no later than a year after it.

| Theorem | Says | Along |
|---|---|---|
| `TypeCorrect` | types of billing | `TypeInv`: a request that is past a read knows its user and cycle; a subscription that exists has an owner |
| `PaidAccessIsPaidFor` | `NoUnpaidAccess` | `AccessInv` |
| `AccessFollowsStripe` | `AccessMirrorsStripe`, if the endpoint is registered for checkout, updated and deleted events (`Registered`) | `AccessInv`, `MirrorInv` |
| `CyclesPaidFor` | `CyclesArePaidFor` | `AccessInv`, `PeriodInv`, `ResetDayInv`, `CycleInv` |
| `PaidPeriodHasItsCycle` | `PaidPeriodHasCycle`, under `Registered` | the above, `MirrorInv`, `OpenedInv` |
| `CreditsStayWithinQuota` | `CreditsWithinQuota` | `MeterInv` |
| `ImplementsMeter` | StripeBilling implements CreditMeter | `MeterInv`, each step is a charge, a reset or a stutter |
| `PostingTypeCorrect`, `PostedMeansPublished` | types; `PostedWasPublished` | `PostingInv` |
| `PostsArePublishedOnce` | `PublishedAtMostOnce` | `PostingInv`, `OnceInv` |
| `ProjectsEndWithTheirPosts` | `ProjectFollowsPosts` | `PostingInv`, `OnceInv`, `FollowInv` |
| `ImplementsDelivery` | AutoPosting implements PostDelivery | `PostingInv`, `OnceInv` before and after each step |
| `NotificationsTypeCorrect`, `NoNotificationMissed`, `ConnectionsAreReal`, `ResolutionsAnnounced` | types; the three invariants of `notifications` | `NotificationsInv` |
| `TypeCorrect` (Services) | types, unique and foreign keys of accounts, platforms and the library | `ServicesInv` |
| `RowsKeepFirebase`, `PlansFollowUsers` | `RowsHaveFirebase`, `PlanFollowsUser` | `AccountsInv` |
| `SynchronizedPlatforms`, `TokensStayLatest`, `ProjectsKeepPlatforms`, `DeletionsAreOwn` | the three invariants and the action property of Platforms | `PlatformsInv` |
| `TypeCorrect` (Content) | types of rows, points, objects and calls | `TypeInv` |
| `ImagesAreWhereRowsSay` | `ImagesMatchRows` | `CallsInv`, `ImagesInv` |
| `ThumbnailsAreStored` | `ThumbnailIsStored` | `CallsInv`, `ThumbsInv` |
| `NoVectorsOfDeleted` | `NoGhostVectors` | `GhostInv` |
| `PointsFollowRows` | `VectorsFollowRows` | `CallsInv`, `VectorsInv`, `ReadsInv`, `DroppingInv` |
| `BookmarksAsAnswered`, `ProtectionAsAnswered` | the two invariants of Library | `LibraryInv` |
| `EngagementTypeCorrect`, `LikesCounted`, `CommentsAndSharesCounted`, `RatingsAveraged`, `FollowsCounted` | types; the four counters | `EngagementInv` |

`AccessInv`. A paid access is written from a snapshot of the subscription taken some
steps earlier, and the user may be resolved by a customer id that another event
stored. So the invariant says of every handler that it holds the owner of its
subscription (`SnapshotInv`), of every stored customer that it is a subscription of that
user (`CustomerInv`), and of Stripe that what it calls active was paid (`PaymentInv`). That
a snapshot may be stale does not matter because `paidThrough` and `plansHad` only
grow (`PaymentGrows`).

`MirrorInv` adds what makes duplicated and reordered events harmless. Of a user who is not `disturbed`, at most one handler
is at work (`MirrorFor`), and if none is, either the row is as Stripe has it now or Stripe still owes an event that is not an
invoice (`Mirrored`): every change at Stripe sends one, which is where `Registered` is needed. The handler in process promises
the same for its end (`ProcessedFor`): its snapshot is the subscription or an event is owed, and the subscription is the one the
user row names; until it has resolved its user, the row is still mirrored unless the event is about just that subscription.
`Unprocessed` covers the customer a slow checkout call stores: its checkout event is not processed yet.

`CycleInv` says of each cycle, and of each cycle a request or the daily job is about to open, that it is `Covered`: it does not
end before it starts, and its user has paid until it ends. What is paid only grows (`CoveredGrows`), so a decision stays right
until it is carried out; it was right when it was taken because the row that was read is itself paid for (`RowCovers`, from
`NoUnpaidAccess`) and, for the daily job, because a row with a day of the month is a paid one (`ResetDayInv`). `PeriodInv` says of
Stripe that a period ends after it starts, and of a snapshot that it is a period the subscription had: if it ends as the
current one does it is the current one, since a new period starts where the last one ended (`StripeStepMoves`).
`OpenedInv` ties the row to the cycle: a row that expires with the current period was written from a snapshot of it, so the cycle
of the period exists or the handler that wrote the row is about to open it, unless a failure or a restart cut it off, and then the
user is disturbed. `PaidPeriodHasCycle` says that the cycle is paid for and not that it ends with the period: with two
subscriptions of one user a just-in-time reset that read the row of the other one may be the last to write the end, which the runs
reach only with two subscriptions and requests together.

`MeterInv` adds that a request carries the quota of a plan its user has had, and charges
a cycle that exists; the conditional update then keeps the cycle within that quota,
and resets only lower it.

`PostingInv`. A run of the job only holds posts whose project was active when it
started, even if the project has been paused since (`TickInv`); a report of `POSTED` in
progress is about a post that was published (`CallbackInv`), so its second write of the
status, which may undo an edit, still says the truth.

`OnceInv` says of a post nobody disturbed that it is in at most one place: in the batch of one run, with n8n, or in a report
(`OnePlace`), and that this place, with the status, tells how often it was published (`Says`). `FollowInv` says of an undisturbed
project that its posts are pending or on their way until their report is stored (`PostsFollow`), that a start in progress has
all of them pending and none on its way (`CallsFollow`), that a report about to write the project's status decided by what is still true
(`CompletesFollow`), and that an active project without an open post still has a report to decide it (`StatusFollows`).

`ImplementsDelivery` needs no invariant of its own. Two actions change how many executions or publications an undisturbed post has
(`DeliveryWrites`), a run of the job takes what is due and leaves it as it is or `FAILED` (`PickedMoves`), no step brings a deleted row
back (`RowsStay`), and what was disturbed stays so (`HistoryStays`);
`PlacedInv`, which follows from the two invariants, says what a row may say of a post in each place. Every step is then one of the
abstract steps for each of its posts, by the place before and after it.

`EngagementInv`. Between the reads of a deletion and its end others like and
reply, so the invariant relates the lists to the rows: of a target that has not
drifted, every deletion in progress has read exactly the likes and comments its user
has there (`LikeInv`, `CommentInv`). `LockInv` says that the replies a removal has deleted
still are replies of that comment when it commits; with `TreeInv` (a reply is on
its parent's target, and no comment is its own parent) all the cascade takes is on
the one target whose count is lowered, and is at least what is subtracted. The
cascade is defined as the least closed set, so no induction over the depth of the
tree is needed. `RatingInv` says that a call no other overlapped still holds what the
ratings will be when it commits. `FollowInv` says of two users who have not drifted that the rows are the count, with the
pending follows added and the pending unfollows taken away; each pending event is one of finitely many tickets, so the sums
are cardinalities of sets of them, and a deletion in progress has read the rows as they are.

`NotificationsInv`. `DeliveryInv` strengthens `NothingMissed` to connections between their query
and their sending, with what they hold; a push reaches them because `GatewayInv` says
that whoever is connected and past its verification is in the map, and because
`PushInv` ties what a handler pushes to its recipient, or says that the account is
gone. `ReportInv` does the same for reports, so that a handler that ends leaves the
notification that its report needs.

The invariants of Content say of every call what it may still write. `CallsInv`: what a call will insert does not exist yet, and
what it cleans up is gone. `ImagesInv`: a stored image has one place, a row, an upload in progress or a deletion's list, and
what is to be uploaded has none. `ThumbsInv`: a thumbnail belongs to one post, whoever holds it read it from that post, and what was
read of a post that is not torn is still stored unless the reader is about to write a new one. `GhostInv`: an item that was deleted has
no upsert pending, by a call or a synchronisation, and has no point unless its deletion is still to clean up. `VectorsInv`: of each
field of a point either it is the row's, or an upsert pending writes it; all that is pending agrees with the row. Two things are `Due` and excepted: the images of a post while an
update that deletes some has yet to write the row, and a title that is empty, whose old vector is left (an update that
gives a title again finds another one in the row it read, so it writes the vector). `ReadsInv` says the same of a synchronisation, whose rows are as it read them unless
they were touched since, and `DroppingInv` that an update at its images has some to delete.

`ServicesInv` is the conjunction of `AccountsInv`, `PlatformsInv` and `LibraryInv`, so that each step is
checked against its own module's part, and `AccountsStay` (only a deletion removes a user's row)
lets the steps of accounts leave the other two alone. `PlatformsInv` adds `AccountsOwnPlatforms`: the platforms on
a Facebook account that never changed hands are of its user, which is why a deletion that cascades
through it takes only that user's projects, and those an update put there; this survives a synchronisation because of `CallbacksOwn`: a callback that
still finds the account row it made works for that row's user, or the row has moved. `LibraryInv` adds
`AnswersAboutBlogs`: nothing was answered about a blog that was not made yet, so that a new row starts without bookmarks.
`UserDeleted` is the one step that all three parts share, proved once.

Only model-checked: liveness (`CheckoutGrantsAccess`, `DuePostIsTriggered`, `UnreadArrive`, `IndexSettles`), for
temporal reasoning with fairness needs ENABLED, which is out of the prover's reach.

## 5. Plan

Done, in this order: CreditUsage, StripeBilling, CreditMeter; AutoPosting, PostDelivery; Engagement; Notifications;
VectorIndex and Content; Accounts, Platforms, Library, Services; their runs and the theorems above.

Left, most important first:

1. The anniversary job over the real calendar, as a function checked against a reference definition; the runs have one short month.
2. The deletion of an account over Engagement, Services and Content in one composition.

### Not modelled

The generated Prisma client is about three quarters of the lines of the repository and none of its logic.
Of the hand-written rest, the modules cover the operations that change state
in more than one step or in more than one store. What is left are queries (exploring, statistics, analytics),
decisions on one request (guards, validation), calls of one external service (safe search, encryption), the
cache and the chat, whose steps are synchronous, and art generation, one sequence around a charge that
CreditUsage models. `PROJECT.json`, "components", gives the reason for each.

## 6. Running

`tlc -config Engagement.cfg MCEngagement` and the like (the module of each cfg is in
`PROJECT.json`); `tlapm Engagement_proofs.tla`, and so for the other `_proofs` modules.
