SPECIFICATION Spec
CONSTANTS
  Apps = {a1, a2}
  Urls = {u1, u2}
  Text = Text
  NULL = NULL
  MaxServices <- Services
  MaxUrls <- UrlCount
  MaxListed <- Listed
CHECK_DEADLOCK FALSE
INVARIANTS UrlsAnnounced CrashesOnlyOnEmptyReply ListIsListings
