SPECIFICATION FairSpec
CONSTANTS
  Post = post
  Posts <- OnePost
  MaxMessages = 4
  MaxSends = 3
INVARIANTS TypeOK EachMessageOnce SuccessIsComplete
PROPERTIES QuietAfterEnd CallSettles
