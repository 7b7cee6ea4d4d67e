SPECIFICATION SyncFairSpec
CONSTANTS
    p1 = p1
    p2 = p2
    ann = ann
    bob = bob
    cy = cy
    dee = dee
    annMail = annMail
    bobMail = bobMail
    Portal = {p1, p2}
    Account = {ann, bob, cy, dee}
    Email = {annMail, bobMail}
    EmailOf <- SharedEmail
    Admins = {}
    Present = {ann, bob, dee}
    AdminEmails <- AnnTwice
    DevMode = TRUE
    SeedUsers <- SeedTwo
    SeedRole <- CyAdmin
    Attempts = 2
    MaxFaults = 3
    MaxRestarts = 1
CHECK_DEADLOCK FALSE
INVARIANT OnlyNamedAreAdmins
PROPERTY ListedBecomeAdmins
