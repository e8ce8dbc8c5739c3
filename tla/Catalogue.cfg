\* A request and two seeds at a time over the demo rows and another environment
\* of the demo application.
SPECIFICATION CatalogueLiveSpec
CONSTANTS
    Workers = {w1}
    Seeders = {s1, s2}
    DemoSlug = demo
    DemoName = production
    Slugs = {demo}
    Names = {production, other}
    MaxRows = 3
INVARIANTS OneRowPerKey AnswersStayTrue NoHalfSeed SeedFailsTwice
PROPERTIES SeedConverges CreationsEnd
