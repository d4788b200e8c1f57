CONSTANTS
    notes = notes
    Admin = {"root"}
    BuiltIn <- FreshGroups
    CourseOf <- Course
    TeacherOf <- Teachers
    AssistantOf <- Assistants
    NoUser = "nobody"
    NoCourse = "none"
    FirstMode <- RootMode
    User = {"root", "usr3", "usr7"}
    Joined <- Mates
    Above <- CourseGroups
    Name = {"root", "usr3", "usr7", "system", "cs101", "cs101_teacher", "cs101_assistant",
            "cs101_lab", "team"}
    Path <- OneFile
    Modes <- BothModes
    Grants <- ManageOnly
    Scopes <- FileOnly
    Workload <- Workloads
SPECIFICATION Spec
INVARIANTS
    MembershipAgrees
PROPERTIES
    FreshGroupIsCreatorsOnly
    AccessNeedsConsent
