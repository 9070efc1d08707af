-------------------------------- MODULE Handlers --------------------------------
(***************************************************************************)
(* The controllers, as the parameters of RequestPath: for each handler the *)
(* remote calls it makes, in stages.  A stage is a set of calls that are   *)
(* awaited together; a handler without stages answers by itself.  A call   *)
(* is named for the client and its method, a handler for its domain.       *)
(*                                                                         *)
(* Next to the controllers stand the methods of every service client; what *)
(* a method changes nothing with is in Reads, by what the controllers use  *)
(* it for.  Catalogued says that the two lists agree.                      *)
(***************************************************************************)
EXTENDS Naturals, Sequences

(* Handlers that make one call, of the same name.                          *)
Own(hs) == {<<h, <<{h}>>>> : h \in hs}

Silent(hs) == {<<h, <<>>>> : h \in hs}

------------------------------------------------------------------------------
(* Authentication and administration.                                      *)

AuthRegistration ==
    Own({"auth.registerUser", "auth.resetPassword"}) \cup Silent({"auth.generateCsrfToken"})
    \cup {<<"auth.forgotPassword",
            <<{"auth.forgotPassword"}, {"notification.forgotPassword"}>>>>}

(* checkEmailAvailability asks the user service only about a hit of the    *)
(* Bloom filter.                                                           *)
AuthSessions ==
    Own({"auth.loginUser", "auth.logoutUser", "auth.refreshToken"})
    \cup {<<"auth.oauthSign", <<{"auth.auth2Sign"}>>>>,
          <<"auth.checkEmailAvailability", <<{"user.checkUserEmailExists"}>>>>,
          <<"auth.resendOtp", <<{"notification.sendOtp"}>>>>,
          <<"auth.verifyUser", <<{"notification.verifyOtp"}, {"auth.verifyUser"}>>>>}

AdminSessions ==
    {<<"admin.adminLogin", <<{"auth.adminLogin"}>>>>,
     <<"admin.adminRefresh", <<{"auth.adminRefresh"}>>>>} \cup Silent({"admin.adminLogout"})

AdminBlocks ==
    {<<"admin.blockAccount", <<{"user.blockAccount"}, {"redis.blockAccount"}>>>>,
     <<"admin.unblockAccount", <<{"user.unBlockAccount"}, {"redis.unblockAccount"}>>>>,
     <<"admin.blockInstructor", <<{"user.blockInstructor"}, {"redis.blockUserRole"}>>>>,
     <<"admin.unblockInstructor", <<{"user.unBlockInstructor"}, {"redis.unblockUserRole"}>>>>}

AdminUsers ==
    {<<"admin.getUser", <<{"user.getUser"}>>>>,
     <<"admin.getUsers", <<{"user.listUsers"}>>>>,
     <<"admin.getAllInstructors", <<{"user.listInstructors"}>>>>,
     <<"admin.updateUserData", <<{"user.updateUserDetails"}>>>>}

AdminStats ==
    {<<"admin.getSystemOverview", <<{"user.getUsersStats", "user.getInstructorsStats",
                                     "course.getCoursesStats", "order.getRevenueStats"}>>>>,
     <<"admin.getRevenuesStats", <<{"order.getRevenueStats"}>>>>,
     <<"admin.getEnrollmentTrend", <<{"enrollment.getEnrollmentTrend"}>>>>}

AdminTrends ==
    {<<"admin.getUserGrowthTrend", <<{"user.getUsersGrowthTrend"}>>>>,
     <<"admin.getInstructorGrowthTrend", <<{"user.getInstructorsGrowthTrend"}>>>>}

------------------------------------------------------------------------------
(* Users, instructors, wallets, wishlists and carts.                       *)

UserAccounts ==
    Own({"user.getUser", "user.listInstructors", "user.getCurrentUser"})
    \cup {<<"user.checkUsername", <<{"user.checkUserEmailExists"}>>>>,
          <<"user.changePassword", <<{"auth.changePassword"}>>>>,
          <<"user.getUsers", <<{"user.listUsers"}>>>>,
          <<"user.getOnlineUsers", <<{"chat.getOnlineUsers"}>>>>}

UserUpdates ==
    Own({"user.registerInstructor", "user.listInstructorsOfStudent",
         "user.listStudentsOfInstructor"})
    \cup {<<"user.updateUserData", <<{"user.updateUserDetails"}, {"redis.invalidateUser"}>>>>,
          <<"user.updateCurrentUser", <<{"user.updateUserDetails"}, {"redis.invalidateUser"},
                                        {"redis.invalidateInstructor"}>>>>}

InstructorTotals == {"course.getInstructorCoursesStats", "wallet.getInstructorRevenueSummery",
                     "enrollment.getInstructorCoursesEnrollmentSummery"}

CourseAnalytics == {"course.getInstructorCourseRatingStats",
                    "enrollment.getInstructorCourseRevenueSummery",
                    "enrollment.getInstructorCourseEnrollmentSummery",
                    "enrollment.getInstructorCourseEnrollmentTrend"}

UserStats ==
    {<<"user.getInstructorCoursesStats", <<InstructorTotals>>>>,
     <<"user.getInstructorsStats", <<{"user.getInstructorsStats", "course.getCoursesStats"}>>>>}
    \cup Own({"user.getUsersStats"})

UserAnalytics == {<<"user.getInstructorCourseAnalytics", <<CourseAnalytics>>>>}

UserTotals == {<<"user.getInstructorStats", <<InstructorTotals>>>>}

InstructorAccounts ==
    {<<"instructor.listInstructors", <<{"user.listInstructors"}>>>>,
     <<"instructor.registerInstructor", <<{"user.registerInstructor"}>>>>,
     <<"instructor.listStudentsOfInstructor", <<{"user.listStudentsOfInstructor"}>>>>}

InstructorStats ==
    {<<"instructor.getInstructorCoursesStats", <<InstructorTotals>>>>,
     <<"instructor.getInstructorsStats", <<{"user.getInstructorsStats",
                                            "course.getCoursesStats"}>>>>}

InstructorAnalytics == {<<"instructor.getInstructorCourseAnalytics", <<CourseAnalytics>>>>}

InstructorOverview == {<<"instructor.getInstructorStats", <<InstructorTotals>>>>}

Wallets == Own({"wallet.getWalletTransactions", "wallet.getUserWallet"})

Wishlists ==
    {<<h, <<{"wishlist.getUserWishlist"}, {"course.getCoursesByIds"}>>>> :
        h \in {"wishlist.getUserWishlist", "wishlist.getCurrentUserWishlist"}}

WishlistChanges ==
    Own({"wishlist.toggleWishlistItem", "wishlist.removeFromWishlist", "wishlist.addToWishlist"})

Carts == {<<h, <<{"cart.getUserCart"}, {"course.getCoursesByIds"}>>>> :
             h \in {"cart.getUserCart", "cart.getCurrentUserCart"}}

CartChanges ==
    Own({"cart.removeFromCart", "cart.addToCart", "cart.clearCart", "cart.toggleCartItem"})

------------------------------------------------------------------------------
(* Chats and discussions.                                                  *)

Chats ==
    {<<"chat.createOrGetChat", <<{"chat.createOrGetChat", "user.getUser"}>>>>,
     <<"chat.getChat", <<{"chat.getChat"}, {"user.getUser"}>>>>,
     <<"chat.getStudentChats", <<{"chat.listStudentChats"}, {"user.listUsersByIds"}>>>>}

InstructorChats ==
    {<<"chat.getInstructorChats", <<{"chat.listInstructorChats"}, {"user.listUsersByIds"}>>>>}
    \cup Own({"chat.pinChat", "chat.unPinChat"})

ChatChanges ==
    Own({"chat.deleteChat", "chat.archiveChat", "chat.unArchiveChat", "chat.getMessages",
         "chat.sendMessage"})

ChatMessages ==
    Own({"chat.editMessage", "chat.markMessagesRead", "chat.deleteMessage",
         "chat.removeReaction"}) \cup {<<"chat.reactMessage", <<{"chat.addReaction"}>>>>}

Discussions ==
    {<<"discussion.createOrGetRoom", <<{"chat.createOrGetDiscussionRoom"}>>>>,
     <<"discussion.sendMessage", <<{"chat.sendDiscussionMessage", "user.getUser"}>>>>,
     <<"discussion.getMessages", <<{"chat.getDiscussionMessages"}, {"user.listUsersByIds"}>>>>}

------------------------------------------------------------------------------
(* Courses.                                                                *)

CourseBasics == Own({"course.createCourse", "course.updateCourse", "course.getCourse"})

CourseReport == {<<"course.getCourseAnalytics", <<CourseAnalytics>>>>}

CourseQueries ==
    {<<"course.getCourseBySlug", <<{"course.getCoursesBySlug"}>>>>,
     <<"course.getCoursesStats", <<{"course.getInstructorCoursesStats"}>>>>}
    \cup Own({"course.getCoursesByInstructor"})

CoursePublishing ==
    Own({"course.deleteCourse", "course.publishCourse", "course.unPublishCourse",
         "course.getEnrolledCourses"}) \cup {<<"course.getCourses", <<{"course.listCourses"}>>>>}

Modules ==
    Own({"course.getModule", "course.createModule", "course.deleteModule",
         "course.updateModule", "course.getModulesByCourse"})

Lessons ==
    Own({"course.getLesson", "course.createLesson", "course.deleteLesson",
         "course.updateLesson", "course.getLessonsByModule"})

Quizzes ==
    Own({"course.getQuizzesByCourse", "course.getQuiz", "course.createQuiz",
         "course.deleteQuiz", "course.updateQuiz"})

CourseReviews == {<<"course.getReviewsByCourse", <<{"enrollment.getReviewsByCourse"}>>>>}

Categories ==
    Own({"course.getAllCategories", "course.getCategoriesStats", "course.createCategory",
         "course.updateCategory", "course.toggleCategoryStatus", "course.deleteCategory"})

------------------------------------------------------------------------------
(* Enrollments, media, notifications, orders and payments.                 *)

Reviews ==
    Own({"enrollment.getReviewsByCourse", "enrollment.getReview",
         "enrollment.submitCourseReview"})
    \cup {<<"enrollment.getEnrollmentReview", <<{"enrollment.getReviewByEnrollment"}>>>>,
          <<"enrollment.deleteEnrollmentReview", <<{"enrollment.deleteReview"}>>>>,
          <<"enrollment.updateEnrollmentReview", <<{"enrollment.updateReview"}>>>>}

Enrollments ==
    Own({"enrollment.deleteEnrollment", "enrollment.updateEnrollment"})
    \cup {<<"enrollment.getEnrollment", <<{"enrollment.getEnrollmentDetails"}>>>>,
          <<"enrollment.checkEnrollment", <<{"enrollment.checkEnrolled"}>>>>,
          <<"enrollment.getEnrollments", <<{"enrollment.getEnrollmentsByUser"}>>>>}

Certificates ==
    Own({"enrollment.downloadCertificate", "enrollment.getCertificate",
         "enrollment.generateCertificate", "enrollment.getCertificatesByUser"})
    \cup {<<"enrollment.getCertificateByEnrolment",
            <<{"enrollment.getCertificateByEnrollment"}>>>>}

Progresses ==
    Own({"enrollment.getProgress", "enrollment.getProgressByEnrollment",
         "enrollment.updateLessonProgress", "enrollment.submitQuizProgress",
         "enrollment.deleteProgress"})

Playback ==
    {<<"enrollment.getSignedVideoPlaybackUrl",
       <<{"enrollment.checkEnrolled", "course.getLesson"},
         {"storage.getSignedSecureCourseUrl"}>>>>}
    \cup Silent({"enrollment.getVideoPlaybackRefreshUrl"})

Signatures ==
    {<<"media.generateCourseUploadSignature", <<{"storage.generatePresignedUploadUrl"}>>>>,
     <<"media.generateCourseUploadSecureSignature",
       <<{"storage.generateSecurePresignedUploadUrl"}>>>>,
     <<"media.generateSignedCourseUrl", <<{"storage.getSignedSecureCourseUrl"}>>>>}
    \cup Silent({"media.generateAvatarUpdateSignature"})

Multipart == Silent({"media.multipartSignInit", "media.multipartSignComplete",
                     "media.multipartSignGetParts", "media.multipartSignAbort"})

Notifications ==
    Own({"notification.getNotification", "notification.deleteNotification",
         "notification.markAllAsRead", "notification.markAsRead"})
    \cup {<<"notification.getNotifications", <<{"notification.getAllNotifications"}>>>>,
          <<"notification.clearNotifications", <<{"notification.clearUserNotifications"}>>>>}

Orders ==
    Own({"order.placeOrder"})
    \cup {<<"order.getOrder", <<{"order.getOrderById"}, {"course.getCoursesByIds"}>>>>,
          <<"order.resetOrder", <<{"order.resetOrder"}, {"course.getCoursesByIds"}>>>>}

OrderLists ==
    Own({"order.getOrderStatus"})
    \cup {<<"order.getOrdersByUser", <<{"order.getOrdersByUserId"}, {"course.getCoursesByIds"}>>>>}

Payments ==
    Own({"payment.createPayment", "payment.createProviderSession", "payment.resolvePayment",
         "payment.cancelPayment", "payment.getPayment"})
    \cup Silent({"payment.refundPayment", "payment.updatePaymentStatus"})

Catalog ==
    UNION {AuthRegistration, AuthSessions, AdminSessions, AdminBlocks, AdminUsers, AdminStats,
           AdminTrends, UserAccounts, UserUpdates, UserStats, UserAnalytics, UserTotals,
           InstructorAccounts, InstructorStats, InstructorAnalytics, InstructorOverview,
           Wallets, Wishlists, WishlistChanges, Carts, CartChanges, Chats, InstructorChats,
           ChatChanges, ChatMessages, Discussions, CourseBasics, CourseReport, CourseQueries,
           CoursePublishing, Modules, Lessons, Quizzes, CourseReviews, Categories, Reviews,
           Enrollments, Certificates, Progresses, Playback, Signatures, Multipart,
           Notifications, Orders, OrderLists, Payments}

(* Stages of RequestPath.                                                  *)
Plan == [h \in {e[1] : e \in Catalog} |-> (CHOOSE e \in Catalog : e[1] = h)[2]]

------------------------------------------------------------------------------
(* The service clients: the methods that change something, and the others. *)

AuthWrites ==
    {"auth.registerUser", "auth.auth2Sign", "auth.logoutUser", "auth.verifyUser",
     "auth.refreshToken", "auth.loginUser", "auth.forgotPassword", "auth.changePassword",
     "auth.resetPassword", "auth.adminLogin", "auth.adminRefresh"}

CartMethods ==
    [writes |-> {"cart.addToCart", "cart.clearCart", "cart.toggleCartItem",
                 "cart.removeFromCart"},
     reads  |-> {"cart.getUserCart"}]

ChatMethods ==
    [writes |-> {"chat.addReaction", "chat.archiveChat", "chat.deleteChat",
                 "chat.createOrGetChat", "chat.pinChat", "chat.unPinChat", "chat.unArchiveChat",
                 "chat.sendMessage"},
     reads  |-> {"chat.getChat", "chat.listStudentChats", "chat.listInstructorChats",
                 "chat.getOnlineUsers", "chat.getMessages"}]

MessageMethods ==
    [writes |-> {"chat.editMessage", "chat.deleteMessage", "chat.removeReaction",
                 "chat.markMessagesRead", "chat.createOrGetDiscussionRoom",
                 "chat.sendDiscussionMessage"},
     reads  |-> {"chat.getDiscussionMessages"}]

CourseMethods ==
    [writes |-> {"course.createCourse", "course.updateCourse", "course.deleteCourse",
                 "course.publishCourse", "course.unPublishCourse"},
     reads  |-> {"course.listCourses", "course.getCourse", "course.getCoursesByInstructor",
                 "course.getEnrolledCourses", "course.getCoursesBySlug",
                 "course.getCoursesByIds"}]

ContentMethods ==
    [writes |-> {"course.createModule", "course.updateModule", "course.deleteModule",
                 "course.createLesson", "course.updateLesson", "course.deleteLesson"},
     reads  |-> {"course.getModule", "course.getModulesByCourse", "course.getLessonsByModule",
                 "course.getLesson"}]

QuizMethods ==
    [writes |-> {"course.createQuiz", "course.updateQuiz", "course.deleteQuiz"},
     reads  |-> {"course.getQuiz", "course.getQuizzesByCourse",
                 "course.getInstructorCoursesStats", "course.getCoursesStats",
                 "course.getInstructorCourseRatingStats"}]

CategoryMethods ==
    [writes |-> {"course.createCategory", "course.updateCategory", "course.deleteCategory",
                 "course.toggleCategoryStatus"},
     reads  |-> {"course.getAllCategories", "course.getCategoriesStats"}]

EnrollmentMethods ==
    [writes |-> {"enrollment.updateEnrollment", "enrollment.deleteEnrollment",
                 "enrollment.createProgress", "enrollment.submitQuizProgress",
                 "enrollment.updateLessonProgress", "enrollment.deleteProgress"},
     reads  |-> {"enrollment.getEnrollment", "enrollment.getEnrollmentDetails",
                 "enrollment.getEnrollmentsByUser", "enrollment.getEnrollmentsByCourse",
                 "enrollment.getProgress", "enrollment.getProgressByEnrollment"}]

ReviewMethods ==
    [writes |-> {"enrollment.submitCourseReview", "enrollment.updateReview",
                 "enrollment.deleteReview", "enrollment.generateCertificate"},
     reads  |-> {"enrollment.getReview", "enrollment.getReviewsByCourse",
                 "enrollment.getReviewByEnrollment", "enrollment.checkEnrolled",
                 "enrollment.getCertificate", "enrollment.getCertificateByEnrollment",
                 "enrollment.getCertificatesByUser", "enrollment.downloadCertificate"}]

TrendReads ==
    {"enrollment.getInstructorCoursesEnrollmentSummery",
     "enrollment.getInstructorCourseEnrollmentSummery",
     "enrollment.getInstructorCourseRevenueSummery",
     "enrollment.getInstructorCourseEnrollmentTrend", "enrollment.getEnrollmentTrend",
     "enrollment.getRevenueStats", "enrollment.getMonthlyCoursesEnrollmentStats"}

NotificationMethods ==
    [writes |-> {"notification.sendOtp", "notification.verifyOtp",
                 "notification.forgotPassword", "notification.deleteNotification",
                 "notification.clearUserNotifications", "notification.markAllAsRead",
                 "notification.markAsRead"},
     reads  |-> {"notification.getAllNotifications", "notification.getNotification"}]

OrderMethods ==
    [writes |-> {"order.bookSession", "order.resetOrder", "order.placeOrder"},
     reads  |-> {"order.getOrderById", "order.getOrderStatus", "order.getOrdersByUserId",
                 "order.getRevenueStats"}]

PaymentMethods ==
    [writes |-> {"payment.createPayment", "payment.createProviderSession",
                 "payment.resolvePayment", "payment.cancelPayment"},
     reads  |-> {"payment.getPayment"}]

UserMethods ==
    [writes |-> {"user.registerInstructor", "user.updateUserDetails", "user.blockAccount",
                 "user.unBlockAccount", "user.blockInstructor", "user.unBlockInstructor"},
     reads  |-> {"user.listInstructors", "user.checkUserEmailExists", "user.getUserEmails",
                 "user.getUser", "user.getCurrentUser", "user.listUsers",
                 "user.listUsersByIds"}]

UserListReads ==
    {"user.listInstructorsOfStudent", "user.listStudentsOfInstructor", "user.getUsersStats",
     "user.getInstructorsStats", "user.getInstructorsGrowthTrend", "user.getUsersGrowthTrend"}

WalletReads ==
    {"wallet.getUserWallet", "wallet.getWalletTransactions", "wallet.getInstructorRevenueSummery"}

WishlistMethods ==
    [writes |-> {"wishlist.addToWishlist", "wishlist.removeFromWishlist",
                 "wishlist.toggleWishlistItem"},
     reads  |-> {"wishlist.getUserWishlist"}]

Methods == {CartMethods, ChatMethods, MessageMethods, CourseMethods, ContentMethods,
            QuizMethods, CategoryMethods, EnrollmentMethods, ReviewMethods,
            NotificationMethods, OrderMethods, PaymentMethods, UserMethods, WishlistMethods}

(* What is called without a gRPC client: Redis and the signing of URLs.    *)
RedisWrites ==
    {"redis.blockAccount", "redis.unblockAccount", "redis.blockUserRole",
     "redis.unblockUserRole", "redis.invalidateUser", "redis.invalidateInstructor"}

Presigning ==
    {"storage.generatePresignedUploadUrl", "storage.generateSecurePresignedUploadUrl",
     "storage.getSignedSecureCourseUrl"}

Untimeds == RedisWrites \cup Presigning

WriteCalls == AuthWrites \cup RedisWrites \cup UNION {m.writes : m \in Methods}

ReadCalls ==
    Presigning \cup WalletReads \cup UserListReads \cup TrendReads
    \cup UNION {m.reads : m \in Methods}

------------------------------------------------------------------------------
(* What some handlers do beside calling.                                   *)

OptionalCalls ==
    {<<"chat.createOrGetChat", "user.getUser">>, <<"discussion.sendMessage", "user.getUser">>,
     <<"discussion.getMessages", "user.listUsersByIds">>}

(* An empty list, a preview lesson or a miss of the Bloom filter leaves    *)
(* nothing to ask in the last stage.                                       *)
Skipping ==
    {"wishlist.getUserWishlist", "wishlist.getCurrentUserWishlist", "cart.getUserCart",
     "cart.getCurrentUserCart", "chat.getStudentChats", "chat.getInstructorChats",
     "discussion.getMessages", "order.getOrder", "order.resetOrder", "order.getOrdersByUser",
     "enrollment.getSignedVideoPlaybackUrl", "auth.checkEmailAvailability",
     "user.checkUsername"}

Checking == {"admin.getUser", "admin.updateUserData", "enrollment.getSignedVideoPlaybackUrl"}

(* The handlers that call on after a write, or check it.                   *)
WritesThenMore ==
    {"auth.forgotPassword", "auth.verifyUser", "order.resetOrder", "admin.blockAccount",
     "admin.unblockAccount", "admin.blockInstructor", "admin.unblockInstructor",
     "admin.updateUserData", "user.updateUserData", "user.updateCurrentUser"}

Streamed == {"enrollment.downloadCertificate"}

(* In ticks of ten seconds; the default of both clocks is thirty seconds.  *)

DeadlineTicks(c) ==
    IF c \in {"payment.createPayment", "payment.createProviderSession"} THEN 6
    ELSE IF c = "enrollment.deleteProgress" THEN 1 ELSE 3

(* The payment client is the one that configures its breaker itself.       *)
BreakerTicks(c) == IF c \in PaymentMethods.writes \cup PaymentMethods.reads THEN 6 ELSE 3

Silenced == {"auth.logoutUser"}

(* Every call of a handler is a method of a client, and no method is both. *)
ASSUME Catalogued ==
    /\ UNION {UNION {e[2][i] : i \in 1..Len(e[2])} : e \in Catalog}
          \subseteq WriteCalls \cup ReadCalls
    /\ WriteCalls \cap ReadCalls = {}
    /\ \A d, e \in Catalog : d[1] = e[1] => d = e
==============================================================================
